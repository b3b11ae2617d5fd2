--------------------------- MODULE MCBoundedProcess ---------------------------
(* Instances of BoundedProcess for TLC. *)
EXTENDS BoundedProcess

(* Unequal limits, one below and one at the size of a pipe. *)
SmallLimits == [stdout |-> 1, stderr |-> 2]
=============================================================================
