--------------------------- MODULE MCJwksVerifier ---------------------------
(* Instances of JwksVerifier for TLC. *)
EXTENDS JwksVerifier, TLC

Symmetric == Permutations(Requests) \cup Permutations(Keys)
=============================================================================
