-------------------------- MODULE MCProviderPosture --------------------------
(* Instances of ProviderPosture for TLC. *)
EXTENDS ProviderPosture
=============================================================================
