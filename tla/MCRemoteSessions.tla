-------------------------- MODULE MCRemoteSessions --------------------------
(* Instances of RemoteSessions for TLC. *)
EXTENDS RemoteSessions, TLC

(* Principals, sessions and tasks are interchangeable in safety runs. *)
Symmetric ==
  Permutations(Requests) \cup Permutations(Principals) \cup Permutations(Sessions)
=============================================================================
