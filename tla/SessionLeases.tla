---------------------------- MODULE SessionLeases ----------------------------
(***************************************************************************)
(* What stateful /mcp promises its clients, with no middleware in sight:   *)
(* a session is leased to one principal, at most MaxSessions leases exist, *)
(* a lease never changes hands, and a request is served in a session only  *)
(* on behalf of the principal that holds the lease when service begins.    *)
(* RemoteSessions, the middleware of ore-mcp-remote, implements this.      *)
(***************************************************************************)
EXTENDS Naturals, FiniteSets

CONSTANTS
  Requests,     \* requests that may be in service at once
  Principals,   \* verified identities: subject, shared session, client, realm
  Sessions,     \* Mcp-Session-Id values
  Nobody,       \* the holder of a session that is not leased
  MaxSessions   \* capacity of the table

VARIABLES
  lease,        \* lease[s]: the principal that holds s, or Nobody
  serving       \* serving[r]: the <<session, principal>> r runs as, or <<>>

leaseVars == <<lease, serving>>

Leased == {s \in Sessions : lease[s] # Nobody}

LeaseInit ==
  /\ lease = [s \in Sessions |-> Nobody]
  /\ serving = [r \in Requests |-> <<>>]

(* A free session is leased to p while the table has room. *)
Grant(s, p) ==
  /\ lease[s] = Nobody
  /\ Cardinality(Leased) < MaxSessions
  /\ lease' = [lease EXCEPT ![s] = p]
  /\ UNCHANGED serving

(* Deletion and expiry end leases, several at once when a sweep runs. *)
Release(S) ==
  /\ lease' = [s \in Sessions |-> IF s \in S THEN Nobody ELSE lease[s]]
  /\ UNCHANGED serving

BeginService(r, s, p) ==
  /\ lease[s] = p
  /\ serving[r] = <<>>
  /\ serving' = [serving EXCEPT ![r] = <<s, p>>]
  /\ UNCHANGED lease

EndService(r) ==
  /\ serving' = [serving EXCEPT ![r] = <<>>]
  /\ UNCHANGED lease

(* The last action of a request may be the one that releases its session. *)
EndAndRelease(r, S) ==
  /\ serving' = [serving EXCEPT ![r] = <<>>]
  /\ lease' = [s \in Sessions |-> IF s \in S THEN Nobody ELSE lease[s]]

LeaseNext ==
  \/ \E s \in Sessions, p \in Principals : Grant(s, p)
  \/ \E S \in SUBSET Sessions : Release(S)
  \/ \E r \in Requests, s \in Sessions, p \in Principals : BeginService(r, s, p)
  \/ \E r \in Requests : EndService(r)
  \/ \E r \in Requests, S \in SUBSET Sessions : EndAndRelease(r, S)

LeaseSpec == LeaseInit /\ [][LeaseNext]_leaseVars
=============================================================================
