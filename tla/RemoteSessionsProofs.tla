------------------------ MODULE RemoteSessionsProofs ------------------------
(***************************************************************************)
(* Proofs about the session middleware, for any number of requests,        *)
(* principals, sessions and permits.                                       *)
(***************************************************************************)
EXTENDS RemoteSessions, FiniteSetTheorems, TLAPS

(* A permit is owned only past the reservation, and both the reservation   *)
(* and its owner belong to a request that came without a session in        *)
(* stateful mode; a request under way or answered has a principal.         *)
HoldersCreate ==
  \A r \in Requests :
    /\ r \in holding => pc[r] \in {"forward", "respond", "closing"}
    /\ pc[r] = "closing" => r \in holding
    /\ r \in holding \/ pc[r] = "acquire" => header[r] = NoSession /\ mode = "stateful"

CallersKnown ==
  \A r \in Requests : pc[r] \in Running \cup {"answered"} => caller[r] \in Principals

(* The accounting invariant: PermitsConserved alone is not inductive, as a *)
(* reservation must not find its request among the holders and the counts  *)
(* mean nothing for infinite sets.                                         *)
AccountInv ==
  /\ TypeOK
  /\ IsFiniteSet(Bound)
  /\ HoldersCreate
  /\ CallersKnown
  /\ PermitsConserved

(* Where rmcp keeps to its contract a binding names the principal that     *)
(* created the session, and so does a reply about to be                    *)
(* bound; these carry ServedAsOwner over LookupSession and BindSession.    *)
IdentityInv ==
  /\ \A s \in Sessions \ mistaken : binding[s] # Nobody => binding[s] = owner[s]
  /\ \A r \in holding :
       pc[r] = "respond" /\ reply[r] \in Sessions \ mistaken
         => owner[reply[r]] = caller[r]
  /\ ServedAsOwner

-----------------------------------------------------------------------------
(* A request that ends with End leaves the accounts in order. *)
LEMMA EndKeepsAccounts ==
  ASSUME AccountInv, NEW r \in Requests, NEW how, End(r, how),
         binding' = binding
  PROVE  /\ holding' \in SUBSET Requests
         /\ permits' \in 0..MaxSessions
         /\ IsFiniteSet(Bound')
         /\ PermitsConserved'
<1>1. Bound' = Bound
  BY DEF Bound
<1>2. IsFiniteSet(holding) /\ Cardinality(holding) \in Nat
  BY RequestsFinite, FS_Subset, FS_CardinalityType DEF AccountInv, TypeOK
<1>3. Cardinality(Bound) \in Nat
  BY FS_CardinalityType DEF AccountInv
<1>4. Cardinality(holding') = IF r \in holding THEN Cardinality(holding) - 1
                                               ELSE Cardinality(holding)
  BY <1>2, FS_RemoveElement DEF End
<1>5. permits \in Nat /\ MaxSessions \in Nat
  BY BoundsOK DEF AccountInv, TypeOK
<1>6. permits' + Cardinality(Bound') + Cardinality(holding') = MaxSessions
  BY <1>1, <1>2, <1>3, <1>4, <1>5 DEF AccountInv, PermitsConserved, End, PermitsOf
<1>7. IsFiniteSet(holding') /\ Cardinality(holding') \in Nat
  BY <1>2, FS_RemoveElement, FS_CardinalityType DEF End
<1>8. permits' \in Nat
  BY <1>5 DEF End, PermitsOf
<1>9. permits' \in 0..MaxSessions
  BY <1>1, <1>3, <1>5, <1>6, <1>7, <1>8
<1>10. QED
  BY <1>1, <1>6, <1>9 DEF AccountInv, TypeOK, End, PermitsConserved

(* Nothing is bound, held or spent initially. *)
LEMMA InitAccounts == Init => AccountInv
<1> SUFFICES ASSUME Init PROVE AccountInv
  OBVIOUS
<1>1. TypeOK
  BY SentinelsDistinct, BoundsOK DEF Init, TypeOK, Running, Final
<1>2. Bound = {}
  BY DEF Init, Bound
<1>3. IsFiniteSet(Bound) /\ Cardinality(Bound) = 0 /\ Cardinality(holding) = 0
  BY <1>2, FS_EmptySet DEF Init
<1>4. PermitsConserved
  BY <1>3, BoundsOK DEF Init, PermitsConserved
<1>5. HoldersCreate /\ CallersKnown
  BY DEF Init, HoldersCreate, CallersKnown, Running
<1>6. QED
  BY <1>1, <1>3, <1>4, <1>5 DEF AccountInv

(* Steps that leave the table, the semaphore and the holders alone. *)
LEMMA SameAccounts ==
  ASSUME AccountInv, UNCHANGED <<binding, permits, holding>>
  PROVE  IsFiniteSet(Bound') /\ PermitsConserved'
BY DEF AccountInv, PermitsConserved, Bound

(* The steps that neither move a permit nor change a binding. *)
LEMMA QuietAccounts ==
  ASSUME AccountInv, NEW r \in Requests,
         \/ RefuseCredential(r) \/ RefuseSession(r) \/ LookupSession(r)
         \/ RefuseCapacity(r) \/ ForwardStateless(r) \/ RejectForeignReply(r)
         \/ FinishStateless(r) \/ Leave(r) \/ BeginClose(r)
  PROVE  AccountInv'
<1>1. IsFiniteSet(Bound') /\ PermitsConserved'
  BY SameAccounts DEF Forget, RefuseCredential, RefuseSession, LookupSession, RefuseCapacity,
     ForwardStateless, RejectForeignReply, FinishStateless, Leave, BeginClose, tableVars,
     rmcpVars
<1>2. CASE RefuseCredential(r)
  BY <1>1, <1>2 DEF Forget, AccountInv, TypeOK, HoldersCreate, CallersKnown, Running, Final,
     RefuseCredential, tableVars, rmcpVars
<1>3. CASE RefuseSession(r)
  BY <1>1, <1>3 DEF Forget, AccountInv, TypeOK, HoldersCreate, CallersKnown, Running, Final,
     RefuseSession, tableVars, rmcpVars
<1>4. CASE LookupSession(r)
  BY <1>1, <1>4, BoundsOK DEF AccountInv, TypeOK, HoldersCreate, CallersKnown, Running,
     Final, LookupSession, tableVars, rmcpVars
<1>5. CASE RefuseCapacity(r)
  BY <1>1, <1>5, BoundsOK DEF Forget, AccountInv, TypeOK, HoldersCreate, CallersKnown, Running,
     Final, RefuseCapacity, tableVars, rmcpVars
<1>6. CASE ForwardStateless(r)
  BY <1>1, <1>6 DEF AccountInv, TypeOK, HoldersCreate, CallersKnown, Running, Final,
     ForwardStateless, tableVars, rmcpVars
<1>7. CASE RejectForeignReply(r)
  <2>1. r \notin holding
    BY <1>7, SentinelsDistinct DEF Forget, AccountInv, HoldersCreate, RejectForeignReply
  <2>2. QED
    BY <1>1, <1>7, <2>1 DEF Forget, AccountInv, TypeOK, HoldersCreate, CallersKnown, Running, Final,
       RejectForeignReply, tableVars, rmcpVars
<1>8. CASE FinishStateless(r)
  BY <1>1, <1>8, BoundsOK DEF AccountInv, TypeOK, HoldersCreate, Stateful, CallersKnown, Running, Final,
     FinishStateless, tableVars, rmcpVars
<1>9. CASE Leave(r)
  BY <1>1, <1>9 DEF Forget, AccountInv, TypeOK, HoldersCreate, CallersKnown, Running, Final,
     Leave, tableVars, rmcpVars
<1>10. CASE BeginClose(r)
  BY <1>1, <1>10 DEF AccountInv, TypeOK, HoldersCreate, CallersKnown, Running, BeginClose,
     tableVars, rmcpVars
<1> QED
  BY <1>2, <1>3, <1>4, <1>5, <1>6, <1>7, <1>8, <1>9, <1>10


(* A request arrives without a permit. *)
LEMMA ArriveAccounts ==
  ASSUME AccountInv, NEW r \in Requests, NEW p \in Principals,
         NEW s \in Sessions \cup {NoSession, BadSession},
         NEW m \in {"POST", "DELETE"}, Arrive(r, p, s, m)
  PROVE  AccountInv'
<1>1. IsFiniteSet(Bound') /\ PermitsConserved'
  BY SameAccounts DEF Arrive, tableVars, rmcpVars
<1>2. r \notin holding
  BY DEF AccountInv, HoldersCreate, Arrive
<1>3. QED
  BY <1>1, <1>2 DEF AccountInv, TypeOK, HoldersCreate, CallersKnown, Running, Arrive,
     tableVars, rmcpVars

(* A creation makes sessions that nobody owned before, one or none. *)
LEMMA CreationMakes ==
  ASSUME NEW r \in Requests, (\E s \in Sessions : CreateSession(r, s)) \/ CreateFaulty(r)
  PROVE  \E made \in SUBSET Sessions :
           AnswerCreation(r, made) /\ \A s \in made : owner[s] = Nobody
<1>1. ASSUME NEW s \in Sessions, CreateSession(r, s)
      PROVE  \E made \in SUBSET Sessions :
               AnswerCreation(r, made) /\ \A t \in made : owner[t] = Nobody
  <2>1. {s} \in SUBSET Sessions /\ AnswerCreation(r, {s}) /\ \A t \in {s} : owner[t] = Nobody
    BY <1>1 DEF CreateSession
  <2> QED
    BY <2>1
<1>2. CASE CreateFaulty(r)
  <2>1. {} \in SUBSET Sessions /\ AnswerCreation(r, {}) /\ \A t \in {} : owner[t] = Nobody
    BY <1>2 DEF CreateFaulty
  <2> QED
    BY <2>1
<1> QED
  BY <1>1, <1>2

(* What the answer to a creation says, and which sessions rmcp has then.   *)
LEMMA AnswerTypes ==
  ASSUME AccountInv, NEW r \in Requests, NEW made \in SUBSET Sessions, AnswerCreation(r, made)
  PROVE  /\ \E st \in {"success", "not_found", "failure"},
                n \in Sessions \cup {NoSession, BadSession} : Respond(r, st, n)
         /\ pc[r] = "forward" /\ header[r] = NoSession /\ mode = "stateful"
         /\ live' \in SUBSET Sessions
         /\ owner' \in [Sessions -> Principals \cup {Nobody}]
         /\ mistaken' \in SUBSET Sessions /\ unnamed' \in SUBSET Sessions
<1>1. PICK st \in {"success", "failure"}, n \in made \cup Bound \cup {NoSession, BadSession} :
        /\ Respond(r, st, n)
        /\ mistaken' = mistaken \cup ({n} \cap Bound)
        /\ unnamed' = unnamed \cup (made \ {n})
  BY DEF AnswerCreation
<1>2. n \in Sessions \cup {NoSession, BadSession} /\ Bound \subseteq Sessions
  BY DEF Bound
<1>3. owner' = [s \in Sessions |-> IF s \in made THEN caller[r] ELSE owner[s]]
  BY DEF AnswerCreation
<1>4. owner' \in [Sessions -> Principals \cup {Nobody}]
  BY <1>3 DEF AccountInv, TypeOK
<1>5. live' \in SUBSET Sessions
  BY DEF AnswerCreation, AccountInv, TypeOK
<1>6. mistaken' \in SUBSET Sessions /\ unnamed' \in SUBSET Sessions
  BY <1>1, <1>2 DEF AccountInv, TypeOK
<1> QED
  BY <1>1, <1>2, <1>4, <1>5, <1>6 DEF AnswerCreation, Stateful

(* The rmcp service writes a response and its own sessions only. *)
LEMMA RmcpAccounts ==
  ASSUME AccountInv, NEW r \in Requests, Rmcp(r)
  PROVE  AccountInv'
<1>1. /\ \E st \in {"success", "not_found", "failure"},
            s \in Sessions \cup {NoSession, BadSession} : Respond(r, st, s)
      /\ pc[r] = "forward"
      /\ live' \in SUBSET Sessions
      /\ owner' \in [Sessions -> Principals \cup {Nobody}]
      /\ mistaken' \in SUBSET Sessions /\ unnamed' \in SUBSET Sessions
  <2>1. CASE ServeWithoutSession(r)
    BY <2>1 DEF ServeWithoutSession, AccountInv, TypeOK, rmcpVars
  <2>2. CASE (\E s \in Sessions : CreateSession(r, s)) \/ CreateFaulty(r)
    <3>1. PICK made \in SUBSET Sessions : AnswerCreation(r, made)
      BY <2>2, CreationMakes
    <3> QED
      BY <3>1, AnswerTypes
  <2>3. CASE ServeInSession(r)
    <3>1. pc[r] = "forward" /\ UNCHANGED <<owner, mistaken, unnamed>>
      BY <2>3 DEF ServeInSession
    <3>2. live' \subseteq live
      BY <2>3 DEF ServeInSession
    <3>3. \E st \in {"success", "not_found", "failure"},
             s \in Sessions \cup {NoSession, BadSession} : Respond(r, st, s)
      BY <2>3 DEF ServeInSession
    <3> QED
      BY <3>1, <3>2, <3>3 DEF AccountInv, TypeOK
  <2>4. QED
    BY <2>1, <2>2, <2>3 DEF Rmcp
<1>2. PICK st \in {"success", "not_found", "failure"},
           s \in Sessions \cup {NoSession, BadSession} : Respond(r, st, s)
  BY <1>1
<1>3. IsFiniteSet(Bound') /\ PermitsConserved'
  BY <1>2, SameAccounts DEF Respond, tableVars
<1>4. TypeOK'
  BY <1>1, <1>2 DEF AccountInv, TypeOK, Running, Respond, tableVars
<1>5. HoldersCreate' /\ CallersKnown'
  BY <1>1, <1>2 DEF AccountInv, TypeOK, HoldersCreate, CallersKnown, Running, Respond
<1> QED
  BY <1>3, <1>4, <1>5 DEF AccountInv

(* A reservation moves one permit from the semaphore to its request. *)
LEMMA ReserveAccounts ==
  ASSUME AccountInv, NEW r \in Requests, ReservePermit(r)
  PROVE  AccountInv'
<1>1. r \notin holding /\ header[r] \in Sessions \cup {NoSession, BadSession}
  BY DEF AccountInv, TypeOK, HoldersCreate, ReservePermit
<1>2. Bound' = Bound
  BY DEF ReservePermit, Bound
<1>3. IsFiniteSet(holding) /\ Cardinality(holding) \in Nat
  BY RequestsFinite, FS_Subset, FS_CardinalityType DEF AccountInv, TypeOK
<1>4. Cardinality(holding') = Cardinality(holding) + 1
  BY <1>1, <1>3, FS_AddElement DEF ReservePermit
<1>5. Cardinality(Bound) \in Nat
  BY FS_CardinalityType DEF AccountInv
<1>6. PermitsConserved' /\ permits' \in 0..MaxSessions
  BY <1>2, <1>3, <1>4, <1>5, BoundsOK
     DEF AccountInv, TypeOK, PermitsConserved, ReservePermit, CanReserve
<1>7. QED
  BY <1>1, <1>2, <1>6, BoundsOK
     DEF AccountInv, TypeOK, HoldersCreate, CallersKnown, Running, ReservePermit, rmcpVars


(* A sweep returns to the semaphore one permit for each binding it drops. *)
LEMMA SweepAccounts ==
  ASSUME AccountInv, NEW r \in Requests, SweepExpired(r)
  PROVE  AccountInv'
<1> DEFINE swept == {s \in Sessions : Expired(s)}
<1>1. /\ binding' = [s \in Sessions |-> IF s \in swept THEN Nobody ELSE binding[s]]
      /\ permits' = permits + Cardinality(swept)
      /\ holding' = holding
  BY DEF SweepExpired
<1>2. swept \subseteq Bound /\ Bound' = Bound \ swept
  BY <1>1 DEF Bound, Expired
<1>3. /\ IsFiniteSet(swept) /\ IsFiniteSet(Bound')
      /\ Cardinality(Bound') = Cardinality(Bound) - Cardinality(Bound \cap swept)
  BY <1>2, FS_Subset, FS_Difference DEF AccountInv
<1>4. Bound \cap swept = swept
  BY <1>2
<1>5. /\ Cardinality(Bound) \in Nat /\ Cardinality(Bound') \in Nat
      /\ Cardinality(swept) \in Nat
  BY <1>3, FS_CardinalityType DEF AccountInv
<1>6. IsFiniteSet(holding) /\ Cardinality(holding) \in Nat
  BY RequestsFinite, FS_Subset, FS_CardinalityType DEF AccountInv, TypeOK
<1>7. Cardinality(Bound') = Cardinality(Bound) - Cardinality(swept)
  BY <1>3, <1>4
<1>8. PermitsConserved' /\ permits' \in 0..MaxSessions
  BY <1>1, <1>5, <1>6, <1>7, BoundsOK DEF AccountInv, TypeOK, PermitsConserved
<1>9. orphans' \in SUBSET Sessions
  BY DEF SweepExpired, AccountInv, TypeOK
<1>10. /\ binding' \in [Sessions -> Principals \cup {Nobody}]
       /\ age' \in [Sessions -> 0..MaxAge]
       /\ waited' \in [Requests -> 0..MaxAge]
  BY <1>1, BoundsOK DEF SweepExpired, AccountInv, TypeOK
<1>11. TypeOK'
  BY <1>8, <1>9, <1>10 DEF AccountInv, TypeOK, Running, SweepExpired, rmcpVars
<1>12. r \notin holding
  BY DEF AccountInv, HoldersCreate, SweepExpired
<1>13. HoldersCreate' /\ CallersKnown'
  BY <1>12 DEF AccountInv, TypeOK, HoldersCreate, Stateful, CallersKnown, Running, SweepExpired
<1>14. QED
  BY <1>3, <1>8, <1>11, <1>13 DEF AccountInv

(* An insertion moves the permit from the request into the binding. *)
LEMMA BindAccounts ==
  ASSUME AccountInv, NEW r \in Requests, BindSession(r)
  PROVE  AccountInv'
<1>1. caller[r] \in Principals /\ caller[r] # Nobody
  BY SentinelsDistinct DEF AccountInv, CallersKnown, Running, BindSession
<1>2. reply[r] \notin Bound /\ Bound' = Bound \cup {reply[r]}
  BY <1>1 DEF BindSession, Insertable, Bound, AccountInv, TypeOK
<1>3. IsFiniteSet(Bound') /\ Cardinality(Bound') = Cardinality(Bound) + 1
  BY <1>2, FS_AddElement DEF AccountInv
<1>4. /\ IsFiniteSet(holding) /\ Cardinality(holding) \in Nat
      /\ Cardinality(Bound) \in Nat
  BY RequestsFinite, FS_Subset, FS_CardinalityType DEF AccountInv, TypeOK
<1>5. Cardinality(holding') = Cardinality(holding) - 1
  BY <1>4, FS_RemoveElement DEF BindSession
<1>6. permits' = permits
  BY DEF BindSession
<1>7. PermitsConserved'
  BY <1>3, <1>4, <1>5, <1>6, BoundsOK DEF AccountInv, TypeOK, PermitsConserved
<1>8. TypeOK' /\ HoldersCreate' /\ CallersKnown'
  BY <1>1, BoundsOK DEF AccountInv, TypeOK, HoldersCreate, CallersKnown, Running, Final,
     BindSession, rmcpVars
<1>9. QED
  BY <1>3, <1>7, <1>8 DEF AccountInv

(* A deletion or a 404 returns the permit of the binding it removes. *)
LEMMA FinishAccounts ==
  ASSUME AccountInv, NEW r \in Requests, FinishInSession(r)
  PROVE  AccountInv'
<1>1. r \notin holding
  BY SentinelsDistinct DEF AccountInv, HoldersCreate, FinishInSession
<1>2. HoldersCreate' /\ CallersKnown'
  BY <1>1 DEF AccountInv, TypeOK, HoldersCreate, CallersKnown, Running, Final, FinishInSession
<1>3. CASE EndsBinding(r) /\ binding[header[r]] # Nobody
  <2>1. /\ header[r] \in Bound /\ Bound' = Bound \ {header[r]}
        /\ permits' = permits + 1 /\ holding' = holding
    BY <1>3 DEF FinishInSession, Bound, AccountInv, TypeOK
  <2>2. IsFiniteSet(Bound') /\ Cardinality(Bound') = Cardinality(Bound) - 1
    BY <2>1, FS_RemoveElement DEF AccountInv
  <2>3. /\ IsFiniteSet(holding) /\ Cardinality(holding) \in Nat
        /\ Cardinality(Bound) \in Nat /\ Cardinality(Bound') \in Nat
    BY <2>2, RequestsFinite, FS_Subset, FS_CardinalityType DEF AccountInv, TypeOK
  <2>4. PermitsConserved' /\ permits' \in 0..MaxSessions
    BY <2>1, <2>2, <2>3, BoundsOK DEF AccountInv, TypeOK, PermitsConserved
  <2>5. TypeOK'
    BY <1>3, <2>4, BoundsOK DEF AccountInv, TypeOK, Final, FinishInSession, rmcpVars
  <2>6. QED
    BY <1>2, <2>2, <2>4, <2>5 DEF AccountInv
<1>4. CASE ~(EndsBinding(r) /\ binding[header[r]] # Nobody)
  <2>1. UNCHANGED <<binding, age, permits, holding>>
    BY <1>4 DEF FinishInSession, tableVars
  <2>2. TypeOK'
    BY <2>1 DEF AccountInv, TypeOK, Final, FinishInSession, rmcpVars
  <2>3. QED
    BY <1>2, <2>1, <2>2, SameAccounts DEF AccountInv
<1>5. QED
  BY <1>3, <1>4

(* Refusal, failure and cancellation return the permit of the request. *)
LEMMA EndAccounts ==
  ASSUME AccountInv, NEW r \in Requests,
         RejectCreation(r) \/ PassFailure(r) \/ CloseFailedCreation(r) \/ Cancel(r)
  PROVE  AccountInv'
<1>1. PICK how \in Final \cup {"idle"} : End(r, how)
  BY DEF RejectCreation, PassFailure, CloseFailedCreation, Cancel, Final
<1>2. /\ UNCHANGED <<binding, age, owner, mistaken, unnamed, mode>>
      /\ live' \in SUBSET Sessions /\ orphans' \in SUBSET Sessions
      /\ waited' \in [Requests -> 0..MaxAge]
  BY BoundsOK DEF RejectCreation, PassFailure, CloseFailedCreation, Cancel, rmcpVars, AccountInv,
     TypeOK
<1>3. \/ UNCHANGED <<caller, header, method, status, reply>>
      \/ Forget(r) /\ how # "answered"
  BY <1>1 DEF RejectCreation, PassFailure, CloseFailedCreation, Cancel, End, AccountInv, TypeOK
<1>4. /\ holding' \in SUBSET Requests /\ permits' \in 0..MaxSessions
      /\ IsFiniteSet(Bound') /\ PermitsConserved'
  BY <1>1, <1>2, EndKeepsAccounts
<1>5. pc' = [pc EXCEPT ![r] = how] /\ holding' = holding \ {r}
  BY <1>1 DEF End
<1>6. pc[r] \in Running
  BY DEF RejectCreation, PassFailure, CloseFailedCreation, Cancel, Running
<1>7. TypeOK'
  BY <1>2, <1>3, <1>4, <1>5 DEF AccountInv, TypeOK, Forget
<1>8. HoldersCreate'
  BY <1>2, <1>3, <1>5 DEF AccountInv, TypeOK, HoldersCreate, Forget, Final
<1>9. CallersKnown'
  BY <1>3, <1>5, <1>6 DEF AccountInv, TypeOK, CallersKnown, Forget, Final, Running
<1> QED
  BY <1>4, <1>7, <1>8, <1>9 DEF AccountInv

(* Time and the end of an rmcp worker leave every permit where it is. *)
LEMMA ClockAccounts ==
  ASSUME AccountInv, Tick \/ \E s \in Sessions : SessionWorkerEnds(s)
  PROVE  AccountInv'
<1>1. CASE Tick
  <2>1. age' \in [Sessions -> 0..MaxAge] /\ waited' \in [Requests -> 0..MaxAge]
    BY <1>1, BoundsOK DEF Tick, Older, AccountInv, TypeOK
  <2>2. IsFiniteSet(Bound') /\ PermitsConserved'
    BY <1>1, SameAccounts DEF Tick
  <2>3. QED
    BY <1>1, <2>1, <2>2 DEF AccountInv, TypeOK, HoldersCreate, CallersKnown, Running, Tick, rmcpVars
<1>2. CASE \E s \in Sessions : SessionWorkerEnds(s)
  <2>1. IsFiniteSet(Bound') /\ PermitsConserved'
    BY <1>2, SameAccounts DEF SessionWorkerEnds, requestVars, tableVars
  <2>2. QED
    BY <1>2, <2>1 DEF AccountInv, TypeOK, HoldersCreate, CallersKnown, Running, SessionWorkerEnds,
       requestVars, tableVars
<1>3. QED
  BY <1>1, <1>2

(* Every step keeps the accounts in order. *)
LEMMA NextAccounts == AccountInv /\ [Next]_vars => AccountInv'
<1> SUFFICES ASSUME AccountInv, [Next]_vars PROVE AccountInv'
  OBVIOUS
<1>1. ASSUME NEW r \in Requests, Handle(r) PROVE AccountInv'
  BY <1>1, QuietAccounts, SweepAccounts, ReserveAccounts, BindAccounts, FinishAccounts,
     EndAccounts DEF Handle
<1>2. ASSUME NEW r \in Requests, Cancel(r) \/ Leave(r) PROVE AccountInv'
  BY <1>2, EndAccounts, QuietAccounts
<1>3. CASE UNCHANGED vars
  BY <1>3, SameAccounts DEF vars, AccountInv, TypeOK, HoldersCreate, CallersKnown, Running
<1>4. QED
  BY <1>1, <1>2, <1>3, ArriveAccounts, RmcpAccounts, ClockAccounts DEF Next

(* The accounts are in order in every reachable state, whatever rmcp       *)
(* answers and whenever clients disconnect.                                *)
THEOREM AccountsHold == Spec => []AccountInv
BY InitAccounts, NextAccounts, PTL DEF Spec

(* Type correctness of the middleware (router.rs 340-446). *)
THEOREM TypeCorrect == Spec => []TypeOK
<1>1. AccountInv => TypeOK
  BY DEF AccountInv
<1>2. QED
  BY <1>1, AccountsHold, PTL

(* No permit of the session semaphore is ever lost or freed twice, so the  *)
(* table holds at most max_sessions bindings.                              *)
THEOREM PermitsAreConserved == Spec => []PermitsConserved
<1>1. AccountInv => PermitsConserved
  BY DEF AccountInv
<1>2. QED
  BY <1>1, AccountsHold, PTL

-----------------------------------------------------------------------------
(* Steps that change neither bindings nor owners nor replies keep the      *)
(* identity invariant if they start no service and end no creation.        *)
LEMMA SameIdentity ==
  ASSUME AccountInv, IdentityInv, NEW r \in Requests,
         UNCHANGED <<binding, owner, mistaken>>,
         \A q \in Requests \ {r} :
           /\ pc'[q] = pc[q] /\ header'[q] = header[q] /\ caller'[q] = caller[q]
           /\ reply'[q] = reply[q],
         pc'[r] \notin {"forward", "respond"} \/ header'[r] \notin Sessions,
         r \in holding' => pc'[r] # "respond",
         holding' \subseteq holding \cup {r}
  PROVE  IdentityInv'
<1> USE DEF IdentityInv
<1>1. \A s \in Sessions \ mistaken' : binding'[s] # Nobody => binding'[s] = owner'[s]
  OBVIOUS
<1>2. \A q \in holding' :
        pc'[q] = "respond" /\ reply'[q] \in Sessions \ mistaken'
               => owner'[reply'[q]] = caller'[q]
  BY DEF AccountInv, TypeOK
<1>3. ServedAsOwner'
  BY DEF ServedAsOwner
<1>4. QED
  BY <1>1, <1>2, <1>3

(* No step of the handler changes who a session belongs to. *)
LEMMA HandleIdentity ==
  ASSUME AccountInv, IdentityInv, NEW r \in Requests, Handle(r)
  PROVE  IdentityInv'
<1> USE DEF tableVars, rmcpVars
<1>1. CASE LookupSession(r)
  <2>1. header[r] \in Sessions \ mistaken => owner[header[r]] = caller[r]
    BY <1>1, SentinelsDistinct DEF LookupSession, Admits, IdentityInv, AccountInv,
       CallersKnown, Running
  <2>2. r \notin holding
    BY <1>1 DEF AccountInv, HoldersCreate, LookupSession
  <2>3. /\ \A s \in Sessions \ mistaken' : binding'[s] # Nobody => binding'[s] = owner'[s]
        /\ \A q \in holding' :
             pc'[q] = "respond" /\ reply'[q] \in Sessions \ mistaken'
               => owner'[reply'[q]] = caller'[q]
    BY <1>1, <2>2 DEF LookupSession, IdentityInv, AccountInv, TypeOK
  <2>4. ServedAsOwner'
    BY <1>1, <2>1 DEF LookupSession, IdentityInv, ServedAsOwner, AccountInv, TypeOK
  <2>5. QED
    BY <2>3, <2>4 DEF IdentityInv
<1>2. CASE BindSession(r)
  <2>1. reply[r] \in Sessions \ mistaken => owner[reply[r]] = caller[r]
    BY <1>2 DEF BindSession, IdentityInv
  <2>2. \A s \in Sessions \ mistaken' : binding'[s] # Nobody => binding'[s] = owner'[s]
    BY <1>2, <2>1 DEF BindSession, IdentityInv, AccountInv, TypeOK
  <2>3. \A q \in holding' :
          pc'[q] = "respond" /\ reply'[q] \in Sessions \ mistaken'
               => owner'[reply'[q]] = caller'[q]
    BY <1>2 DEF BindSession, IdentityInv, AccountInv, TypeOK
  <2>4. ServedAsOwner'
    BY <1>2 DEF BindSession, IdentityInv, ServedAsOwner, AccountInv, TypeOK
  <2>5. QED
    BY <2>2, <2>3, <2>4 DEF IdentityInv
<1>3. CASE SweepExpired(r)
  <2>1. \A s \in Sessions \ mistaken' : binding'[s] # Nobody => binding'[s] = owner'[s]
    BY <1>3 DEF SweepExpired, IdentityInv
  <2>2. \A q \in holding' :
          pc'[q] = "respond" /\ reply'[q] \in Sessions \ mistaken'
               => owner'[reply'[q]] = caller'[q]
    BY <1>3 DEF SweepExpired, IdentityInv, AccountInv, TypeOK
  <2>3. ServedAsOwner'
    BY <1>3 DEF SweepExpired, IdentityInv, ServedAsOwner, AccountInv, TypeOK
  <2>4. QED
    BY <2>1, <2>2, <2>3 DEF IdentityInv
<1>4. CASE FinishInSession(r)
  <2>1. /\ \A s \in Sessions \ mistaken' : binding'[s] # Nobody => binding'[s] = owner'[s]
        /\ \A q \in Requests : pc'[q] \in {"forward", "respond"} => pc'[q] = pc[q]
        /\ UNCHANGED <<holding, header, caller, reply, owner, mistaken>>
    BY <1>4 DEF FinishInSession, IdentityInv, AccountInv, TypeOK
  <2>2. QED
    BY <2>1 DEF IdentityInv, ServedAsOwner, AccountInv, TypeOK
<1>5. CASE ReservePermit(r)
  <2>1. header[r] \notin Sessions
    BY <1>5, SentinelsDistinct DEF ReservePermit, AccountInv, HoldersCreate
  <2>2. QED
    BY <1>5, <2>1, SameIdentity DEF ReservePermit, AccountInv, TypeOK
<1>6. CASE ForwardStateless(r)
  <2>1. header[r] \notin Sessions /\ r \notin holding
    BY <1>6, SentinelsDistinct DEF ForwardStateless, AccountInv,
       HoldersCreate
  <2>2. QED
    BY <1>6, <2>1, SameIdentity DEF ForwardStateless, AccountInv, TypeOK
<1>7. CASE RefuseCredential(r) \/ RefuseSession(r) \/ RefuseCapacity(r)
  BY <1>7, SameIdentity DEF Forget, RefuseCredential, RefuseSession, RefuseCapacity,
     AccountInv, TypeOK
<1>8. CASE RejectCreation(r) \/ PassFailure(r) \/ BeginClose(r) \/ CloseFailedCreation(r)
  BY <1>8, SameIdentity DEF Forget, RejectCreation, PassFailure, BeginClose, CloseFailedCreation,
     End, AccountInv, TypeOK
<1>9. CASE RejectForeignReply(r) \/ FinishStateless(r)
  BY <1>9, SameIdentity DEF Forget, RejectForeignReply, FinishStateless, AccountInv, TypeOK
<1>10. QED
  BY <1>1, <1>2, <1>3, <1>4, <1>5, <1>6, <1>7, <1>8, <1>9 DEF Handle

(* What an answered creation is: the sessions rmcp made belong to the      *)
(* caller, and the response names one of them or a mistaken one, or none.  *)
LEMMA CreationAnswered ==
  ASSUME AccountInv, NEW r \in Requests, NEW made \in SUBSET Sessions, AnswerCreation(r, made)
  PROVE  \E n \in Sessions \cup {NoSession, BadSession} :
           /\ UNCHANGED <<binding, age, permits, caller, header, method, holding, orphans, waited,
                          mode>>
           /\ pc[r] = "forward" /\ pc' = [pc EXCEPT ![r] = "respond"]
           /\ header[r] = NoSession /\ mode = "stateful"
           /\ \A q \in Requests \ {r} : status'[q] = status[q] /\ reply'[q] = reply[q]
           /\ reply'[r] = n /\ live' = live \cup made
           /\ \A s \in Sessions : owner'[s] = IF s \in made THEN caller[r] ELSE owner[s]
           /\ n \in Sessions => n \in made \/ n \in Bound
           /\ mistaken' = mistaken \cup ({n} \cap Bound)
           /\ unnamed' = unnamed \cup (made \ {n})
<1>1. PICK st \in {"success", "failure"}, n \in made \cup Bound \cup {NoSession, BadSession} :
        /\ Respond(r, st, n)
        /\ mistaken' = mistaken \cup ({n} \cap Bound)
        /\ unnamed' = unnamed \cup (made \ {n})
  BY DEF AnswerCreation
<1>2. n \in Sessions \cup {NoSession, BadSession} /\ (n \in Sessions => n \in made \/ n \in Bound)
  BY SentinelsDistinct DEF Bound
<1>3. \A s \in Sessions : owner'[s] = IF s \in made THEN caller[r] ELSE owner[s]
  BY DEF AnswerCreation
<1>4. /\ UNCHANGED <<binding, age, permits, caller, header, method, holding, orphans, waited, mode>>
      /\ pc' = [pc EXCEPT ![r] = "respond"]
      /\ \A q \in Requests \ {r} : status'[q] = status[q] /\ reply'[q] = reply[q]
      /\ reply'[r] = n
  BY <1>1 DEF Respond, tableVars, AccountInv, TypeOK
<1> QED
  BY <1>1, <1>2, <1>3, <1>4 DEF AnswerCreation, Stateful

(* Sessions are made under ids that nobody owned before. *)
LEMMA AnswerIdentity ==
  ASSUME AccountInv, IdentityInv, NEW r \in Requests, NEW made \in SUBSET Sessions,
         \A s \in made : owner[s] = Nobody, AnswerCreation(r, made)
  PROVE  IdentityInv'
<1>1. PICK n \in Sessions \cup {NoSession, BadSession} :
        /\ UNCHANGED <<binding, caller, header, holding>>
        /\ pc[r] = "forward" /\ pc' = [pc EXCEPT ![r] = "respond"] /\ header[r] = NoSession
        /\ \A q \in Requests \ {r} : reply'[q] = reply[q]
        /\ reply'[r] = n
        /\ \A s \in Sessions : owner'[s] = IF s \in made THEN caller[r] ELSE owner[s]
        /\ n \in Sessions => n \in made \/ n \in Bound
        /\ mistaken' = mistaken \cup ({n} \cap Bound)
  BY CreationAnswered
<1>2. \A t \in Sessions \ mistaken' : binding'[t] # Nobody => binding'[t] = owner'[t]
  BY <1>1 DEF IdentityInv
<1>3. \A q \in holding' :
        pc'[q] = "respond" /\ reply'[q] \in Sessions \ mistaken'
               => owner'[reply'[q]] = caller'[q]
  <2> SUFFICES ASSUME NEW q \in holding, pc'[q] = "respond",
                      reply'[q] \in Sessions \ mistaken'
               PROVE  owner'[reply'[q]] = caller[q]
    BY <1>1
  <2>1. CASE q = r
    BY <1>1, <2>1
  <2>2. CASE q # r
    <3>1. q \in Requests /\ pc[q] = "respond" /\ reply'[q] = reply[q]
      BY <1>1, <2>2 DEF AccountInv, TypeOK
    <3>2. owner[reply[q]] = caller[q] /\ caller[q] # Nobody
      BY <1>1, <3>1, SentinelsDistinct DEF IdentityInv, AccountInv, CallersKnown, Running
    <3>3. QED
      BY <1>1, <3>1, <3>2
  <2>3. QED
    BY <2>1, <2>2
<1>4. ServedAsOwner'
  <2> SUFFICES ASSUME NEW q \in Requests, pc'[q] \in {"forward", "respond"},
                      header[q] \in Sessions \ mistaken'
               PROVE  owner'[header[q]] = caller[q]
    BY <1>1 DEF ServedAsOwner
  <2>1. q # r /\ pc[q] \in {"forward", "respond"}
    BY <1>1, SentinelsDistinct DEF AccountInv, TypeOK
  <2>2. owner[header[q]] = caller[q] /\ caller[q] # Nobody
    BY <1>1, <2>1, SentinelsDistinct
       DEF IdentityInv, ServedAsOwner, AccountInv, CallersKnown, Running
  <2>3. QED
    BY <1>1, <2>2
<1>5. QED
  BY <1>2, <1>3, <1>4 DEF IdentityInv

(* rmcp answers within the session of the request, unless it is mistaken.  *)
LEMMA RmcpIdentity ==
  ASSUME AccountInv, IdentityInv, NEW r \in Requests, Rmcp(r)
  PROVE  IdentityInv'
<1>1. CASE ServeWithoutSession(r) \/ ServeInSession(r)
  <2>1. UNCHANGED <<owner, mistaken>> /\ pc[r] = "forward"
    BY <1>1 DEF ServeWithoutSession, ServeInSession, rmcpVars
  <2>2. PICK st, n : Respond(r, st, n) /\ (header[r] = NoSession => n = NoSession)
    BY <1>1, SentinelsDistinct DEF ServeWithoutSession, ServeInSession
  <2>3. /\ UNCHANGED <<binding, caller, header, holding>>
        /\ pc' = [pc EXCEPT ![r] = "respond"]
        /\ \A q \in Requests \ {r} : reply'[q] = reply[q]
        /\ header[r] = NoSession => reply'[r] = NoSession
    BY <2>2 DEF Respond, tableVars, AccountInv, TypeOK
  <2>4. \A q \in holding' :
          pc'[q] = "respond" /\ reply'[q] \in Sessions \ mistaken'
               => owner'[reply'[q]] = caller'[q]
    BY <2>1, <2>3, SentinelsDistinct DEF IdentityInv, AccountInv, TypeOK, HoldersCreate
  <2>5. ServedAsOwner'
    BY <2>1, <2>3 DEF IdentityInv, ServedAsOwner, AccountInv, TypeOK
  <2>6. QED
    BY <2>1, <2>3, <2>4, <2>5 DEF IdentityInv
<1>2. CASE (\E s \in Sessions : CreateSession(r, s)) \/ CreateFaulty(r)
  <2>1. PICK made \in SUBSET Sessions :
          AnswerCreation(r, made) /\ \A s \in made : owner[s] = Nobody
    BY <1>2, CreationMakes
  <2>2. QED
    BY <2>1, AnswerIdentity
<1>3. QED
  BY <1>1, <1>2 DEF Rmcp

(* Every step keeps the identity invariant. *)
LEMMA NextIdentity ==
  AccountInv /\ IdentityInv /\ [Next]_vars => IdentityInv'
<1> SUFFICES ASSUME AccountInv, IdentityInv, [Next]_vars PROVE IdentityInv'
  OBVIOUS
<1>1. ASSUME NEW r \in Requests, NEW p \in Principals,
             NEW s \in Sessions \cup {NoSession, BadSession},
             NEW m \in {"POST", "DELETE"}, Arrive(r, p, s, m)
      PROVE  IdentityInv'
  BY <1>1, SameIdentity DEF Arrive, tableVars, rmcpVars, AccountInv, TypeOK
<1>2. ASSUME NEW r \in Requests, Cancel(r) \/ Leave(r) PROVE IdentityInv'
  <2>1. /\ UNCHANGED <<binding, owner, mistaken>>
        /\ holding' \subseteq holding /\ pc' = [pc EXCEPT ![r] = "idle"]
        /\ \A q \in Requests \ {r} : /\ reply'[q] = reply[q]
                                     /\ caller'[q] = caller[q]
                                     /\ header'[q] = header[q]
    BY <1>2 DEF Forget, Cancel, Leave, End, tableVars, rmcpVars, AccountInv, TypeOK
  <2>2. QED
    BY <2>1 DEF IdentityInv, ServedAsOwner, AccountInv, TypeOK
<1>3. CASE Tick \/ \E s \in Sessions : SessionWorkerEnds(s)
  BY <1>3 DEF Tick, SessionWorkerEnds, rmcpVars, requestVars, tableVars, IdentityInv,
     ServedAsOwner
<1>4. CASE UNCHANGED vars
  BY <1>4 DEF vars, IdentityInv, ServedAsOwner
<1>5. QED
  BY <1>1, <1>2, <1>3, <1>4, HandleIdentity, RmcpIdentity DEF Next

(* A request past the lookup is served in a session that its own principal *)
(* created, unless rmcp gave the id of that session to two creations.      *)
THEOREM IdentityIsBound == Spec => []ServedAsOwner
<1>1. Init => IdentityInv
  BY SentinelsDistinct DEF Init, IdentityInv, ServedAsOwner
<1>2. IdentityInv => ServedAsOwner
  BY DEF IdentityInv
<1>3. AccountInv /\ IdentityInv /\ [Next]_vars => IdentityInv'
  BY NextIdentity
<1>4. QED
  BY <1>1, <1>2, <1>3, AccountsHold, PTL DEF Spec

-----------------------------------------------------------------------------
(* The mapped value of serving, one request at a time. *)
LEMMA ServingChange ==
  ASSUME AccountInv, NEW r \in Requests,
         \A q \in Requests \ {r} :
           pc'[q] = pc[q] /\ header'[q] = header[q] /\ caller'[q] = caller[q]
  PROVE  Serving' = [Serving EXCEPT ![r] =
                       IF InService(r)' THEN <<header'[r], caller'[r]>> ELSE <<>>]
BY DEF Serving, InService

(* Outside of a lookup a request is served after a step only if it was     *)
(* served before it, and then as before.                                   *)
LEMMA HandleServing ==
  ASSUME AccountInv, NEW r \in Requests, Handle(r), ~LookupSession(r)
  PROVE  \/ Serving' = Serving
         \/ Serving' = [Serving EXCEPT ![r] = <<>>]
<1>1. \A q \in Requests \ {r} :
        pc'[q] = pc[q] /\ header'[q] = header[q] /\ caller'[q] = caller[q]
  BY DEF Forget, Handle, RefuseCredential, RefuseSession, LookupSession, SweepExpired,
     ReservePermit, RefuseCapacity, ForwardStateless, BindSession, RejectCreation, PassFailure,
     BeginClose, CloseFailedCreation, RejectForeignReply, FinishInSession, FinishStateless, End,
     AccountInv, TypeOK
<1>2. ~InService(r)'
  <2>1. CASE ReservePermit(r) \/ ForwardStateless(r)
    BY <2>1, SentinelsDistinct DEF ReservePermit, ForwardStateless,
       InService, AccountInv, TypeOK, HoldersCreate
  <2>2. CASE ~(ReservePermit(r) \/ ForwardStateless(r))
    BY <2>2 DEF Forget, Handle, RefuseCredential, RefuseSession, LookupSession, SweepExpired,
       RefuseCapacity, BindSession, RejectCreation, PassFailure, BeginClose,
       CloseFailedCreation, RejectForeignReply, FinishInSession, FinishStateless, End,
       InService, AccountInv, TypeOK, HoldersCreate
  <2>3. QED
    BY <2>1, <2>2
<1>3. QED
  BY <1>1, <1>2, ServingChange

(* A lookup begins service for the holder of the lease. *)
LEMMA LookupBeginsService ==
  ASSUME AccountInv, NEW r \in Requests, LookupSession(r)
  PROVE  Leases!LeaseNext
<1>1. header[r] \in Sessions /\ caller[r] \in Principals
  BY DEF LookupSession, AccountInv, CallersKnown, Running
<1>2. Serving[r] = <<>>
  BY DEF LookupSession, Serving, InService
<1>3. InService(r)' /\ header'[r] = header[r] /\ caller'[r] = caller[r]
  BY <1>1 DEF LookupSession, InService, AccountInv, TypeOK
<1>4. Serving' = [Serving EXCEPT ![r] = <<header[r], caller[r]>>]
  BY <1>3, ServingChange DEF LookupSession, AccountInv, TypeOK
<1>5. Leases!BeginService(r, header[r], caller[r])
  BY <1>1, <1>2, <1>4 DEF Leases!BeginService, LookupSession, Admits
<1>6. QED
  BY <1>1, <1>5 DEF Leases!LeaseNext

(* An insertion grants a free lease, and the table has room for it. *)
LEMMA BindGrants ==
  ASSUME AccountInv, NEW r \in Requests, BindSession(r)
  PROVE  Leases!LeaseNext
<1>1. /\ reply[r] \in Sessions /\ binding[reply[r]] = Nobody
      /\ caller[r] \in Principals
      /\ binding' = [binding EXCEPT ![reply[r]] = caller[r]]
  BY DEF BindSession, Insertable, AccountInv, CallersKnown, Running
<1>2. Serving' = Serving
  <2>1. ~InService(r) /\ ~InService(r)'
    BY SentinelsDistinct DEF BindSession, InService, AccountInv, TypeOK, HoldersCreate
  <2>2. QED
    BY <2>1 DEF BindSession, Serving, InService, AccountInv, TypeOK
<1>3. Cardinality(Bound) < MaxSessions
  <2>1. IsFiniteSet(holding) /\ r \in holding
    BY RequestsFinite, FS_Subset DEF BindSession, AccountInv, TypeOK
  <2>2. Cardinality(holding) \in Nat /\ Cardinality(holding) # 0
    BY <2>1, FS_CardinalityType, FS_EmptySet
  <2>3. Cardinality(Bound) \in Nat
    BY FS_CardinalityType DEF AccountInv
  <2>4. QED
    BY <2>2, <2>3, BoundsOK DEF AccountInv, TypeOK, PermitsConserved
<1>4. Leases!Leased = Bound
  BY DEF Leases!Leased, Bound
<1>5. Leases!Cardinality(Bound) = Cardinality(Bound)
  BY DEF Leases!Cardinality, Cardinality
<1>6. Leases!Grant(reply[r], caller[r])
  BY <1>1, <1>2, <1>3, <1>4, <1>5 DEF Leases!Grant
<1>7. QED
  BY <1>1, <1>6 DEF Leases!LeaseNext

(* The other steps of the handler end service, release leases or do both.  *)
LEMMA HandleImplements ==
  ASSUME AccountInv, NEW r \in Requests, Handle(r)
  PROVE  [Leases!LeaseNext]_(Leases!leaseVars)
<1>1. CASE LookupSession(r) \/ BindSession(r)
  BY <1>1, LookupBeginsService, BindGrants
<1>2. CASE SweepExpired(r)
  <2> DEFINE swept == {s \in Sessions : Expired(s)}
  <2>1. Serving' = Serving
    BY <1>2 DEF SweepExpired, Serving, InService, AccountInv, TypeOK
  <2>2. binding' = [s \in Sessions |-> IF s \in swept THEN Nobody ELSE binding[s]]
    BY <1>2 DEF SweepExpired
  <2>3. Leases!Release(swept) /\ swept \in SUBSET Sessions
    BY <2>1, <2>2 DEF Leases!Release
  <2>4. QED
    BY <2>3 DEF Leases!LeaseNext
<1>3. CASE FinishInSession(r)
  <2> DEFINE S == IF binding' = binding THEN {} ELSE {header[r]}
  <2>1. binding' = [s \in Sessions |-> IF s \in S THEN Nobody ELSE binding[s]]
    BY <1>3 DEF FinishInSession, tableVars, AccountInv, TypeOK
  <2>2. Serving' = [Serving EXCEPT ![r] = <<>>]
    BY <1>3 DEF FinishInSession, Serving, InService, AccountInv, TypeOK
  <2>3. Leases!EndAndRelease(r, S) /\ S \in SUBSET Sessions
    BY <1>3, <2>1, <2>2 DEF Leases!EndAndRelease, FinishInSession
  <2>4. QED
    BY <2>3 DEF Leases!LeaseNext
<1>4. CASE ~(LookupSession(r) \/ BindSession(r) \/ SweepExpired(r) \/ FinishInSession(r))
  <2>1. binding' = binding
    BY <1>4 DEF Forget, Handle, RefuseCredential, RefuseSession, ReservePermit, RefuseCapacity,
       ForwardStateless, RejectCreation, PassFailure, BeginClose, CloseFailedCreation,
       RejectForeignReply, FinishStateless, tableVars
  <2>2. Serving' = Serving \/ Serving' = [Serving EXCEPT ![r] = <<>>]
    BY <1>4, HandleServing
  <2>3. UNCHANGED Leases!leaseVars \/ Leases!EndService(r)
    BY <2>1, <2>2 DEF Leases!leaseVars, Leases!EndService
  <2>4. QED
    BY <2>3 DEF Leases!LeaseNext
<1>5. QED
  BY <1>1, <1>2, <1>3, <1>4

(* Every step is a lease step or leaves the mapped variables alone. *)
LEMMA NextImplements ==
  AccountInv /\ [Next]_vars => [Leases!LeaseNext]_(Leases!leaseVars)
<1> SUFFICES ASSUME AccountInv, [Next]_vars
             PROVE  [Leases!LeaseNext]_(Leases!leaseVars)
  OBVIOUS
<1>1. ASSUME NEW r \in Requests, NEW p \in Principals,
             NEW s \in Sessions \cup {NoSession, BadSession},
             NEW m \in {"POST", "DELETE"}, Arrive(r, p, s, m)
      PROVE  [Leases!LeaseNext]_(Leases!leaseVars)
  <2>1. Serving' = Serving /\ binding' = binding
    BY <1>1 DEF Arrive, Serving, InService, tableVars, AccountInv, TypeOK
  <2>2. QED
    BY <2>1 DEF Leases!leaseVars
<1>2. ASSUME NEW r \in Requests, Rmcp(r)
      PROVE  [Leases!LeaseNext]_(Leases!leaseVars)
  <2>1. /\ UNCHANGED <<binding, header, caller>>
        /\ pc[r] = "forward" /\ pc' = [pc EXCEPT ![r] = "respond"]
    BY <1>2 DEF Rmcp, ServeWithoutSession, CreateSession, CreateFaulty, AnswerCreation,
       ServeInSession, Respond, tableVars
  <2>2. Serving' = Serving
    BY <2>1 DEF Serving, InService, AccountInv, TypeOK
  <2>3. QED
    BY <2>1, <2>2 DEF Leases!leaseVars
<1>3. ASSUME NEW r \in Requests, Cancel(r) \/ Leave(r)
      PROVE  [Leases!LeaseNext]_(Leases!leaseVars)
  <2>1. /\ binding' = binding /\ pc' = [pc EXCEPT ![r] = "idle"]
        /\ \A q \in Requests \ {r} : caller'[q] = caller[q] /\ header'[q] = header[q]
    BY <1>3 DEF Forget, Cancel, Leave, End, tableVars, AccountInv, TypeOK
  <2>2. ~InService(r)'
    BY <2>1 DEF InService, AccountInv, TypeOK
  <2>3. Serving' = [Serving EXCEPT ![r] = <<>>]
    BY <2>1, <2>2, ServingChange DEF AccountInv, TypeOK
  <2>4. Leases!EndService(r)
    BY <2>1, <2>3 DEF Leases!EndService
  <2>5. QED
    BY <2>4 DEF Leases!LeaseNext
<1>4. CASE Tick \/ (\E s \in Sessions : SessionWorkerEnds(s)) \/ UNCHANGED vars
  <2>1. UNCHANGED <<binding, pc, header, caller>>
    BY <1>4 DEF Tick, SessionWorkerEnds, vars, requestVars, tableVars
  <2>2. QED
    BY <2>1 DEF Leases!leaseVars, Serving, InService
<1>5. QED
  BY <1>1, <1>2, <1>3, <1>4, HandleImplements DEF Next

(* The middleware implements the lease table of SessionLeases, even when   *)
(* rmcp breaks its contract: a lease never changes hands, the table never  *)
(* outgrows max_sessions, and service begins only for the lease holder.    *)
THEOREM ImplementsLeaseTable == Spec => ImplementsLeases
<1>1. Init => Leases!LeaseInit
  BY DEF Init, Leases!LeaseInit, Serving, InService
<1>2. AccountInv /\ [Next]_vars => [Leases!LeaseNext]_(Leases!leaseVars)
  BY NextImplements
<1>3. QED
  BY <1>1, <1>2, AccountsHold, PTL DEF Spec, ImplementsLeases, Leases!LeaseSpec

(* A bound session never passes from one principal to another, even when   *)
(* rmcp answers a creation with the id of a session that is in use: the    *)
(* insertion refuses to overwrite (router.rs 408-422).                     *)
THEOREM BindingsNeverHandedOver ==
  Spec => [][\A s \in Sessions :
               binding[s] # Nobody => binding'[s] \in {binding[s], Nobody}]_vars
<1>1. AccountInv /\ [Next]_vars =>
        [\A s \in Sessions :
           binding[s] # Nobody => binding'[s] \in {binding[s], Nobody}]_vars
  <2> SUFFICES ASSUME AccountInv, [Next]_vars, NEW s \in Sessions,
                      binding[s] # Nobody
               PROVE  binding'[s] \in {binding[s], Nobody}
    OBVIOUS
  <2>1. [Leases!LeaseNext]_(Leases!leaseVars)
    BY NextImplements
  <2>2. CASE Leases!LeaseNext
    BY <2>2 DEF Leases!LeaseNext, Leases!Grant, Leases!Release, Leases!BeginService,
       Leases!EndService, Leases!EndAndRelease, AccountInv, TypeOK
  <2>3. CASE UNCHANGED Leases!leaseVars
    BY <2>3 DEF Leases!leaseVars
  <2>4. QED
    BY <2>1, <2>2, <2>3
<1>2. QED
  BY <1>1, AccountsHold, PTL DEF Spec

-----------------------------------------------------------------------------
(* What is left behind, and what is not. *)

(* Past the lookup a request is served in the session of its header; a     *)
(* creating request waits to bind or to close the session rmcp named.      *)
Served ==
  {r \in Requests : pc[r] \in {"forward", "respond", "answered"} /\ header[r] \in Sessions}
Creating == {r \in holding : pc[r] \in {"respond", "closing"} /\ reply[r] \in Sessions}

(* A request that goes on without a session in stateful mode owns a        *)
(* permit, and only stateful mode serves in sessions.                      *)
CreatorsHold ==
  \A r \in Requests : pc[r] \in {"forward", "respond"} =>
    /\ header[r] \in Sessions => mode = "stateful"
    /\ header[r] = NoSession /\ mode = "stateful" => r \in holding

(* Every session that is known anywhere was created by rmcp once.          *)
OwnersKnown ==
  /\ \A s \in Bound : owner[s] # Nobody
  /\ \A r \in Creating : owner[reply[r]] # Nobody
  /\ \A r \in Served : owner[header[r]] # Nobody

(* A session that waits to be bound or closed is known to nobody but its   *)
(* creator, unless rmcp gave its id to two creations.                             *)
RepliesFresh ==
  \A q \in Creating : reply[q] \notin mistaken =>
    /\ reply[q] \notin Bound
    /\ \A r \in Creating : reply[r] = reply[q] => r = q
    /\ \A r \in Served : header[r] # reply[q]

(* A response that ends a binding finds its session gone from rmcp.        *)
EndedInRmcp ==
  \A r \in Served :
    pc[r] = "respond" /\ reply[r] \in {NoSession, header[r]} /\ EndsBinding(r)
      => header[r] \notin live

(* No session lives in rmcp that nobody answers for.                       *)
Accounted(s) == s \in Bound \cup orphans \cup unnamed \/ \E r \in Creating : reply[r] = s
LiveAccounted == \A s \in live : Accounted(s)

(* What carries EndedIsGone through the reuse of ids: a deleted session    *)
(* can come back neither into the table nor into rmcp.                     *)
RepliesInv == CreatorsHold /\ OwnersKnown /\ RepliesFresh /\ EndedInRmcp /\ EndedIsGone
DisposalInv == RepliesInv /\ LiveAccounted

(* Steps after which their request neither is served nor creates, and that *)
(* bind and create nothing.                                                *)
LEMMA DropKeepsReplies ==
  ASSUME AccountInv, RepliesInv, NEW r \in Requests,
         UNCHANGED <<owner, mistaken, mode>>,
         Bound' \subseteq Bound, live' \subseteq live,
         \A q \in Requests \ {r} :
           /\ pc'[q] = pc[q] /\ header'[q] = header[q] /\ method'[q] = method[q]
           /\ status'[q] = status[q] /\ reply'[q] = reply[q]
           /\ q \in holding' <=> q \in holding,
         holding' \subseteq Requests, r \notin Creating', r \notin Served',
         pc'[r] \in {"forward", "respond"} =>
           header'[r] = NoSession /\ (mode = "stateful" => r \in holding')
  PROVE  RepliesInv'
<1>1. Creating' \subseteq Creating /\ \A q \in Creating' : q # r /\ reply'[q] = reply[q]
  BY DEF Creating, AccountInv, TypeOK
<1>2. Served' \subseteq Served /\ \A q \in Served' : q # r /\ header'[q] = header[q]
  BY DEF Served
<1>3. CreatorsHold'
  BY SentinelsDistinct DEF RepliesInv, CreatorsHold
<1>4. OwnersKnown'
  BY <1>1, <1>2 DEF RepliesInv, OwnersKnown
<1>5. RepliesFresh'
  BY <1>1, <1>2 DEF RepliesInv, RepliesFresh
<1>6. EndedInRmcp'
  BY <1>2 DEF RepliesInv, EndedInRmcp, EndsBinding, Served
<1>7. EndedIsGone'
  <2> SUFFICES ASSUME NEW q \in Requests, pc'[q] = "answered", header'[q] \in Sessions \ mistaken
               PROVE  /\ method'[q] = "DELETE" /\ status'[q] = "success" =>
                           header'[q] \notin Bound' \cup live'
                      /\ status'[q] = "not_found" => header'[q] \notin Bound'
    BY DEF EndedIsGone
  <2>1. q # r
    BY <1>2 DEF Served
  <2> QED
    BY <2>1 DEF RepliesInv, EndedIsGone
<1> QED
  BY <1>3, <1>4, <1>5, <1>6, <1>7 DEF RepliesInv

(* ... and, when they leave the table and rmcp alone, whatever was         *)
(* accounted for stays so.                                                 *)
LEMMA SameAccounted ==
  ASSUME AccountInv, LiveAccounted, NEW r \in Requests, live' \subseteq live,
         Bound \cap live' \subseteq Bound' \cup orphans',
         (orphans \cup unnamed) \cap live' \subseteq orphans' \cup unnamed',
         \A q \in Requests \ {r} :
           pc'[q] = pc[q] /\ reply'[q] = reply[q] /\ (q \in holding' <=> q \in holding),
         r \in Creating => \/ reply[r] \notin live' \/ reply[r] \in Bound' \cup orphans'
                          \/ (r \in Creating' /\ reply'[r] = reply[r])
  PROVE  LiveAccounted'
<1> SUFFICES ASSUME NEW s \in live', s \notin Bound' \cup orphans' \cup unnamed'
             PROVE  \E q \in Creating' : reply'[q] = s
  BY DEF LiveAccounted, Accounted
<1>1. PICK q \in Creating : reply[q] = s
  BY DEF LiveAccounted, Accounted
<1>2. CASE q # r
  <2>1. q \in Requests
    BY <1>1 DEF Creating, AccountInv, TypeOK
  <2> QED
    BY <1>1, <1>2, <2>1 DEF Creating
<1>3. CASE q = r
  BY <1>1, <1>3
<1> QED
  BY <1>2, <1>3

LEMMA RefusalDisposes ==
  ASSUME AccountInv, DisposalInv, NEW r \in Requests,
         \/ RefuseCredential(r) \/ RefuseSession(r) \/ RefuseCapacity(r)
         \/ RejectForeignReply(r) \/ Leave(r)
  PROVE  DisposalInv'
<1>1. /\ UNCHANGED <<binding, live, orphans, unnamed, owner, mistaken, mode, holding>>
      /\ pc'[r] \in {"unauthorized", "forbidden", "at_capacity", "unavailable", "idle"}
      /\ \A q \in Requests \ {r} :
           /\ pc'[q] = pc[q] /\ header'[q] = header[q] /\ method'[q] = method[q]
           /\ status'[q] = status[q] /\ reply'[q] = reply[q]
      /\ r \notin holding
  BY SentinelsDistinct
  DEF Forget, RefuseCredential, RefuseSession, RefuseCapacity, RejectForeignReply, Leave, Final,
      tableVars, rmcpVars, AccountInv, TypeOK, HoldersCreate
<1>2. Bound' = Bound /\ r \notin Creating' /\ r \notin Served' /\ r \notin Creating
  BY <1>1 DEF Bound, Creating, Served
<1>3. holding \subseteq Requests
  BY DEF AccountInv, TypeOK
<1>4. RepliesInv'
  BY <1>1, <1>2, <1>3, DropKeepsReplies DEF DisposalInv
<1>5. LiveAccounted'
  BY <1>1, <1>2, SameAccounted DEF DisposalInv
<1> QED
  BY <1>4, <1>5 DEF DisposalInv

LEMMA ArriveDisposes ==
  ASSUME AccountInv, DisposalInv, NEW r \in Requests, NEW p \in Principals,
         NEW s \in Sessions \cup {NoSession, BadSession},
         NEW m \in {"POST", "DELETE"}, Arrive(r, p, s, m)
  PROVE  DisposalInv'
<1>1. /\ UNCHANGED <<binding, live, orphans, unnamed, owner, mistaken, mode, holding>>
      /\ pc'[r] = "verify"
      /\ \A q \in Requests \ {r} :
           /\ pc'[q] = pc[q] /\ header'[q] = header[q] /\ method'[q] = method[q]
           /\ status'[q] = status[q] /\ reply'[q] = reply[q]
      /\ r \notin holding
  BY DEF Arrive, tableVars, rmcpVars, AccountInv, TypeOK, HoldersCreate
<1>2. Bound' = Bound /\ r \notin Creating' /\ r \notin Served' /\ r \notin Creating
  BY <1>1 DEF Bound, Creating, Served
<1>3. holding \subseteq Requests
  BY DEF AccountInv, TypeOK
<1>4. RepliesInv'
  BY <1>1, <1>2, <1>3, DropKeepsReplies DEF DisposalInv
<1>5. LiveAccounted'
  BY <1>1, <1>2, SameAccounted DEF DisposalInv
<1> QED
  BY <1>4, <1>5 DEF DisposalInv

(* The steps of a request without a session on its way to rmcp. *)
LEMMA ForwardDisposes ==
  ASSUME AccountInv, DisposalInv, NEW r \in Requests,
         SweepExpired(r) \/ ReservePermit(r) \/ ForwardStateless(r)
  PROVE  DisposalInv'
<1>1. /\ UNCHANGED <<live, owner, mistaken, unnamed, mode>>
      /\ pc'[r] \in {"acquire", "forward"} /\ header'[r] = NoSession
      /\ pc'[r] = "forward" /\ mode = "stateful" => r \in holding'
      /\ \A q \in Requests \ {r} :
           /\ pc'[q] = pc[q] /\ header'[q] = header[q] /\ method'[q] = method[q]
           /\ status'[q] = status[q] /\ reply'[q] = reply[q]
           /\ q \in holding' <=> q \in holding
      /\ holding' \subseteq Requests /\ r \notin holding
      /\ orphans \subseteq orphans'
  BY DEF SweepExpired, ReservePermit, ForwardStateless, Stateful, rmcpVars, tableVars,
     AccountInv, TypeOK, HoldersCreate
<1>2. Bound' \subseteq Bound /\ Bound \cap live \subseteq Bound' \cup orphans'
  BY DEF SweepExpired, ReservePermit, ForwardStateless, tableVars, Bound, Expired
<1>3. r \notin Creating' /\ r \notin Served' /\ r \notin Creating
  BY <1>1, SentinelsDistinct DEF Creating, Served
<1>4. RepliesInv'
  BY <1>1, <1>2, <1>3, DropKeepsReplies DEF DisposalInv
<1>5. LiveAccounted'
  BY <1>1, <1>2, <1>3, SameAccounted DEF DisposalInv
<1> QED
  BY <1>4, <1>5 DEF DisposalInv

(* A failed creation waits for the end of the session its response named.  *)
LEMMA CloseBegins ==
  ASSUME AccountInv, DisposalInv, NEW r \in Requests, BeginClose(r)
  PROVE  DisposalInv'
<1>1. /\ UNCHANGED <<binding, live, orphans, unnamed, owner, mistaken, mode, holding>>
      /\ UNCHANGED <<header, method, status, reply>>
      /\ pc' = [pc EXCEPT ![r] = "closing"] /\ pc[r] = "respond"
      /\ header[r] \notin Sessions /\ r \in holding
  BY SentinelsDistinct
  DEF BeginClose, rmcpVars, tableVars, AccountInv, HoldersCreate
<1>2. Bound' = Bound /\ Creating' = Creating /\ Served' = Served
  BY <1>1 DEF Bound, Creating, Served, AccountInv, TypeOK
<1>3. CreatorsHold'
  BY <1>1 DEF DisposalInv, RepliesInv, CreatorsHold, AccountInv, TypeOK
<1>4. OwnersKnown' /\ RepliesFresh' /\ LiveAccounted'
  BY <1>1, <1>2
  DEF DisposalInv, RepliesInv, OwnersKnown, RepliesFresh, LiveAccounted, Accounted
<1>5. EndedInRmcp'
  BY <1>1, <1>2 DEF DisposalInv, RepliesInv, EndedInRmcp, EndsBinding, AccountInv, TypeOK
<1>6. EndedIsGone'
  BY <1>1, <1>2 DEF DisposalInv, RepliesInv, EndedIsGone, AccountInv, TypeOK
<1> QED
  BY <1>3, <1>4, <1>5, <1>6 DEF DisposalInv, RepliesInv

(* A creation that comes to nothing: a reply refused for its id names a    *)
(* bound session, a failed one is closed or its close failed, a cancelled  *)
(* one is an orphan.                                                       *)
LEMMA EndDisposes ==
  ASSUME AccountInv, DisposalInv, NEW r \in Requests,
         RejectCreation(r) \/ PassFailure(r) \/ CloseFailedCreation(r) \/ Cancel(r)
  PROVE  DisposalInv'
<1>1. /\ UNCHANGED <<binding, owner, mistaken, unnamed, mode>>
      /\ holding' = holding \ {r} /\ live' \subseteq live /\ orphans \subseteq orphans'
      /\ pc'[r] \in {"unavailable", "answered", "idle"}
      /\ \A q \in Requests \ {r} :
           /\ pc'[q] = pc[q] /\ header'[q] = header[q] /\ method'[q] = method[q]
           /\ status'[q] = status[q] /\ reply'[q] = reply[q]
  BY DEF Forget, RejectCreation, PassFailure, CloseFailedCreation, Cancel, End, rmcpVars, AccountInv, TypeOK
<1>2. pc'[r] = "answered" => header'[r] = NoSession
  BY DEF Forget, RejectCreation, PassFailure, CloseFailedCreation, Cancel, End, AccountInv, TypeOK, HoldersCreate
<1>3. Bound' = Bound /\ r \notin Creating' /\ r \notin Served' /\ holding' \subseteq Requests
  BY <1>1, <1>2, SentinelsDistinct DEF Bound, Creating, Served, AccountInv, TypeOK
<1>4. r \in Creating => reply[r] \notin live' \/ reply[r] \in Bound' \cup orphans'
  <2> SUFFICES ASSUME r \in Creating PROVE reply[r] \notin live' \/ reply[r] \in Bound \cup orphans'
    BY <1>3
  <2>1. r \in holding /\ reply[r] \in Sessions /\ reply[r] \notin {NoSession, BadSession}
    BY SentinelsDistinct DEF Creating
  <2>2. ~PassFailure(r)
    BY <2>1 DEF PassFailure
  <2>3. CASE RejectCreation(r)
    BY <2>1, <2>3 DEF RejectCreation, Insertable, Bound
  <2>4. CASE CloseFailedCreation(r)
    BY <2>1, <2>4 DEF CloseFailedCreation, ClosedByRefusal
  <2>5. CASE Cancel(r)
    BY <2>1, <2>5 DEF Cancel, rmcpVars
  <2> QED
    BY <2>2, <2>3, <2>4, <2>5
<1>5. RepliesInv'
  BY <1>1, <1>3, DropKeepsReplies DEF DisposalInv
<1>6. /\ Bound \cap live' \subseteq Bound' \cup orphans'
      /\ (orphans \cup unnamed) \cap live' \subseteq orphans' \cup unnamed'
      /\ \A q \in Requests \ {r} : q \in holding' <=> q \in holding
  BY <1>1, <1>3
<1>7. LiveAccounted'
  BY <1>1, <1>4, <1>6, SameAccounted DEF DisposalInv
<1> QED
  BY <1>5, <1>7 DEF DisposalInv

LEMMA FinishStatelessDisposes ==
  ASSUME AccountInv, DisposalInv, NEW r \in Requests, FinishStateless(r)
  PROVE  DisposalInv'
<1>1. /\ UNCHANGED <<binding, live, orphans, unnamed, owner, mistaken, mode, holding>>
      /\ pc'[r] = "answered" /\ UNCHANGED <<header, method, status, reply>>
      /\ \A q \in Requests \ {r} : pc'[q] = pc[q]
      /\ r \notin holding /\ header[r] \notin Sessions
  BY DEF FinishStateless, Stateful, tableVars, rmcpVars, AccountInv, TypeOK, HoldersCreate,
     DisposalInv, RepliesInv, CreatorsHold
<1>2. Bound' = Bound /\ r \notin Creating' /\ r \notin Served' /\ r \notin Creating
  BY <1>1 DEF Bound, Creating, Served
<1>3. holding \subseteq Requests
  BY DEF AccountInv, TypeOK
<1>4. RepliesInv'
  BY <1>1, <1>2, <1>3, DropKeepsReplies DEF DisposalInv
<1>5. LiveAccounted'
  BY <1>1, <1>2, SameAccounted DEF DisposalInv
<1> QED
  BY <1>4, <1>5 DEF DisposalInv

(* A request begins to be served in a session that is bound, so in none    *)
(* that still waits to be.                                                 *)
LEMMA LookupDisposes ==
  ASSUME AccountInv, DisposalInv, NEW r \in Requests, LookupSession(r)
  PROVE  DisposalInv'
<1>1. /\ UNCHANGED <<binding, live, orphans, unnamed, owner, mistaken, mode, holding>>
      /\ UNCHANGED <<header, method, status, reply>>
      /\ pc' = [pc EXCEPT ![r] = "forward"] /\ pc[r] = "verify" /\ mode = "stateful"
      /\ header[r] \in Bound /\ r \notin holding
  BY SentinelsDistinct
  DEF LookupSession, Stateful, Admits, Bound, rmcpVars, AccountInv, TypeOK, HoldersCreate,
      CallersKnown, Running
<1>2. Bound' = Bound /\ Creating' = Creating /\ Served' = Served \cup {r}
  BY <1>1 DEF Bound, Creating, Served, AccountInv, TypeOK
<1>3. CreatorsHold'
  BY <1>1, SentinelsDistinct DEF DisposalInv, RepliesInv, CreatorsHold, AccountInv, TypeOK, Bound
<1>4. OwnersKnown'
  BY <1>1, <1>2 DEF DisposalInv, RepliesInv, OwnersKnown
<1>5. RepliesFresh'
  BY <1>1, <1>2 DEF DisposalInv, RepliesInv, RepliesFresh
<1>6. EndedInRmcp'
  BY <1>1, <1>2 DEF DisposalInv, RepliesInv, EndedInRmcp, EndsBinding, Served, AccountInv, TypeOK
<1>7. EndedIsGone'
  BY <1>1, <1>2 DEF DisposalInv, RepliesInv, EndedIsGone, AccountInv, TypeOK
<1>8. LiveAccounted'
  BY <1>1, <1>2 DEF DisposalInv, LiveAccounted, Accounted
<1> QED
  BY <1>3, <1>4, <1>5, <1>6, <1>7, <1>8 DEF DisposalInv, RepliesInv

(* An insertion binds a session that no other request has been served in.  *)
LEMMA BindDisposes ==
  ASSUME AccountInv, DisposalInv, NEW r \in Requests, BindSession(r)
  PROVE  DisposalInv'
<1>1. /\ UNCHANGED <<live, orphans, unnamed, owner, mistaken, mode, header, method, status, reply>>
      /\ holding' = holding \ {r} /\ pc' = [pc EXCEPT ![r] = "answered"]
      /\ header[r] = NoSession /\ r \in Creating
  BY DEF BindSession, rmcpVars, Creating, AccountInv, HoldersCreate
<1>2. /\ Bound' = Bound \cup {reply[r]}
      /\ Creating' = Creating \ {r} /\ Served' = Served
  <2>1. caller[r] # Nobody
    BY SentinelsDistinct DEF BindSession, AccountInv, CallersKnown, Running
  <2>2. Bound' = Bound \cup {reply[r]}
    BY <2>1 DEF BindSession, Bound, AccountInv, TypeOK
  <2> QED
    BY <1>1, <2>2, SentinelsDistinct DEF Creating, Served, AccountInv, TypeOK
<1>3. CreatorsHold'
  BY <1>1 DEF DisposalInv, RepliesInv, CreatorsHold, AccountInv, TypeOK
<1>4. OwnersKnown'
  BY <1>1, <1>2 DEF DisposalInv, RepliesInv, OwnersKnown
<1>5. RepliesFresh'
  BY <1>1, <1>2 DEF DisposalInv, RepliesInv, RepliesFresh
<1>6. EndedInRmcp'
  BY <1>1, <1>2 DEF DisposalInv, RepliesInv, EndedInRmcp, EndsBinding, AccountInv, TypeOK
<1>7. EndedIsGone'
  <2> SUFFICES ASSUME NEW q \in Requests, pc'[q] = "answered", header[q] \in Sessions \ mistaken
               PROVE  /\ method[q] = "DELETE" /\ status[q] = "success" =>
                           header[q] \notin Bound' \cup live
                      /\ status[q] = "not_found" => header[q] \notin Bound'
    BY <1>1 DEF EndedIsGone
  <2>1. q # r /\ pc[q] = "answered" /\ q \in Served
    BY <1>1, SentinelsDistinct DEF Served, AccountInv, TypeOK
  <2>2. header[q] # reply[r]
    BY <1>1, <2>1 DEF DisposalInv, RepliesInv, RepliesFresh
  <2> QED
    BY <1>2, <2>1, <2>2 DEF DisposalInv, RepliesInv, EndedIsGone
<1>8. LiveAccounted'
  BY <1>1, <1>2 DEF DisposalInv, LiveAccounted, Accounted
<1> QED
  BY <1>3, <1>4, <1>5, <1>6, <1>7, <1>8 DEF DisposalInv, RepliesInv

(* A deletion and a 404 leave neither a binding nor a live session.        *)
LEMMA FinishDisposes ==
  ASSUME AccountInv, DisposalInv, NEW r \in Requests, FinishInSession(r)
  PROVE  DisposalInv'
<1>1. /\ UNCHANGED <<live, orphans, unnamed, owner, mistaken, mode>>
      /\ UNCHANGED <<header, method, status, reply, holding>>
      /\ pc' = [pc EXCEPT ![r] = "answered"] /\ pc[r] = "respond"
      /\ header[r] \in Sessions /\ r \notin holding
      /\ reply[r] \in {NoSession, header[r]}
  BY SentinelsDistinct DEF FinishInSession, rmcpVars, AccountInv, HoldersCreate
<1>2. /\ Bound' = IF EndsBinding(r) THEN Bound \ {header[r]} ELSE Bound
      /\ Creating' = Creating /\ Served' = Served /\ r \in Served
  <2>1. Bound' = IF EndsBinding(r) THEN Bound \ {header[r]} ELSE Bound
    BY <1>1 DEF FinishInSession, tableVars, Bound, AccountInv, TypeOK
  <2> QED
    BY <1>1, <2>1 DEF Creating, Served, AccountInv, TypeOK
<1>3. EndsBinding(r) => header[r] \notin live
  BY <1>1, <1>2 DEF DisposalInv, RepliesInv, EndedInRmcp
<1>4. CreatorsHold'
  BY <1>1 DEF DisposalInv, RepliesInv, CreatorsHold, AccountInv, TypeOK
<1>5. OwnersKnown'
  BY <1>1, <1>2 DEF DisposalInv, RepliesInv, OwnersKnown
<1>6. RepliesFresh'
  BY <1>1, <1>2 DEF DisposalInv, RepliesInv, RepliesFresh
<1>7. EndedInRmcp'
  BY <1>1, <1>2 DEF DisposalInv, RepliesInv, EndedInRmcp, EndsBinding, AccountInv, TypeOK
<1>8. EndedIsGone'
  <2> SUFFICES ASSUME NEW q \in Requests, pc'[q] = "answered", header[q] \in Sessions \ mistaken
               PROVE  /\ method[q] = "DELETE" /\ status[q] = "success" =>
                           header[q] \notin Bound' \cup live
                      /\ status[q] = "not_found" => header[q] \notin Bound'
    BY <1>1 DEF EndedIsGone
  <2>1. CASE q = r
    BY <1>2, <1>3, <2>1 DEF EndsBinding
  <2>2. CASE q # r
    BY <1>1, <1>2, <2>2 DEF DisposalInv, RepliesInv, EndedIsGone, AccountInv, TypeOK
  <2> QED
    BY <2>1, <2>2
<1>9. LiveAccounted'
  BY <1>1, <1>2, <1>3 DEF DisposalInv, LiveAccounted, Accounted
<1> QED
  BY <1>4, <1>5, <1>6, <1>7, <1>8, <1>9 DEF DisposalInv, RepliesInv

(* rmcp makes sessions under ids it never used, so under none that is      *)
(* bound, answered or served; a mistaken reply names a bound session, which*)
(* is mistaken from then on.                                               *)
LEMMA AnswerDisposes ==
  ASSUME AccountInv, DisposalInv, NEW r \in Requests, NEW made \in SUBSET Sessions,
         \A s \in made : owner[s] = Nobody, AnswerCreation(r, made)
  PROVE  DisposalInv'
<1>1. PICK n \in Sessions \cup {NoSession, BadSession} :
        /\ UNCHANGED <<binding, caller, header, method, holding, orphans, mode>>
        /\ pc[r] = "forward" /\ pc' = [pc EXCEPT ![r] = "respond"]
        /\ header[r] = NoSession /\ mode = "stateful"
        /\ \A q \in Requests \ {r} : status'[q] = status[q] /\ reply'[q] = reply[q]
        /\ reply'[r] = n /\ live' = live \cup made
        /\ \A s \in Sessions : owner'[s] = IF s \in made THEN caller[r] ELSE owner[s]
        /\ n \in Sessions => n \in made \/ n \in Bound
        /\ mistaken' = mistaken \cup ({n} \cap Bound)
        /\ unnamed' = unnamed \cup (made \ {n})
  BY CreationAnswered
<1>2. caller[r] # Nobody /\ r \in holding
  BY <1>1, SentinelsDistinct
  DEF AccountInv, CallersKnown, Running, DisposalInv, RepliesInv, CreatorsHold
<1>3. /\ Bound' = Bound /\ Served' = Served /\ r \notin Served /\ r \notin Creating
      /\ \A q \in Creating : q \in Creating' /\ reply'[q] = reply[q]
      /\ \A q \in Creating' : q \in Creating \/ (q = r /\ n \in Sessions)
      /\ n \in Sessions => r \in Creating'
  <2>1. holding' = holding /\ holding \subseteq Requests /\ pc'[r] = "respond"
        /\ \A q \in Requests \ {r} : pc'[q] = pc[q]
    BY <1>1 DEF AccountInv, TypeOK
  <2>2. Bound' = Bound /\ r \notin Creating /\ header[r] \notin Sessions
    BY <1>1, SentinelsDistinct DEF Bound, Creating
  <2>3. Served' = Served /\ r \notin Served
    BY <1>1, <2>1, <2>2 DEF Served
  <2>4. \A q \in Creating : q \in Creating' /\ reply'[q] = reply[q]
    BY <1>1, <2>1, <2>2 DEF Creating
  <2>5. \A q \in Creating' : q \in Creating \/ (q = r /\ n \in Sessions)
    BY <1>1, <2>1 DEF Creating
  <2>6. n \in Sessions => r \in Creating'
    BY <1>1, <1>2, <2>1 DEF Creating
  <2> QED
    BY <2>2, <2>3, <2>4, <2>5, <2>6
<1>4. \A s \in made : /\ s \notin Bound
                      /\ \A q \in Creating : reply[q] # s
                      /\ \A q \in Served : header[q] # s
  BY DEF DisposalInv, RepliesInv, OwnersKnown
<1>5. Bound \subseteq Sessions /\ \A s \in Sessions : owner[s] # Nobody => owner'[s] # Nobody
  BY <1>1, <1>2 DEF Bound
<1>6. CreatorsHold'
  BY <1>1, <1>2 DEF DisposalInv, RepliesInv, CreatorsHold, AccountInv, TypeOK
<1>7. OwnersKnown'
  <2>1. \A t \in Bound' : owner'[t] # Nobody
    BY <1>3, <1>5 DEF DisposalInv, RepliesInv, OwnersKnown
  <2>2. \A q \in Creating' : owner'[reply'[q]] # Nobody
    <3> SUFFICES ASSUME NEW q \in Creating' PROVE owner'[reply'[q]] # Nobody
      OBVIOUS
    <3>1. CASE q \in Creating
      BY <1>3, <1>5, <3>1 DEF DisposalInv, RepliesInv, OwnersKnown, Creating
    <3>2. CASE q = r /\ n \in Sessions
      <4>1. CASE n \in made
        BY <1>1, <1>2, <3>2, <4>1
      <4>2. CASE n \in Bound
        BY <1>1, <1>5, <3>2, <4>2 DEF DisposalInv, RepliesInv, OwnersKnown
      <4> QED
        BY <1>1, <3>2, <4>1, <4>2
    <3> QED
      BY <1>3, <3>1, <3>2
  <2>3. \A q \in Served' : owner'[header'[q]] # Nobody
    BY <1>1, <1>3, <1>5 DEF DisposalInv, RepliesInv, OwnersKnown, Served
  <2> QED
    BY <2>1, <2>2, <2>3 DEF OwnersKnown
<1>8. RepliesFresh'
  <2> SUFFICES ASSUME NEW q \in Creating', reply'[q] \notin mistaken'
               PROVE  /\ reply'[q] \notin Bound
                      /\ \A t \in Creating' : reply'[t] = reply'[q] => t = q
                      /\ \A t \in Served : header[t] # reply'[q]
    BY <1>1, <1>3 DEF RepliesFresh
  <2>1. CASE q = r
    <3>1. n \in made /\ reply'[q] = n
      BY <1>1, <1>3, <2>1
    <3> QED
      BY <1>3, <1>4, <2>1, <3>1
  <2>2. CASE q # r
    <3>1. q \in Creating /\ reply'[q] = reply[q] /\ reply[q] \notin mistaken
      BY <1>1, <1>3, <2>2
    <3>2. /\ reply[q] \notin Bound
          /\ \A t \in Creating : reply[t] = reply[q] => t = q
          /\ \A t \in Served : header[t] # reply[q]
      BY <3>1 DEF DisposalInv, RepliesInv, RepliesFresh
    <3>3. reply[q] \in Sessions /\ reply[q] \notin made
      BY <1>4, <3>1 DEF Creating
    <3>4. \A t \in Creating' : reply'[t] = reply[q] => t = q
      BY <1>1, <1>3, <3>2, <3>3
    <3> QED
      BY <3>1, <3>2, <3>4
  <2> QED
    BY <2>1, <2>2
<1>9. EndedInRmcp'
  <2> SUFFICES ASSUME NEW q \in Served, pc'[q] = "respond", reply'[q] \in {NoSession, header[q]},
                      EndsBinding(q)'
               PROVE  header[q] \notin live'
    BY <1>1, <1>3 DEF EndedInRmcp
  <2>1. q # r /\ q \in Requests
    BY <1>3 DEF Served
  <2>2. header[q] \notin live
    BY <1>1, <2>1 DEF DisposalInv, RepliesInv, EndedInRmcp, EndsBinding, AccountInv, TypeOK
  <2> QED
    BY <1>1, <1>4, <2>2
<1>10. EndedIsGone'
  <2> SUFFICES ASSUME NEW q \in Requests, pc'[q] = "answered", header[q] \in Sessions \ mistaken'
               PROVE  /\ method[q] = "DELETE" /\ status'[q] = "success" =>
                           header[q] \notin Bound' \cup live'
                      /\ status'[q] = "not_found" => header[q] \notin Bound'
    BY <1>1 DEF EndedIsGone
  <2>1. q # r /\ pc[q] = "answered" /\ q \in Served /\ status'[q] = status[q]
    BY <1>1 DEF Served, AccountInv, TypeOK
  <2>2. header[q] \notin made
    BY <1>4, <2>1
  <2> QED
    BY <1>1, <1>3, <2>1, <2>2 DEF DisposalInv, RepliesInv, EndedIsGone
<1>11. LiveAccounted'
  <2> SUFFICES ASSUME NEW t \in live' PROVE Accounted(t)'
    BY DEF LiveAccounted
  <2>1. CASE t \in made /\ t # n
    BY <1>1, <2>1 DEF Accounted
  <2>2. CASE t \in made /\ t = n
    BY <1>1, <1>3, <2>2 DEF Accounted
  <2>3. CASE t \notin made
    BY <1>1, <1>3, <2>3 DEF DisposalInv, LiveAccounted, Accounted
  <2> QED
    BY <2>1, <2>2, <2>3
<1> QED
  BY <1>6, <1>7, <1>8, <1>9, <1>10, <1>11 DEF DisposalInv, RepliesInv

(* A response to a request that creates nothing: where it ends the binding *)
(* of its session, that session is gone.                                   *)
LEMMA ServeDisposes ==
  ASSUME AccountInv, DisposalInv, NEW r \in Requests,
         ServeWithoutSession(r) \/ ServeInSession(r)
  PROVE  DisposalInv'
<1>1. /\ UNCHANGED <<binding, owner, mistaken, unnamed, orphans, mode, header, method, holding>>
      /\ pc' = [pc EXCEPT ![r] = "respond"] /\ pc[r] = "forward" /\ live' \subseteq live
      /\ \A q \in Requests \ {r} : status'[q] = status[q] /\ reply'[q] = reply[q]
      /\ header[r] = NoSession => reply'[r] = NoSession
  BY SentinelsDistinct
  DEF ServeWithoutSession, ServeInSession, Respond, tableVars, rmcpVars, AccountInv, TypeOK
<1>2. header[r] \in Sessions /\ reply'[r] \in {NoSession, header[r]} /\ EndsBinding(r)'
        => header[r] \notin live'
  <2> SUFFICES ASSUME header[r] \in Sessions, reply'[r] \in {NoSession, header[r]},
                      EndsBinding(r)'
               PROVE  header[r] \notin live'
    OBVIOUS
  <2>1. ServeInSession(r)
    BY SentinelsDistinct DEF ServeWithoutSession
  <2>2. status' = [status EXCEPT ![r] = status'[r]] /\ method' = method
    BY <2>1 DEF ServeInSession, Respond, AccountInv, TypeOK
  <2>3. (method[r] = "DELETE" /\ status'[r] = "success") \/ status'[r] = "not_found"
    BY <2>2 DEF EndsBinding
  <2> QED
    BY <2>1, <2>3, SentinelsDistinct DEF ServeInSession, Respond, rmcpVars, AccountInv, TypeOK
<1>3. Bound' = Bound /\ Creating' = Creating /\ Served' = Served /\ r \notin Creating
  <2>1. r \in holding => header[r] = NoSession
    BY DEF AccountInv, HoldersCreate
  <2> QED
    BY <1>1, <2>1, SentinelsDistinct DEF Bound, Creating, Served, AccountInv, TypeOK
<1>4. \A q \in Creating : reply'[q] = reply[q]
  BY <1>1, <1>3 DEF Creating, AccountInv, TypeOK
<1>5. CreatorsHold'
  BY <1>1 DEF DisposalInv, RepliesInv, CreatorsHold, AccountInv, TypeOK
<1>6. OwnersKnown' /\ RepliesFresh'
  BY <1>1, <1>3, <1>4 DEF DisposalInv, RepliesInv, OwnersKnown, RepliesFresh
<1>7. EndedInRmcp'
  <2> SUFFICES ASSUME NEW q \in Served, pc'[q] = "respond", reply'[q] \in {NoSession, header[q]},
                      EndsBinding(q)'
               PROVE  header[q] \notin live'
    BY <1>1, <1>3 DEF EndedInRmcp
  <2>1. CASE q = r
    BY <1>2, <2>1 DEF Served
  <2>2. CASE q # r
    BY <1>1, <2>2
    DEF DisposalInv, RepliesInv, EndedInRmcp, EndsBinding, Served, AccountInv, TypeOK
  <2> QED
    BY <2>1, <2>2
<1>8. EndedIsGone'
  BY <1>1, <1>3 DEF DisposalInv, RepliesInv, EndedIsGone, AccountInv, TypeOK
<1>9. LiveAccounted'
  BY <1>1, <1>3, <1>4 DEF DisposalInv, LiveAccounted, Accounted
<1> QED
  BY <1>5, <1>6, <1>7, <1>8, <1>9 DEF DisposalInv, RepliesInv

(* Steps of nobody's request. *)
LEMMA ClockDisposes ==
  ASSUME AccountInv, DisposalInv,
         Tick \/ (\E s \in Sessions : SessionWorkerEnds(s)) \/ UNCHANGED vars
  PROVE  DisposalInv'
<1>1. /\ UNCHANGED <<binding, owner, mistaken, mode, pc, header, method, holding, status, reply>>
      /\ live' \subseteq live
      /\ (orphans \cup unnamed) \cap live' \subseteq orphans' \cup unnamed'
  BY DEF Tick, SessionWorkerEnds, vars, requestVars, tableVars, rmcpVars
<1>2. Bound' = Bound /\ Creating' = Creating /\ Served' = Served
  BY <1>1 DEF Bound, Creating, Served
<1>3. RepliesInv'
  BY <1>1, <1>2
  DEF DisposalInv, RepliesInv, CreatorsHold, OwnersKnown, RepliesFresh, EndedInRmcp, EndsBinding,
      EndedIsGone
<1>4. LiveAccounted'
  BY <1>1, <1>2 DEF DisposalInv, LiveAccounted, Accounted
<1> QED
  BY <1>3, <1>4 DEF DisposalInv

LEMMA NextDisposes == AccountInv /\ DisposalInv /\ [Next]_vars => DisposalInv'
<1> SUFFICES ASSUME AccountInv, DisposalInv, [Next]_vars PROVE DisposalInv'
  OBVIOUS
<1>1. ASSUME NEW r \in Requests, Handle(r) PROVE DisposalInv'
  BY <1>1, RefusalDisposes, ForwardDisposes, CloseBegins, EndDisposes, FinishStatelessDisposes,
     LookupDisposes, BindDisposes, FinishDisposes DEF Handle
<1>2. ASSUME NEW r \in Requests, Rmcp(r) PROVE DisposalInv'
  BY <1>2, CreationMakes, AnswerDisposes, ServeDisposes DEF Rmcp
<1>3. ASSUME NEW r \in Requests, Cancel(r) \/ Leave(r) PROVE DisposalInv'
  BY <1>3, EndDisposes, RefusalDisposes
<1> QED
  BY <1>1, <1>2, <1>3, ArriveDisposes, ClockDisposes DEF Next

LEMMA InitDisposes == Init => DisposalInv
<1> SUFFICES ASSUME Init PROVE DisposalInv
  OBVIOUS
<1>1. Bound = {} /\ Creating = {} /\ Served = {} /\ live = {}
      /\ \A r \in Requests : pc[r] = "idle"
  BY DEF Init, Bound, Creating, Served
<1> QED
  BY <1>1
  DEF DisposalInv, RepliesInv, CreatorsHold, OwnersKnown, RepliesFresh, EndedInRmcp,
      EndedIsGone, LiveAccounted

(* What became of each session, from its creation to its end               *)
THEOREM DisposalHolds == Spec => []DisposalInv
BY InitDisposes, NextDisposes, AccountsHold, PTL DEF Spec

(* When a client reads a successful DELETE or a 404, its session is bound  *)
(* no more, and a deleted one lives in rmcp no more, for as long as the    *)
(* answer stands (router.rs 434-439).                                      *)
THEOREM EndedStaysGone == Spec => []EndedIsGone
<1>1. DisposalInv => EndedIsGone
  BY DEF DisposalInv, RepliesInv
<1> QED
  BY <1>1, DisposalHolds, PTL

(* A session alive in rmcp that is neither bound nor about to be bound or  *)
(* closed was swept, abandoned by its creator, not closed when the handler *)
(* asked, or never named in the response to its creation: a session that a *)
(* response names is never refused and left alive (router.rs 394-426).     *)
THEOREM NothingLeftBehind == Spec => []NoSilentOrphan
<1>1. DisposalInv => NoSilentOrphan
  BY DEF DisposalInv, LiveAccounted, Accounted, Creating, NoSilentOrphan
<1> QED
  BY <1>1, DisposalHolds, PTL

-----------------------------------------------------------------------------
(* Steps that bind nothing but a session just seen, and sweep nothing.     *)
LEMMA SameFreshness ==
  ASSUME AccountInv, CapacityTestIsFresh,
         \A s \in Bound' : (s \in Bound /\ age'[s] = age[s]) \/ age'[s] = 0,
         \A q \in Requests : pc'[q] = "acquire" => pc[q] = "acquire" /\ waited'[q] = waited[q]
  PROVE  CapacityTestIsFresh'
<1> SUFFICES ASSUME NEW q \in Requests, pc'[q] = "acquire", NEW s \in Bound'
             PROVE  age'[s] <= Idle + waited'[q]
  BY DEF CapacityTestIsFresh
<1>1. pc[q] = "acquire" /\ waited'[q] = waited[q] /\ waited[q] \in Nat /\ Idle \in Nat
  BY BoundsOK DEF AccountInv, TypeOK
<1>2. CASE s \in Bound /\ age'[s] = age[s]
  BY <1>1, <1>2 DEF CapacityTestIsFresh
<1>3. CASE age'[s] = 0
  BY <1>1, <1>3
<1> QED
  BY <1>2, <1>3

LEMMA NextFreshness == AccountInv /\ CapacityTestIsFresh /\ [Next]_vars => CapacityTestIsFresh'
<1> SUFFICES ASSUME AccountInv, CapacityTestIsFresh, [Next]_vars PROVE CapacityTestIsFresh'
  OBVIOUS
<1>1. ASSUME NEW r \in Requests, SweepExpired(r) PROVE CapacityTestIsFresh'
  <2> SUFFICES ASSUME NEW q \in Requests, pc'[q] = "acquire", NEW s \in Bound'
               PROVE  age'[s] <= Idle + waited'[q]
    BY DEF CapacityTestIsFresh
  <2>1. s \in Bound /\ ~Expired(s) /\ age'[s] = age[s]
    BY <1>1 DEF SweepExpired, Bound, Expired
  <2>2. age[s] \in Nat /\ age[s] <= Idle /\ Idle \in Nat
    BY <2>1, BoundsOK DEF Expired, Bound, AccountInv, TypeOK
  <2>3. CASE q = r
    BY <1>1, <2>1, <2>2, <2>3 DEF SweepExpired, AccountInv, TypeOK
  <2>4. CASE q # r
    BY <1>1, <2>1, <2>2, <2>4, BoundsOK DEF SweepExpired, AccountInv, TypeOK
  <2> QED
    BY <2>3, <2>4
<1>2. CASE Tick
  <2> SUFFICES ASSUME NEW q \in Requests, pc'[q] = "acquire", NEW s \in Bound'
               PROVE  age'[s] <= Idle + waited'[q]
    BY DEF CapacityTestIsFresh
  <2>1. /\ s \in Bound /\ pc[q] = "acquire"
        /\ age'[s] = Older(age[s]) /\ waited'[q] = Older(waited[q])
    BY <1>2 DEF Tick, Bound
  <2>2. age[s] \in 0..MaxAge /\ waited[q] \in 0..MaxAge /\ age[s] <= Idle + waited[q]
    BY <2>1 DEF CapacityTestIsFresh, Bound, AccountInv, TypeOK
  <2> QED
    BY <2>1, <2>2, BoundsOK DEF Older
<1>3. ASSUME NEW r \in Requests, BindSession(r) \/ LookupSession(r) PROVE CapacityTestIsFresh'
  <2>1. \A s \in Bound' : (s \in Bound /\ age'[s] = age[s]) \/ age'[s] = 0
    BY <1>3 DEF BindSession, LookupSession, Bound, AccountInv, TypeOK
  <2> QED
    BY <1>3, <2>1, SameFreshness DEF BindSession, LookupSession, AccountInv, TypeOK
<1>4. ASSUME NEW r \in Requests, FinishInSession(r) PROVE CapacityTestIsFresh'
  <2>1. \A s \in Bound' : s \in Bound /\ age'[s] = age[s]
    BY <1>4 DEF FinishInSession, tableVars, Bound, AccountInv, TypeOK
  <2> QED
    BY <1>4, <2>1, SameFreshness DEF FinishInSession, AccountInv, TypeOK
<1>5. ASSUME NEW r \in Requests, Rmcp(r) PROVE CapacityTestIsFresh'
  <2>1. UNCHANGED <<binding, age, waited>> /\ pc' = [pc EXCEPT ![r] = "respond"]
    BY <1>5 DEF Rmcp, ServeWithoutSession, CreateSession, CreateFaulty, AnswerCreation,
       ServeInSession, Respond, tableVars
  <2> QED
    BY <2>1, SameFreshness DEF Bound, AccountInv, TypeOK
<1>6. ASSUME NEW r \in Requests,
             \/ RefuseCredential(r) \/ RefuseSession(r) \/ ReservePermit(r) \/ RefuseCapacity(r)
             \/ ForwardStateless(r) \/ RejectCreation(r) \/ PassFailure(r)
             \/ BeginClose(r) \/ CloseFailedCreation(r) \/ RejectForeignReply(r) \/ FinishStateless(r) \/ Cancel(r) \/ Leave(r)
      PROVE  CapacityTestIsFresh'
  <2>1. /\ UNCHANGED <<binding, age>> /\ pc'[r] # "acquire"
        /\ \A q \in Requests \ {r} : pc'[q] = pc[q] /\ waited'[q] = waited[q]
    BY <1>6 DEF Forget, RefuseCredential, RefuseSession, ReservePermit, RefuseCapacity, ForwardStateless,
       RejectCreation, PassFailure, BeginClose, CloseFailedCreation, RejectForeignReply,
       FinishStateless, Cancel, Leave, End, tableVars, AccountInv, TypeOK
  <2> QED
    BY <2>1, SameFreshness DEF Bound
<1>7. ASSUME NEW r \in Requests, NEW p \in Principals,
             NEW s \in Sessions \cup {NoSession, BadSession},
             NEW m \in {"POST", "DELETE"}, Arrive(r, p, s, m)
      PROVE  CapacityTestIsFresh'
  BY <1>7, SameFreshness DEF Arrive, tableVars, Bound, AccountInv, TypeOK
<1>8. CASE (\E s \in Sessions : SessionWorkerEnds(s)) \/ UNCHANGED vars
  BY <1>8, SameFreshness DEF SessionWorkerEnds, vars, requestVars, tableVars, Bound
<1> QED
  BY <1>1, <1>2, <1>3, <1>4, <1>5, <1>6, <1>7, <1>8 DEF Next, Handle

(* Idle sessions refuse nobody: the capacity test follows a sweep, however *)
(* long the task is suspended between the two (router.rs 370-380).         *)
THEOREM CapacityIsFresh == Spec => []CapacityTestIsFresh
<1>1. Init => CapacityTestIsFresh
  BY DEF Init, CapacityTestIsFresh
<1> QED
  BY <1>1, NextFreshness, AccountsHold, PTL DEF Spec
=============================================================================
