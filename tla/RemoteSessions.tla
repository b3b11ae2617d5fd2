--------------------------- MODULE RemoteSessions ---------------------------
(***************************************************************************)
(* The authorize_mcp middleware of ore-mcp-remote (router.rs): how an      *)
(* authenticated request reaches an rmcp session, how a session is bound   *)
(* to the principal that created it, and how the permits that bound the    *)
(* table travel from the semaphore to a request to a binding and back.     *)
(*                                                                         *)
(* Each request is a task that tokio may suspend at every await and that   *)
(* hyper drops when the client goes away, so each stretch between two      *)
(* awaits is one action and Cancel may end a request before any of them.   *)
(* A stretch that holds the write lock of the table is one action too.     *)
(* The rmcp service behind the middleware is external: its actions say     *)
(* what the middleware is prepared to receive from it.                     *)
(***************************************************************************)
EXTENDS Naturals, FiniteSets

CONSTANTS
  Requests,       \* tasks that can run the middleware at once
  Principals,     \* PrincipalBinding values
  Sessions,       \* well-formed Mcp-Session-Id values
  NoSession,      \* no Mcp-Session-Id header
  BadSession,     \* a duplicated or malformed Mcp-Session-Id header
  Nobody,         \* no principal
  MaxSessions,    \* config.max_sessions()
  Idle,           \* SESSION_BINDING_IDLE, in ticks
  MaxAge          \* ages stop growing here; above Idle, so expiry is visible

ASSUME RequestsFinite == IsFiniteSet(Requests)
ASSUME SentinelsDistinct ==
  /\ Nobody \notin Principals
  /\ NoSession \notin Sessions /\ BadSession \notin Sessions
  /\ NoSession # BadSession
ASSUME BoundsOK ==
  /\ MaxSessions \in Nat \ {0} /\ Idle \in Nat /\ MaxAge \in Nat
  /\ Idle < MaxAge

VARIABLES
  mode,      \* config.stateful(), fixed when the router is made
  pc,        \* where each request is in the middleware
  caller,    \* the principal verify_bearer returned for it
  header,    \* its Mcp-Session-Id header
  method,    \* DELETE in a session, or POST standing for any other
  holding,   \* requests that own a new-session permit
  status,    \* the status class of the rmcp response it received
  reply,     \* the Mcp-Session-Id of that response
  binding,   \* sessions: session id -> principal, Nobody when absent
  age,       \* ticks since last_seen of each binding
  permits,   \* permits left in session_permits
  live,      \* sessions the rmcp LocalSessionManager holds
  owner,     \* history: the principal whose request created each session
  mistaken,  \* history: bound sessions that rmcp made another creation's reply
  unnamed,   \* history: live sessions rmcp did not name in its response
  orphans,   \* history: live sessions swept, abandoned or not closed
  waited     \* history: ticks since the sweep of a request that will acquire

requestVars == <<pc, caller, header, method, holding, status, reply, waited>>
tableVars == <<binding, age, permits>>
rmcpVars == <<live, owner, mistaken, unnamed>>
vars == <<pc, caller, header, method, holding, status, reply, binding, age,
          permits, live, owner, mistaken, unnamed, orphans, waited, mode>>

Modes == {"stateful", "stateless"}
Stateful == mode = "stateful"

Running == {"verify", "acquire", "forward", "respond", "closing"}
Final == {"unauthorized", "forbidden", "at_capacity", "unavailable", "answered"}

TypeOK ==
  /\ mode \in Modes
  /\ pc \in [Requests -> {"idle"} \cup Running \cup Final]
  /\ caller \in [Requests -> Principals \cup {Nobody}]
  /\ header \in [Requests -> Sessions \cup {NoSession, BadSession}]
  /\ method \in [Requests -> {"POST", "DELETE"}]
  /\ holding \in SUBSET Requests
  /\ status \in [Requests -> {"none", "success", "not_found", "failure"}]
  /\ reply \in [Requests -> Sessions \cup {NoSession, BadSession}]
  /\ binding \in [Sessions -> Principals \cup {Nobody}]
  /\ age \in [Sessions -> 0..MaxAge]
  /\ permits \in 0..MaxSessions
  /\ live \in SUBSET Sessions
  /\ owner \in [Sessions -> Principals \cup {Nobody}]
  /\ mistaken \in SUBSET Sessions
  /\ unnamed \in SUBSET Sessions
  /\ orphans \in SUBSET Sessions
  /\ waited \in [Requests -> 0..MaxAge]

Init ==
  /\ mode \in Modes
  /\ pc = [r \in Requests |-> "idle"]
  /\ caller = [r \in Requests |-> Nobody]
  /\ header = [r \in Requests |-> NoSession]
  /\ method = [r \in Requests |-> "POST"]
  /\ holding = {}
  /\ status = [r \in Requests |-> "none"]
  /\ reply = [r \in Requests |-> NoSession]
  /\ binding = [s \in Sessions |-> Nobody]
  /\ age = [s \in Sessions |-> 0]
  /\ permits = MaxSessions
  /\ live = {}
  /\ owner = [s \in Sessions |-> Nobody]
  /\ mistaken = {} /\ unnamed = {} /\ orphans = {}
  /\ waited = [r \in Requests |-> 0]

-----------------------------------------------------------------------------
(* The decisions of the handler, each with the slip a rewrite could make.  *)

Bound == {s \in Sessions : binding[s] # Nobody}

(* A lookup is good only for the principal the session is bound to. *)
Admits_AnyPrincipal(s, p) == binding[s] # Nobody
Admits(s, p) == binding[s] = p

(* retain keeps the bindings seen within SESSION_BINDING_IDLE. *)
Expired_Late(s) == binding[s] # Nobody /\ age[s] > Idle + 1
Expired_Never(s) == FALSE
Expired(s) == binding[s] # Nobody /\ age[s] > Idle

(* try_acquire_owned succeeds while a permit is left. *)
CanReserve_Always == TRUE
CanReserve == permits > 0

(* A created session is never inserted over an existing binding. *)
Insertable_Overwrite(s) == TRUE
Insertable(s) == binding[s] = Nobody

(* The response that ends a binding: a successful DELETE, or any 404. *)
EndsBinding_NotFoundOnly(r) == status[r] = "not_found"
EndsBinding(r) ==
  \/ method[r] = "DELETE" /\ status[r] = "success"
  \/ status[r] = "not_found"

(* A failed creation closes the session that its response names. *)
ClosedByRefusal_None(r) == {}
ClosedByRefusal(r) == {reply[r]} \cap Sessions

(* Dropping the request drops the permit it owns. *)
PermitsOf_Leaked(r) == 0
PermitsOf(r) == IF r \in holding THEN 1 ELSE 0

-----------------------------------------------------------------------------
(* A request that is over: its future is gone and with it its permit. *)
End(r, how) ==
  /\ pc' = [pc EXCEPT ![r] = how]
  /\ permits' = permits + PermitsOf(r)
  /\ holding' = holding \ {r}

(* What the handler knew of its request goes with it. *)
Forget(r) ==
  /\ caller' = [caller EXCEPT ![r] = Nobody]
  /\ header' = [header EXCEPT ![r] = NoSession]
  /\ method' = [method EXCEPT ![r] = "POST"]
  /\ status' = [status EXCEPT ![r] = "none"]
  /\ reply' = [reply EXCEPT ![r] = NoSession]

(* A request arrives with whatever headers the client chose. Without a     *)
(* session nothing asks for its method until rmcp refuses it.              *)
Arrive(r, p, s, m) ==
  /\ pc[r] = "idle"
  /\ m = "DELETE" => s \in Sessions
  /\ pc' = [pc EXCEPT ![r] = "verify"]
  /\ caller' = [caller EXCEPT ![r] = p]
  /\ header' = [header EXCEPT ![r] = s]
  /\ method' = [method EXCEPT ![r] = m]
  /\ UNCHANGED <<holding, status, reply, waited, orphans>>
  /\ UNCHANGED <<tableVars, rmcpVars, mode>>

(* bearer_token or verify_bearer failed: no state was touched. *)
RefuseCredential(r) ==
  /\ pc[r] = "verify"
  /\ pc' = [pc EXCEPT ![r] = "unauthorized"]
  /\ Forget(r)
  /\ UNCHANGED <<holding, waited, tableVars, rmcpVars, orphans, mode>>

(* Refused after verification: a malformed session header; in stateless    *)
(* mode any session header; in stateful mode a session that is not bound   *)
(* or is bound to another principal.                                       *)
RefuseSession(r) ==
  /\ pc[r] = "verify"
  /\ header[r] # NoSession
  /\ \/ header[r] = BadSession
     \/ ~Stateful
     \/ Stateful /\ header[r] \in Sessions /\ ~Admits(header[r], caller[r])
  /\ pc' = [pc EXCEPT ![r] = "forbidden"]
  /\ Forget(r)
  /\ UNCHANGED <<holding, waited, tableVars, rmcpVars, orphans, mode>>

(* Under the write lock: the binding exists, is the caller's, and is seen. *)
(* Its idle time is not consulted here, only by the sweep.                 *)
LookupSession(r) ==
  /\ pc[r] = "verify" /\ Stateful
  /\ header[r] \in Sessions
  /\ Admits(header[r], caller[r])
  /\ age' = [age EXCEPT ![header[r]] = 0]
  /\ pc' = [pc EXCEPT ![r] = "forward"]
  /\ UNCHANGED <<caller, header, method, holding, status, reply, waited>>
  /\ UNCHANGED <<binding, permits, rmcpVars, orphans, mode>>

(* Under the write lock: expired bindings go and their permits come back. *)
SweepExpired(r) ==
  /\ pc[r] = "verify" /\ Stateful
  /\ header[r] = NoSession
  /\ LET swept == {s \in Sessions : Expired(s)}
     IN /\ binding' = [s \in Sessions |->
                         IF s \in swept THEN Nobody ELSE binding[s]]
        /\ age' = [s \in Sessions |-> IF s \in swept THEN 0 ELSE age[s]]
        /\ permits' = permits + Cardinality(swept)
        /\ orphans' = orphans \cup (swept \cap live)
  /\ pc' = [pc EXCEPT ![r] = "acquire"]
  /\ waited' = [waited EXCEPT ![r] = 0]
  /\ UNCHANGED <<caller, header, method, holding, status, reply, rmcpVars, mode>>

(* The lock is free again: another task may take the permit just swept. *)
ReservePermit(r) ==
  /\ pc[r] = "acquire"
  /\ CanReserve
  /\ permits' = permits - 1
  /\ holding' = holding \cup {r}
  /\ pc' = [pc EXCEPT ![r] = "forward"]
  /\ waited' = [waited EXCEPT ![r] = 0]
  /\ UNCHANGED <<caller, header, method, status, reply, binding, age>>
  /\ UNCHANGED <<rmcpVars, orphans, mode>>

RefuseCapacity(r) ==
  /\ pc[r] = "acquire"
  /\ ~CanReserve
  /\ pc' = [pc EXCEPT ![r] = "at_capacity"]
  /\ waited' = [waited EXCEPT ![r] = 0]
  /\ Forget(r)
  /\ UNCHANGED <<holding, tableVars, rmcpVars, orphans, mode>>

(* Stateless mode has no table: a request without the header goes on. *)
ForwardStateless(r) ==
  /\ pc[r] = "verify" /\ ~Stateful
  /\ header[r] = NoSession
  /\ pc' = [pc EXCEPT ![r] = "forward"]
  /\ UNCHANGED <<caller, header, method, holding, status, reply, waited>>
  /\ UNCHANGED <<tableVars, rmcpVars, orphans, mode>>

-----------------------------------------------------------------------------
(* next.run: the body bound and the rmcp service, external to the handler. *)

Respond(r, st, s) ==
  /\ pc' = [pc EXCEPT ![r] = "respond"]
  /\ status' = [status EXCEPT ![r] = st]
  /\ reply' = [reply EXCEPT ![r] = s]
  /\ UNCHANGED <<caller, header, method, holding, waited, orphans, tableVars, mode>>

(* bound_mcp_body answered 413, or rmcp refused the request; stateless     *)
(* service answers here as well and knows no sessions.                     *)
ServeWithoutSession(r) ==
  /\ pc[r] = "forward" /\ header[r] = NoSession
  /\ \/ Respond(r, "failure", NoSession)
     \/ ~Stateful /\ Respond(r, "success", NoSession)
  /\ UNCHANGED rmcpVars

(* rmcp answers a creation for which it made the sessions of made, and     *)
(* names in its response one of them, one that is bound already, none, or  *)
(* one that cannot be read.                                                *)
AnswerCreation(r, made) ==
  /\ pc[r] = "forward" /\ header[r] = NoSession /\ Stateful
  /\ live' = live \cup made
  /\ owner' = [s \in Sessions |-> IF s \in made THEN caller[r] ELSE owner[s]]
  /\ \E st \in {"success", "failure"},
        n \in made \cup Bound \cup {NoSession, BadSession} :
       /\ Respond(r, st, n)
       /\ mistaken' = mistaken \cup ({n} \cap Bound)
       /\ unnamed' = unnamed \cup (made \ {n})

(* initialize: rmcp makes a session under an id it never used before. *)
CreateSession(r, s) == owner[s] = Nobody /\ AnswerCreation(r, {s})

(* rmcp makes no session, whatever its response says. *)
CreateFaulty(r) == AnswerCreation(r, {})

(* A request in an existing session, answered with any session header:     *)
(* DELETE closes the session, and a session that is gone is a 404.         *)
ServeInSession(r) ==
  /\ pc[r] = "forward" /\ header[r] \in Sessions
  /\ \E n \in Sessions \cup {NoSession, BadSession} :
       \/ Respond(r, "failure", n) /\ UNCHANGED live
       \/ /\ header[r] \in live
          /\ Respond(r, "success", n)
          /\ live' = IF method[r] = "DELETE" THEN live \ {header[r]} ELSE live
       \/ /\ header[r] \notin live
          /\ Respond(r, "not_found", n) /\ UNCHANGED live
       \/ /\ header[r] \notin live /\ method[r] = "DELETE"
          /\ Respond(r, "success", n) /\ UNCHANGED live
       \/ /\ n \in Sessions \ {header[r]}
          /\ Respond(r, "success", n) /\ UNCHANGED live
  /\ UNCHANGED <<owner, mistaken, unnamed>>

(* A session's worker ends on its own: its keep-alive ran out or it failed. *)
SessionWorkerEnds(s) ==
  /\ s \in live
  /\ live' = live \ {s}
  /\ orphans' = orphans \ {s} /\ unnamed' = unnamed \ {s}
  /\ UNCHANGED <<requestVars, tableVars, owner, mistaken, mode>>

-----------------------------------------------------------------------------
(* Back in the handler with the response. *)

(* A creation succeeded: its permit moves into the table. *)
BindSession(r) ==
  /\ pc[r] = "respond" /\ r \in holding /\ status[r] = "success"
  /\ reply[r] \in Sessions /\ Insertable(reply[r])
  /\ binding' = [binding EXCEPT ![reply[r]] = caller[r]]
  /\ age' = [age EXCEPT ![reply[r]] = 0]
  /\ holding' = holding \ {r}
  /\ pc' = [pc EXCEPT ![r] = "answered"]
  /\ UNCHANGED <<caller, header, method, status, reply, waited>>
  /\ UNCHANGED <<permits, rmcpVars, orphans, mode>>

(* 503, permit freed: the session header cannot be read, whatever the      *)
(* status, or a success has no id or one that is bound. Nothing is closed. *)
RejectCreation(r) ==
  /\ pc[r] = "respond" /\ r \in holding
  /\ \/ reply[r] = BadSession
     \/ status[r] = "success" /\ reply[r] = NoSession
     \/ status[r] = "success" /\ reply[r] \in Sessions /\ ~Insertable(reply[r])
  /\ End(r, "unavailable")
  /\ Forget(r)
  /\ UNCHANGED <<waited>>
  /\ UNCHANGED <<binding, age, rmcpVars, orphans, mode>>

(* Creation failed and its response names no session: none is closed. *)
PassFailure(r) ==
  /\ pc[r] = "respond" /\ r \in holding /\ status[r] # "success"
  /\ reply[r] = NoSession
  /\ End(r, "answered")
  /\ UNCHANGED <<caller, header, method, status, reply, waited>>
  /\ UNCHANGED <<binding, age, rmcpVars, orphans, mode>>

(* Creation failed and its response names a session: the handler awaits    *)
(* the end of that session with the permit in hand ...                     *)
BeginClose(r) ==
  /\ pc[r] = "respond" /\ r \in holding /\ status[r] # "success"
  /\ reply[r] \in Sessions
  /\ pc' = [pc EXCEPT ![r] = "closing"]
  /\ UNCHANGED <<caller, header, method, holding, status, reply, waited>>
  /\ UNCHANGED <<tableVars, rmcpVars, orphans, mode>>

(* ... and does not ask whether it was closed. *)
CloseFailedCreation(r) ==
  /\ pc[r] = "closing"
  /\ \/ live' = live \ ClosedByRefusal(r) /\ UNCHANGED orphans
     \/ UNCHANGED live /\ orphans' = orphans \cup ({reply[r]} \cap live)
  /\ End(r, "answered")
  /\ UNCHANGED <<caller, header, method, status, reply, waited>>
  /\ UNCHANGED <<binding, age, owner, mistaken, unnamed, mode>>

(* The response names a session other than the one of the request, or one  *)
(* that cannot be read: 503, even when the session was deleted or is gone. *)
RejectForeignReply(r) ==
  /\ pc[r] = "respond" /\ Stateful /\ header[r] \in Sessions
  /\ reply[r] \notin {NoSession, header[r]}
  /\ pc' = [pc EXCEPT ![r] = "unavailable"]
  /\ Forget(r)
  /\ UNCHANGED <<holding, waited, tableVars, rmcpVars, orphans, mode>>

(* A request in an existing session returns; a deletion or a 404 removes   *)
(* the binding, if the sweep has not, and its permit comes back.           *)
FinishInSession(r) ==
  /\ pc[r] = "respond" /\ Stateful /\ header[r] \in Sessions
  /\ reply[r] \in {NoSession, header[r]}
  /\ pc' = [pc EXCEPT ![r] = "answered"]
  /\ IF EndsBinding(r) /\ binding[header[r]] # Nobody
     THEN /\ binding' = [binding EXCEPT ![header[r]] = Nobody]
          /\ age' = [age EXCEPT ![header[r]] = 0]
          /\ permits' = permits + 1
     ELSE UNCHANGED tableVars
  /\ UNCHANGED <<caller, header, method, holding, status, reply, waited>>
  /\ UNCHANGED <<rmcpVars, orphans, mode>>

FinishStateless(r) ==
  /\ pc[r] = "respond" /\ ~Stateful
  /\ pc' = [pc EXCEPT ![r] = "answered"]
  /\ UNCHANGED <<caller, header, method, holding, status, reply, waited>>
  /\ UNCHANGED <<tableVars, rmcpVars, orphans, mode>>

(* The client disconnects and hyper drops the future wherever it waits. *)
Cancel(r) ==
  /\ pc[r] \in Running
  /\ End(r, "idle")
  /\ orphans' = IF r \in holding
                THEN orphans \cup (({reply[r]} \cap live) \ Bound)
                ELSE orphans
  /\ Forget(r)
  /\ waited' = [waited EXCEPT ![r] = 0]
  /\ UNCHANGED <<binding, age, rmcpVars, mode>>

(* The response is written out and the task is reused for another request. *)
Leave(r) ==
  /\ pc[r] \in Final
  /\ pc' = [pc EXCEPT ![r] = "idle"]
  /\ Forget(r)
  /\ UNCHANGED <<holding, waited, tableVars, rmcpVars, orphans, mode>>

(* The clock: bindings age, capped at MaxAge. *)
Older(n) == IF n < MaxAge THEN n + 1 ELSE n

Tick ==
  /\ age' = [s \in Sessions |-> IF s \in Bound THEN Older(age[s]) ELSE 0]
  /\ waited' = [r \in Requests |->
                  IF pc[r] = "acquire" THEN Older(waited[r]) ELSE 0]
  /\ UNCHANGED <<pc, caller, header, method, holding, status, reply>>
  /\ UNCHANGED <<binding, permits, rmcpVars, orphans, mode>>

-----------------------------------------------------------------------------
(* The steps of the middleware itself on behalf of r. *)
Handle(r) ==
  \/ RefuseCredential(r)
  \/ RefuseSession(r)
  \/ LookupSession(r)
  \/ SweepExpired(r)
  \/ ReservePermit(r)
  \/ RefuseCapacity(r)
  \/ ForwardStateless(r)
  \/ BindSession(r)
  \/ RejectCreation(r)
  \/ PassFailure(r)
  \/ BeginClose(r)
  \/ CloseFailedCreation(r)
  \/ RejectForeignReply(r)
  \/ FinishInSession(r)
  \/ FinishStateless(r)

(* The steps of the rmcp service for r. *)
Rmcp(r) ==
  \/ ServeWithoutSession(r)
  \/ \E s \in Sessions : CreateSession(r, s)
  \/ CreateFaulty(r)
  \/ ServeInSession(r)

Next ==
  \/ \E r \in Requests :
       \/ \E p \in Principals, s \in Sessions \cup {NoSession, BadSession},
             m \in {"POST", "DELETE"} : Arrive(r, p, s, m)
       \/ Handle(r)
       \/ Rmcp(r)
       \/ Cancel(r)
       \/ Leave(r)
  \/ \E s \in Sessions : SessionWorkerEnds(s)
  \/ Tick

Spec == Init /\ [][Next]_vars

(* Time passes, and a task that is ready is polled: between the sweep and  *)
(* try_acquire_owned there is no await, so that step needs no other party. *)
Fairness ==
  /\ WF_vars(Tick)
  /\ \A r \in Requests : WF_vars(ReservePermit(r) \/ RefuseCapacity(r))

FairSpec == Spec /\ Fairness

-----------------------------------------------------------------------------
(* PROPERTIES *)

(* Every permit is in the semaphore, with one request that is creating a   *)
(* session, or in one binding: none is lost when a request is refused,     *)
(* cancelled or fails, and none is freed twice when a sweep, a deletion    *)
(* and a 404 meet at the same binding (router.rs 369-380, 401-438).        *)
PermitsConserved ==
  permits + Cardinality(Bound) + Cardinality(holding) = MaxSessions

(* A request past the lookup runs in a session that its own principal      *)
(* created, however the binding has been swept, deleted or looked up by    *)
(* others since, unless rmcp itself gave the id to two creations (router.rs *)
(* 353-367: "session.principal != binding").                               *)
ServedAsOwner ==
  \A r \in Requests :
    pc[r] \in {"forward", "respond"} /\ header[r] \in Sessions \ mistaken
      => owner[header[r]] = caller[r]

(* The capacity test runs on a swept table: what is still bound was seen   *)
(* within Idle of the sweep or after it, whatever other requests did       *)
(* between the two (router.rs 370-380). Idle sessions refuse nobody.       *)
CapacityTestIsFresh ==
  \A r \in Requests : pc[r] = "acquire" =>
    \A s \in Bound : age[s] <= Idle + waited[r]

(* When a client reads a successful DELETE or a 404 for its session, the   *)
(* session is bound no more and a successful DELETE ended it in rmcp too,  *)
(* whichever of two racing deletions came first, unless rmcp gave its id   *)
(* to another creation meanwhile (router.rs 434-439).                      *)
EndedIsGone ==
  \A r \in Requests :
    pc[r] = "answered" /\ header[r] \in Sessions \ mistaken =>
      /\ method[r] = "DELETE" /\ status[r] = "success" =>
           header[r] \notin Bound \cup live
      /\ status[r] = "not_found" => header[r] \notin Bound

(* A session alive in rmcp is bound or held by a request that will bind or *)
(* close it, or the middleware knows why not: its binding was swept, its   *)
(* creator disconnected first, its close failed, or rmcp never named it in *)
(* the creation's response, so that nobody could be let in. A creation     *)
(* whose response names its session is never refused with that session     *)
(* left alive (router.rs 394-426).                                         *)
NoSilentOrphan ==
  live \subseteq
    Bound \cup orphans \cup unnamed
      \cup {reply[r] : r \in {q \in holding : pc[q] \in {"respond", "closing"}}}

(* A session its client has abandoned leaves the table, and its permit     *)
(* with it, as long as somebody keeps asking for new sessions: the sweep   *)
(* is driven by creations alone (router.rs 369-374).                       *)
AbandonedIsReclaimed ==
  \A s \in Sessions :
    ([]<>(\E r \in Requests : pc[r] = "acquire")
      /\ <>[](\A r \in Requests : header[r] # s /\ reply[r] # s))
      => <>[](s \notin Bound)

(* The middleware implements the lease table: mapped to its leases and to  *)
(* the requests being served, every step is a lease step or a stutter      *)
(* (router.rs 340-446 against the contract its doc comment states 103-107).*)
InService(r) == pc[r] \in {"forward", "respond"} /\ header[r] \in Sessions

Serving ==
  [r \in Requests |-> IF InService(r) THEN <<header[r], caller[r]>> ELSE <<>>]

Leases == INSTANCE SessionLeases WITH lease <- binding, serving <- Serving

ImplementsLeases == Leases!LeaseSpec
=============================================================================
