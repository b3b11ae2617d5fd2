---------------------------- MODULE JwksVerifier ----------------------------
(***************************************************************************)
(* The Shared Auth key cache of ore-mcp-remote (verifier.rs): how a bearer *)
(* verification finds the key it needs while the cache ages, upstream      *)
(* rotates and revokes keys, fetches fail or are abandoned, and other      *)
(* verifications wait for the same refresh mutex.                          *)
(*                                                                         *)
(* A verification is a task suspended at every await. The reads made under *)
(* the refresh mutex are one action: only its holder writes the cache. The *)
(* checks of a token before and after the key is found touch no state: a   *)
(* verification here is a well-formed ES256 token that names a key.        *)
(***************************************************************************)
EXTENDS Naturals, Sequences

CONSTANTS
  Requests,   \* tasks that verify or warm at once
  Keys,       \* key ids
  NoKey,      \* the key of a warm() call
  NoCache,    \* the cache before the first key set
  NoOne,      \* holder of a free mutex
  Ttl,        \* DEFAULT_JWKS_TTL, in ticks
  Grace,      \* DEFAULT_JWKS_GRACE
  Backoff,    \* REFRESH_BACKOFF
  FetchMax,   \* the deadline of the HTTP client
  MaxGen      \* bound on the key sets served by upstream

ASSUME VerifierConstants ==
  /\ Ttl \in Nat /\ Grace \in Nat /\ Backoff \in Nat \ {0} /\ FetchMax \in Nat
  /\ MaxGen \in Nat /\ Ttl <= Grace
  /\ NoKey \notin Keys /\ NoOne \notin Requests

MaxAge == Grace + 1                  \* ages of key sets stop here
MaxGone == Grace + FetchMax + 1      \* and of withdrawn keys here

VARIABLES
  pc,         \* where each task is, or how its verification ended
  kid,        \* the key id in its token
  forced,     \* tasks that ask for a forced refresh
  stale,      \* the cache it read before asking for a refresh
  served,     \* the key set upstream answered its fetch with
  fetchAge,   \* ticks since its fetch began
  queue,      \* tasks waiting for the refresh mutex, first in first out
  holder,     \* the task that holds it
  cache,      \* CachedJwks: keys, ticks since fetched_at, and order of service
              \* (0 for keys given to the constructor, which are immutable)
  attempt,    \* ticks since the last attempt, Backoff when long ago or never
  published,  \* the keys upstream publishes
  gen,        \* history: number of key sets served
  gone,       \* history: ticks since each key was withdrawn
  absent,     \* history: tasks whose key was unpublished at some instant of the call
  sinceFetch  \* history: ticks since the last request to upstream

taskVars == <<pc, kid, forced, stale, served, fetchAge>>
lockVars == <<queue, holder>>
upstreamVars == <<published, gen, gone>>
vars == <<pc, kid, forced, stale, served, fetchAge, queue, holder, cache, attempt,
          published, gen, gone, absent, sinceFetch>>

KeySet == [keys : SUBSET Keys, age : 0..MaxAge, gen : 0..MaxGen]
Busy == {"read", "queued", "locked", "fetch", "received"}
InMutex == {"locked", "fetch", "received"}
Outcome == {"accepted", "unknown_key", "unavailable", "warmed"}

ASSUME NoCacheIsNoKeySet == NoCache \notin KeySet

StateTypes ==
  /\ pc \in [Requests -> {"idle"} \cup Busy \cup Outcome]
  /\ kid \in [Requests -> Keys \cup {NoKey}]
  /\ forced \in SUBSET Requests
  /\ stale \in [Requests -> KeySet \cup {NoCache}]
  /\ served \in [Requests -> KeySet \cup {NoCache}]
  /\ fetchAge \in [Requests -> 0..FetchMax]
  /\ holder \in Requests \cup {NoOne}
  /\ cache \in KeySet \cup {NoCache}
  /\ attempt \in 0..Backoff
  /\ published \in SUBSET Keys
  /\ gen \in 0..MaxGen
  /\ gone \in [Keys -> 0..MaxGone]
  /\ absent \in SUBSET Requests
  /\ sinceFetch \in 0..Backoff

(* The holder of the mutex is the task that runs under it (verifier.rs 253). *)
HolderFits == \A r \in Requests : pc[r] \in InMutex <=> holder = r

(* The tasks in its queue are the ones suspended on it, once each. *)
QueueFits ==
  /\ queue \in Seq(Requests)
  /\ \A r \in Requests : pc[r] = "queued" <=> \E i \in DOMAIN queue : queue[i] = r
  /\ \A i, j \in DOMAIN queue : queue[i] = queue[j] => i = j

(* Types, and the mutex's own bookkeeping (verifier.rs 102, 252-253). *)
TypeOK == StateTypes /\ HolderFits /\ QueueFits

Init ==
  /\ pc = [r \in Requests |-> "idle"]
  /\ kid = [r \in Requests |-> NoKey]
  /\ forced = {}
  /\ stale = [r \in Requests |-> NoCache]
  /\ served = [r \in Requests |-> NoCache]
  /\ fetchAge = [r \in Requests |-> 0]
  /\ queue = <<>> /\ holder = NoOne
  /\ attempt = Backoff /\ sinceFetch = Backoff
  /\ published \in SUBSET Keys
  /\ cache \in {NoCache} \cup [keys : SUBSET Keys \ {{}}, age : {0}, gen : {0}]
  /\ gen = 0
  /\ gone = [k \in Keys |-> IF k \in published THEN 0 ELSE MaxGone]
  /\ absent = {}

-----------------------------------------------------------------------------
(* The decisions, each with the slip a rewrite could make. *)

Immutable(c) == c # NoCache /\ c.gen = 0
Fresh(c) == c # NoCache /\ (Immutable(c) \/ c.age <= Ttl)

InGrace_Unchecked(c) == c # NoCache
InGrace(c) == c # NoCache /\ c.age <= Grace

InBackoff == attempt < Backoff

(* Under the mutex: another task refreshed meanwhile, or keys are static.  *)
Settled(r) == Immutable(cache) \/ (r \notin forced /\ Fresh(cache))

(* The attempt is stamped before the request goes out, not on its success. *)
StampAtStart_Omitted == attempt
StampAtStart == 0

(* tokio's mutex is handed to the task that has waited longest. *)
NextWaiter_Newest == queue[Len(queue)]
NextWaiter == Head(queue)

LockFree_Always == TRUE
LockFree == holder = NoOne

(* What becomes of a task that has a key set: a known key is accepted      *)
(* (authorize_claims decides the rest), an unknown one is final after a    *)
(* forced refresh or against static keys and asks for one otherwise.       *)
Verdict_NoRefresh(r, c) ==
  IF kid[r] = NoKey THEN "warmed" ELSE
  IF kid[r] \in c.keys THEN "accepted" ELSE "unknown_key"
Verdict(r, c) ==
  IF kid[r] = NoKey THEN "warmed" ELSE
  IF kid[r] \in c.keys THEN "accepted" ELSE
  IF r \in forced \/ Immutable(c) THEN "unknown_key" ELSE "queued"

-----------------------------------------------------------------------------
(* A task moves to `how`; "queued" joins the queue for a forced refresh.   *)
Become(r, how) ==
  /\ pc' = [pc EXCEPT ![r] = how]
  /\ queue' = IF how = "queued" THEN Append(queue, r) ELSE queue
  /\ forced' = IF how = "queued" THEN forced \cup {r} ELSE forced
  /\ stale' = [stale EXCEPT ![r] = NoCache]
  /\ served' = [served EXCEPT ![r] = NoCache]
  /\ fetchAge' = [fetchAge EXCEPT ![r] = 0]
  /\ UNCHANGED <<kid, absent>>

Use(r, c) == Become(r, Verdict(r, c))

(* refresh_keys(false) failed: current_keys falls back on what it had read. *)
FallBack(r) ==
  IF InGrace(stale[r]) THEN Use(r, stale[r]) ELSE Become(r, "unavailable")

Release == holder' = NoOne

Verify(r, k) ==
  /\ pc[r] = "idle"
  /\ pc' = [pc EXCEPT ![r] = "read"]
  /\ kid' = [kid EXCEPT ![r] = k]
  /\ absent' = IF k \in published THEN absent ELSE absent \cup {r}
  /\ UNCHANGED <<forced, stale, served, fetchAge, lockVars, cache, attempt>>
  /\ UNCHANGED <<upstreamVars, sinceFetch>>

(* warm() is a forced refresh without a token. *)
Warm(r) ==
  /\ pc[r] = "idle"
  /\ pc' = [pc EXCEPT ![r] = "queued"]
  /\ forced' = forced \cup {r}
  /\ queue' = Append(queue, r)
  /\ UNCHANGED <<kid, stale, served, fetchAge, holder, cache, attempt>>
  /\ UNCHANGED <<upstreamVars, absent, sinceFetch>>

(* current_keys: a fresh cache is used at once. *)
UseFresh(r) ==
  /\ pc[r] = "read"
  /\ Fresh(cache)
  /\ Use(r, cache)
  /\ UNCHANGED <<holder, cache, attempt, upstreamVars, sinceFetch>>

(* current_keys: anything else is remembered and a refresh asked for. *)
AskRefresh(r) ==
  /\ pc[r] = "read"
  /\ ~Fresh(cache)
  /\ pc' = [pc EXCEPT ![r] = "queued"]
  /\ stale' = [stale EXCEPT ![r] = cache]
  /\ queue' = Append(queue, r)
  /\ UNCHANGED <<kid, forced, served, fetchAge, holder, cache, attempt>>
  /\ UNCHANGED <<upstreamVars, absent, sinceFetch>>

Acquire(r) ==
  /\ pc[r] = "queued"
  /\ LockFree
  /\ queue # <<>> /\ r = NextWaiter
  /\ holder' = r
  /\ queue' = SelectSeq(queue, LAMBDA q : q # r)
  /\ pc' = [pc EXCEPT ![r] = "locked"]
  /\ UNCHANGED <<kid, forced, stale, served, fetchAge, cache, attempt>>
  /\ UNCHANGED <<upstreamVars, absent, sinceFetch>>

UseRefreshed(r) ==
  /\ pc[r] = "locked"
  /\ Settled(r)
  /\ Release
  /\ Use(r, cache)
  /\ UNCHANGED <<cache, attempt, upstreamVars, sinceFetch>>

(* A forced refresh within the backoff is refused, whatever the cache.     *)
RefuseForced(r) ==
  /\ pc[r] = "locked" /\ ~Settled(r)
  /\ r \in forced /\ InBackoff
  /\ Release
  /\ Become(r, "unavailable")
  /\ UNCHANGED <<cache, attempt, upstreamVars, sinceFetch>>

(* An ordinary one makes do with the cache while it is in grace. *)
UseInBackoff(r) ==
  /\ pc[r] = "locked" /\ ~Settled(r)
  /\ r \notin forced /\ InBackoff
  /\ Release
  /\ IF InGrace(cache) THEN Use(r, cache) ELSE FallBack(r)
  /\ UNCHANGED <<cache, attempt, upstreamVars, sinceFetch>>

StartFetch(r) ==
  /\ pc[r] = "locked" /\ ~Settled(r)
  /\ ~InBackoff
  /\ attempt' = StampAtStart
  /\ sinceFetch' = 0
  /\ pc' = [pc EXCEPT ![r] = "fetch"]
  /\ UNCHANGED <<kid, forced, stale, served, fetchAge, lockVars, cache>>
  /\ UNCHANGED <<upstreamVars, absent>>

NewKeySet == [keys |-> published, age |-> 0, gen |-> gen + 1]

(* Upstream reads its keys; parse_jwks will take any non-empty set. *)
ServeKeys(r) ==
  /\ pc[r] = "fetch"
  /\ published # {} /\ gen < MaxGen
  /\ gen' = gen + 1
  /\ served' = [served EXCEPT ![r] = NewKeySet]
  /\ pc' = [pc EXCEPT ![r] = "received"]
  /\ UNCHANGED <<kid, forced, stale, fetchAge, lockVars, cache, attempt>>
  /\ UNCHANGED <<published, gone, absent, sinceFetch>>

(* The response is complete: it is dated now and replaces the cache. *)
FetchSucceeds(r) ==
  /\ pc[r] = "received"
  /\ cache' = served[r]
  /\ attempt' = attempt
  /\ Release
  /\ Use(r, served[r])
  /\ UNCHANGED <<upstreamVars, sinceFetch>>

(* Deadline, transport, status, oversize or parse failure. *)
FetchFails(r) ==
  /\ pc[r] \in {"fetch", "received"}
  /\ Release
  /\ IF r \in forced THEN Become(r, "unavailable") ELSE FallBack(r)
  /\ UNCHANGED <<cache, attempt, upstreamVars, sinceFetch>>

Forget(r) ==
  /\ pc' = [pc EXCEPT ![r] = "idle"]
  /\ kid' = [kid EXCEPT ![r] = NoKey]
  /\ forced' = forced \ {r}
  /\ stale' = [stale EXCEPT ![r] = NoCache]
  /\ served' = [served EXCEPT ![r] = NoCache]
  /\ fetchAge' = [fetchAge EXCEPT ![r] = 0]
  /\ absent' = absent \ {r}

(* The request is dropped: its place in the queue, the mutex and the fetch *)
(* go with it; the stamp of the attempt stays.                             *)
Cancel(r) ==
  /\ pc[r] \in Busy
  /\ Forget(r)
  /\ queue' = SelectSeq(queue, LAMBDA q : q # r)
  /\ holder' = IF holder = r THEN NoOne ELSE holder
  /\ UNCHANGED <<cache, attempt, upstreamVars, sinceFetch>>

Return(r) ==
  /\ pc[r] \in Outcome
  /\ Forget(r)
  /\ UNCHANGED <<lockVars, cache, attempt, upstreamVars, sinceFetch>>

(* Shared Auth rotates its keys. *)
Publish(k) ==
  /\ k \notin published
  /\ published' = published \cup {k}
  /\ gone' = [gone EXCEPT ![k] = 0]
  /\ UNCHANGED <<taskVars, lockVars, cache, attempt, gen, absent, sinceFetch>>

Withdraw(k) ==
  /\ k \in published
  /\ published' = published \ {k}
  /\ absent' = absent \cup {r \in Requests : kid[r] = k}
  /\ UNCHANGED <<taskVars, lockVars, cache, attempt, gen, gone, sinceFetch>>

Older(n, cap) == IF n < cap THEN n + 1 ELSE n
OlderSet(c) == IF c = NoCache \/ Immutable(c) THEN c ELSE [c EXCEPT !.age = Older(@, MaxAge)]

(* A fetch never outlives the deadline of its client. *)
Tick ==
  /\ \A r \in Requests : pc[r] \in {"fetch", "received"} => fetchAge[r] < FetchMax
  /\ cache' = OlderSet(cache)
  /\ stale' = [r \in Requests |-> OlderSet(stale[r])]
  /\ fetchAge' = [r \in Requests |->
       IF pc[r] \in {"fetch", "received"} THEN Older(fetchAge[r], FetchMax) ELSE 0]
  /\ attempt' = Older(attempt, Backoff)
  /\ sinceFetch' = Older(sinceFetch, Backoff)
  /\ gone' = [k \in Keys |-> IF k \in published THEN 0 ELSE Older(gone[k], MaxGone)]
  /\ UNCHANGED <<pc, kid, forced, served, lockVars, published, gen, absent>>

-----------------------------------------------------------------------------
Progress(r) ==
  \/ UseFresh(r) \/ AskRefresh(r)
  \/ Acquire(r) \/ UseRefreshed(r)
  \/ RefuseForced(r) \/ UseInBackoff(r)
  \/ StartFetch(r) \/ FetchSucceeds(r) \/ FetchFails(r)

Next ==
  \/ \E r \in Requests :
       \/ \E k \in Keys : Verify(r, k)
       \/ Warm(r)
       \/ Progress(r)
       \/ ServeKeys(r)
       \/ Cancel(r)
       \/ Return(r)
  \/ \E k \in Keys : Publish(k) \/ Withdraw(k)
  \/ Tick

Spec == Init /\ [][Next]_vars

(* A ready task is polled, and the HTTP client ends every fetch: with its  *)
(* response or at the deadline. Nothing is assumed of upstream.            *)
FairSpec == Spec /\ \A r \in Requests : WF_vars(Progress(r))

-----------------------------------------------------------------------------
(* PROPERTIES *)

(* Requests to upstream are at least Backoff apart, even when they fail or *)
(* the task that made one is dropped in the middle (verifier.rs 277-291).  *)
FetchesSpaced ==
  [][\A r \in Requests :
       pc[r] = "locked" /\ pc'[r] = "fetch" => sinceFetch >= Backoff]_vars

(* A token is accepted only under a key that upstream has published within *)
(* the grace period, plus the time one fetch may take because a key set is *)
(* dated when it arrives (verifier.rs 236-250, 280-290, 307-311).          *)
WithdrawnKeysAgeOut ==
  [][~Immutable(cache) => \A r \in Requests :
       pc[r] # "accepted" /\ pc'[r] = "accepted"
         => gone[kid[r]] <= Grace + FetchMax]_vars

(* "the result remains indeterminate rather than being mislabeled as a bad *)
(* credential": a token is called bad for its unknown key only if that key *)
(* was unpublished at some instant of the call (verifier.rs 192-195).      *)
UnknownKeyIsTrue ==
  \A r \in Requests : pc[r] = "unknown_key" /\ ~Immutable(cache) => r \in absent

(* "Static keys never trigger network access and remain ready": no call of  *)
(* a static verifier, warm() included, goes out or finds the authority      *)
(* unavailable (verifier.rs 136-137).                                       *)
StaticStaysOffline ==
  Immutable(cache) => \A r \in Requests : pc[r] \notin {"fetch", "received", "unavailable"}

(* No verdict is made up, neither of the token nor of the authority. *)
VerdictsAreTrue == UnknownKeyIsTrue /\ StaticStaysOffline

(* The cache never goes back to a key set served before the one it holds,  *)
(* so a key seen withdrawn does not come back (verifier.rs 307-312).       *)
CacheNeverRegresses ==
  [][cache # NoCache => cache' # NoCache /\ cache'.gen >= cache.gen]_vars

(* Every verification and every warm() ends or is dropped by its caller,   *)
(* whatever upstream does and however many tasks contend for the mutex.    *)
EveryCallReturns ==
  \A r \in Requests : (pc[r] \in Busy) ~> (pc[r] \notin Busy)
=============================================================================
