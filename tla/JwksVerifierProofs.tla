------------------------- MODULE JwksVerifierProofs -------------------------
(* What the key cache guarantees for any number of tasks, keys and ticks.  *)
EXTENDS JwksVerifier, TLAPS

(* Only a task that was given its key set before the last one is behind:   *)
(* the one that holds the mutex has the newest.                            *)
ServedInOrder ==
  /\ cache # NoCache => cache.gen <= gen
  /\ \A r \in Requests :
       pc[r] = "received" => served[r] \in KeySet /\ served[r].gen = gen /\ gen > 0

(* The stamp of an attempt is that of the request it led to. *)
StampIsTrue == attempt = sinceFetch

(* A task starts without a key and without force, and a key that was not   *)
(* published when it began, when upstream answered it, or now, was absent  *)
(* at some instant of its call.                                            *)
AbsenceSeen ==
  \A r \in Requests :
    /\ pc[r] = "idle" => kid[r] = NoKey
    /\ pc[r] \in {"idle", "read"} => r \notin forced
    /\ pc[r] \in Busy /\ kid[r] \in Keys /\ kid[r] \notin published => r \in absent
    /\ pc[r] = "received" /\ kid[r] \in Keys /\ kid[r] \notin served[r].keys
         => r \in absent

(* The keys of a set were withdrawn at most its age ago, and the time of   *)
(* the fetch that brought it. Only a static verifier has immutable keys.   *)
AgesWith(c) == c # NoCache => \A k \in c.keys : gone[k] <= c.age + FetchMax

KeysAge ==
  /\ \A k \in published : gone[k] = 0
  /\ ~Immutable(cache) =>
       /\ AgesWith(cache)
       /\ \A r \in Requests :
            /\ ~Immutable(stale[r]) /\ AgesWith(stale[r])
            /\ pc[r] = "received" => \A k \in served[r].keys : gone[k] <= fetchAge[r]

VerifierInv ==
  /\ StateTypes
  /\ HolderFits
  /\ ServedInOrder
  /\ StampIsTrue
  /\ AbsenceSeen
  /\ KeysAge
  /\ UnknownKeyIsTrue
  /\ StaticStaysOffline

-----------------------------------------------------------------------------
(* Nobody has begun: the cache is empty or immutable. *)
LEMMA VerifierInit == Init => VerifierInv
<1> SUFFICES ASSUME Init PROVE VerifierInv
  OBVIOUS
<1>1. cache \in KeySet \cup {NoCache} /\ (cache # NoCache => cache.gen <= gen)
      /\ (cache # NoCache => cache.gen = 0)
  <2>1. CASE cache = NoCache
    BY <2>1
  <2>2. CASE cache # NoCache
    <3>1. /\ cache = [keys |-> cache.keys, age |-> 0, gen |-> 0]
          /\ cache.keys \in SUBSET Keys
      BY <2>2 DEF Init
    <3>2. 0 \in 0..MaxAge /\ 0 \in 0..MaxGen /\ gen = 0
      BY VerifierConstants DEF MaxAge, Init
    <3>3. cache.gen = 0
      BY <3>1
    <3> QED BY <3>1, <3>2, <3>3 DEF KeySet
  <2> QED BY <2>1, <2>2
<1>2. StateTypes
  BY <1>1, VerifierConstants DEF Init, StateTypes, Busy, Outcome, MaxAge, MaxGone
<1>3. HolderFits
  BY VerifierConstants DEF Init, HolderFits, InMutex
<1> QED
  BY <1>1, <1>2, <1>3, VerifierConstants DEF Init, VerifierInv, ServedInOrder, StampIsTrue,
     AbsenceSeen, KeysAge, AgesWith, UnknownKeyIsTrue, StaticStaysOffline, Busy, Immutable

(* A task that leaves its refresh or its read with a verdict. *)
LEMMA BecomeKeeps ==
  ASSUME VerifierInv, NEW r \in Requests, NEW how \in {"queued"} \cup Outcome,
         Become(r, how),
         UNCHANGED <<attempt, published, gen, gone, sinceFetch>>,
         \/ pc[r] = "read" /\ holder' = holder
         \/ pc[r] \in InMutex /\ holder' = NoOne,
         \/ cache' = cache
         \/ pc[r] = "received" /\ cache' = served[r] /\ ~Immutable(cache'),
         how = "unknown_key" /\ ~Immutable(cache') => r \in absent,
         Immutable(cache') => how # "unavailable"
  PROVE  VerifierInv'
<1> USE DEF VerifierInv
<1>1. /\ pc' = [pc EXCEPT ![r] = how]
      /\ stale' = [stale EXCEPT ![r] = NoCache]
      /\ served' = [served EXCEPT ![r] = NoCache]
      /\ fetchAge' = [fetchAge EXCEPT ![r] = 0]
      /\ UNCHANGED <<kid, absent>>
  BY DEF Become
<1>2. forced' \in SUBSET Requests /\ \A q \in Requests \ {r} : q \in forced' <=> q \in forced
  BY DEF Become, StateTypes
<1>3. cache' \in KeySet \cup {NoCache} /\ (cache' # NoCache => cache'.gen <= gen)
  BY DEF StateTypes, ServedInOrder
<1>4. StateTypes'
  BY <1>1, <1>2, <1>3, VerifierConstants DEF StateTypes, Outcome, Busy
<1>5. HolderFits'
  BY <1>1, VerifierConstants DEF HolderFits, StateTypes, InMutex, Outcome
<1>6. ServedInOrder'
  BY <1>1, <1>3 DEF ServedInOrder, StateTypes, Outcome
<1>7. AbsenceSeen' /\ StampIsTrue'
  BY <1>1, <1>2 DEF AbsenceSeen, StampIsTrue, StateTypes, Outcome, Busy, InMutex
<1>8. ~Immutable(cache') => AgesWith(cache)'
  <2> SUFFICES ASSUME ~Immutable(cache'), cache' # NoCache, NEW k \in cache'.keys
               PROVE  gone[k] <= cache'.age + FetchMax
    BY DEF AgesWith
  <2>1. CASE cache' = cache
    BY <2>1 DEF KeysAge, AgesWith
  <2>2. CASE pc[r] = "received" /\ cache' = served[r]
    <3>1. ~Immutable(cache)
      BY <2>2 DEF StaticStaysOffline
    <3>2. gone[k] <= fetchAge[r]
      BY <2>2, <3>1 DEF KeysAge
    <3>3. served[r] \in KeySet
      BY <2>2 DEF ServedInOrder
    <3>4. k \in Keys /\ served[r].age \in Nat
      BY <2>2, <3>3 DEF KeySet
    <3>5. gone[k] \in Nat /\ fetchAge[r] \in 0..FetchMax /\ FetchMax \in Nat
      BY <3>4, VerifierConstants DEF StateTypes
    <3> QED BY <2>2, <3>2, <3>4, <3>5
  <2> QED BY <2>1, <2>2
<1>9. KeysAge'
  <2>1. ~Immutable(cache') => ~Immutable(cache)
    BY DEF StaticStaysOffline
  <2>2. \A q \in Requests : /\ AgesWith(stale[q]) => AgesWith(stale[q])'
                            /\ ~Immutable(stale[q]) => ~Immutable(stale'[q])
                            /\ pc'[q] = "received" => pc[q] = "received" /\ q # r
    BY <1>1 DEF AgesWith, Immutable, StateTypes, Outcome
  <2> QED
    BY <1>1, <1>8, <2>1, <2>2 DEF KeysAge, StateTypes
<1>10. UnknownKeyIsTrue' /\ StaticStaysOffline'
  BY <1>1 DEF UnknownKeyIsTrue, StaticStaysOffline, StateTypes, Outcome, Immutable
<1> QED
  BY <1>4, <1>5, <1>6, <1>7, <1>9, <1>10

(* A verdict on a token is an outcome or a forced refresh; it condemns an   *)
(* unknown key only after a forced refresh or with immutable keys.          *)
LEMMA VerdictFits ==
  ASSUME NEW r \in Requests, NEW c
  PROVE  /\ Verdict(r, c) \in {"queued", "accepted", "unknown_key", "warmed"}
         /\ Verdict(r, c) = "unknown_key" =>
              /\ kid[r] # NoKey /\ kid[r] \notin c.keys
              /\ r \in forced \/ Immutable(c)
         /\ Verdict(r, c) = "accepted" => kid[r] # NoKey /\ kid[r] \in c.keys
BY DEF Verdict

(* A tick leaves a key set what it was, a tick older. *)
LEMMA OlderSetFits ==
  ASSUME NEW c \in KeySet \cup {NoCache}
  PROVE  /\ OlderSet(c) \in KeySet \cup {NoCache}
         /\ OlderSet(c) = NoCache <=> c = NoCache
         /\ Immutable(OlderSet(c)) <=> Immutable(c)
         /\ c # NoCache =>
              /\ OlderSet(c).keys = c.keys /\ OlderSet(c).gen = c.gen
              /\ ~Immutable(c) => OlderSet(c).age = IF c.age < MaxAge THEN c.age + 1 ELSE c.age
<1>1. CASE c = NoCache \/ Immutable(c)
  BY <1>1 DEF OlderSet, Immutable
<1>2. CASE c # NoCache /\ ~Immutable(c)
  <2>1. c \in KeySet /\ MaxAge \in Nat
    BY <1>2, VerifierConstants DEF MaxAge
  <2>2. OlderSet(c) = [c EXCEPT !.age = IF c.age < MaxAge THEN c.age + 1 ELSE c.age]
    BY <1>2 DEF OlderSet, Older
  <2>3. OlderSet(c) \in KeySet
    BY <2>1, <2>2 DEF KeySet
  <2> QED
    BY <1>2, <2>1, <2>2, <2>3, NoCacheIsNoKeySet DEF KeySet, Immutable
<1> QED BY <1>1, <1>2

(* The ages of keys and key sets grow together. *)
LEMMA TickAges ==
  ASSUME VerifierInv, Tick, NEW c \in KeySet \cup {NoCache}, ~Immutable(c), AgesWith(c),
         c # NoCache, NEW k \in c.keys
  PROVE  gone'[k] <= OlderSet(c).age + FetchMax
<1>1. c \in KeySet /\ k \in Keys /\ c.age \in 0..MaxAge
  BY DEF KeySet
<1>2. gone[k] <= c.age + FetchMax /\ gone[k] \in 0..MaxGone
  BY <1>1 DEF AgesWith, VerifierInv, StateTypes
<1>3. OlderSet(c).age = IF c.age < MaxAge THEN c.age + 1 ELSE c.age
  BY OlderSetFits
<1>4. gone'[k] = IF k \in published THEN 0 ELSE IF gone[k] < MaxGone THEN gone[k] + 1 ELSE gone[k]
  BY <1>1 DEF Tick, Older
<1> QED
  BY <1>1, <1>2, <1>3, <1>4, VerifierConstants DEF MaxAge, MaxGone

-----------------------------------------------------------------------------
(* A task begins, joins the queue, or takes the mutex: no key set changes  *)
(* hands but the one it may remember.                                      *)
LEMMA WaitKeeps ==
  ASSUME VerifierInv, NEW r \in Requests,
         (\E k \in Keys : Verify(r, k)) \/ Warm(r) \/ AskRefresh(r) \/ Acquire(r)
  PROVE  VerifierInv'
<1> USE DEF VerifierInv
<1>1. CASE \E k \in Keys : Verify(r, k)
  <2> PICK k \in Keys : Verify(r, k)
    BY <1>1
  <2> USE DEF Verify, taskVars, lockVars, upstreamVars
  <2>1. StateTypes'
    BY DEF StateTypes, Busy
  <2>2. HolderFits' /\ ServedInOrder' /\ StampIsTrue'
    BY DEF HolderFits, ServedInOrder, StampIsTrue, StateTypes, InMutex
  <2>3. AbsenceSeen'
    BY DEF AbsenceSeen, StateTypes, Busy
  <2>4. KeysAge'
    BY DEF KeysAge, AgesWith, StateTypes
  <2>5. UnknownKeyIsTrue' /\ StaticStaysOffline'
    BY DEF UnknownKeyIsTrue, StaticStaysOffline, StateTypes
  <2> QED BY <2>1, <2>2, <2>3, <2>4, <2>5
<1>2. CASE Warm(r)
  <2> USE <1>2 DEF Warm, taskVars, lockVars, upstreamVars
  <2>1. StateTypes'
    BY DEF StateTypes, Busy
  <2>2. HolderFits' /\ ServedInOrder' /\ StampIsTrue'
    BY DEF HolderFits, ServedInOrder, StampIsTrue, StateTypes, InMutex
  <2>3. AbsenceSeen'
    BY VerifierConstants DEF AbsenceSeen, StateTypes, Busy
  <2>4. KeysAge'
    BY DEF KeysAge, AgesWith, StateTypes
  <2>5. UnknownKeyIsTrue' /\ StaticStaysOffline'
    BY DEF UnknownKeyIsTrue, StaticStaysOffline, StateTypes
  <2> QED BY <2>1, <2>2, <2>3, <2>4, <2>5
<1>3. CASE AskRefresh(r)
  <2> USE <1>3 DEF AskRefresh, taskVars, lockVars, upstreamVars
  <2>1. StateTypes'
    BY DEF StateTypes, Busy
  <2>2. HolderFits' /\ ServedInOrder' /\ StampIsTrue'
    BY DEF HolderFits, ServedInOrder, StampIsTrue, StateTypes, InMutex
  <2>3. AbsenceSeen'
    BY DEF AbsenceSeen, StateTypes, Busy
  <2>4. KeysAge'
    BY DEF KeysAge, AgesWith, StateTypes
  <2>5. UnknownKeyIsTrue' /\ StaticStaysOffline'
    BY DEF UnknownKeyIsTrue, StaticStaysOffline, StateTypes
  <2> QED BY <2>1, <2>2, <2>3, <2>4, <2>5
<1>4. CASE Acquire(r)
  <2> USE <1>4 DEF Acquire, taskVars, lockVars, upstreamVars
  <2>1. StateTypes'
    BY DEF StateTypes, Busy
  <2>2. HolderFits' /\ ServedInOrder' /\ StampIsTrue'
    BY VerifierConstants
       DEF HolderFits, ServedInOrder, StampIsTrue, StateTypes, InMutex, LockFree
  <2>3. AbsenceSeen'
    BY DEF AbsenceSeen, StateTypes, Busy
  <2>4. KeysAge'
    BY DEF KeysAge, AgesWith, StateTypes
  <2>5. UnknownKeyIsTrue' /\ StaticStaysOffline'
    BY DEF UnknownKeyIsTrue, StaticStaysOffline, StateTypes
  <2> QED BY <2>1, <2>2, <2>3, <2>4, <2>5
<1> QED BY <1>1, <1>2, <1>3, <1>4

(* The holder of the mutex goes out to upstream, and upstream answers.     *)
LEMMA FetchKeeps ==
  ASSUME VerifierInv, NEW r \in Requests, StartFetch(r) \/ ServeKeys(r)
  PROVE  VerifierInv'
<1> USE DEF VerifierInv
<1>1. CASE StartFetch(r)
  <2> USE <1>1 DEF StartFetch, taskVars, lockVars, upstreamVars
  <2>1. StateTypes'
    BY VerifierConstants DEF StateTypes, Busy, StampAtStart
  <2>2. HolderFits' /\ ServedInOrder' /\ StampIsTrue'
    BY DEF HolderFits, ServedInOrder, StampIsTrue, StateTypes, InMutex, StampAtStart
  <2>3. AbsenceSeen'
    BY DEF AbsenceSeen, StateTypes, Busy
  <2>4. KeysAge'
    BY DEF KeysAge, AgesWith, StateTypes
  <2>5. UnknownKeyIsTrue' /\ StaticStaysOffline'
    BY DEF UnknownKeyIsTrue, StaticStaysOffline, StateTypes, Settled
  <2> QED BY <2>1, <2>2, <2>3, <2>4, <2>5
<1>2. CASE ServeKeys(r)
  <2> USE <1>2 DEF ServeKeys, taskVars, lockVars, upstreamVars
  <2>1. NewKeySet \in KeySet /\ NewKeySet.keys = published /\ NewKeySet.gen = gen + 1
    BY VerifierConstants DEF NewKeySet, KeySet, MaxAge, StateTypes
  <2>2. StateTypes'
    BY <2>1, VerifierConstants DEF StateTypes, Busy
  <2>3. HolderFits' /\ StampIsTrue'
    BY DEF HolderFits, StampIsTrue, StateTypes, InMutex
  <2>4. \A q \in Requests : pc'[q] = "received" => q = r
    BY DEF HolderFits, StateTypes, InMutex
  <2>5. ServedInOrder'
    <3>1. gen \in Nat /\ (cache # NoCache => cache.gen \in Nat)
      BY VerifierConstants DEF StateTypes, KeySet
    <3>2. served'[r] = NewKeySet
      BY DEF StateTypes
    <3> QED BY <2>1, <2>4, <3>1, <3>2 DEF ServedInOrder
  <2>6. AbsenceSeen'
    BY <2>1, <2>4 DEF AbsenceSeen, StateTypes, Busy
  <2>7. KeysAge'
    BY <2>1, <2>4, VerifierConstants DEF KeysAge, AgesWith, StateTypes
  <2>8. UnknownKeyIsTrue' /\ StaticStaysOffline'
    BY DEF UnknownKeyIsTrue, StaticStaysOffline, StateTypes
  <2> QED BY <2>2, <2>3, <2>5, <2>6, <2>7, <2>8
<1> QED BY <1>1, <1>2

(* A task leaves the verifier's cache with a verdict, or asks again.       *)
LEMMA LeaveKeeps ==
  ASSUME VerifierInv, NEW r \in Requests,
         \/ UseFresh(r) \/ UseRefreshed(r) \/ RefuseForced(r) \/ UseInBackoff(r)
         \/ FetchSucceeds(r) \/ FetchFails(r)
  PROVE  VerifierInv'
<1> USE DEF upstreamVars, Use, Release
<1>1. UNCHANGED <<published, gen, gone, sinceFetch, attempt>>
  BY DEF UseFresh, UseRefreshed, RefuseForced, UseInBackoff, FetchSucceeds, FetchFails
<1>2. CASE UseFresh(r)
  <2>1. r \notin forced /\ cache' = cache /\ pc[r] = "read" /\ holder' = holder
    BY <1>2 DEF UseFresh, VerifierInv, AbsenceSeen
  <2> DEFINE how == Verdict(r, cache)
  <2>2. Become(r, how)
    BY <1>2 DEF UseFresh
  <2>3. /\ how \in {"queued"} \cup Outcome /\ how # "unavailable"
        /\ how = "unknown_key" => Immutable(cache)
    BY <2>1, VerdictFits DEF Outcome
  <2> HIDE DEF how
  <2> QED BY <1>1, <2>1, <2>2, <2>3, BecomeKeeps
<1>3. CASE UseRefreshed(r)
  <2>1. cache' = cache /\ pc[r] \in InMutex /\ holder' = NoOne
    BY <1>3 DEF UseRefreshed, InMutex
  <2> DEFINE how == Verdict(r, cache)
  <2>2. Become(r, how)
    BY <1>3 DEF UseRefreshed
  <2>3. /\ how \in {"queued"} \cup Outcome /\ how # "unavailable"
        /\ how = "unknown_key" => Immutable(cache)
    BY <1>3, VerdictFits DEF Outcome, UseRefreshed, Settled
  <2> HIDE DEF how
  <2> QED BY <1>1, <2>1, <2>2, <2>3, BecomeKeeps
<1>4. CASE RefuseForced(r)
  <2>1. cache' = cache /\ pc[r] \in InMutex /\ holder' = NoOne /\ ~Immutable(cache)
    BY <1>4 DEF RefuseForced, InMutex, Settled
  <2>2. Become(r, "unavailable")
    BY <1>4 DEF RefuseForced
  <2> QED BY <1>1, <2>1, <2>2, BecomeKeeps DEF Outcome
<1>5. ASSUME r \notin forced, pc[r] \in InMutex, cache' = cache, holder' = NoOne, FallBack(r),
             ~Immutable(cache)
      PROVE  VerifierInv'
  <2> DEFINE how == Verdict(r, stale[r])
  <2>1. CASE Become(r, "unavailable")
    BY <1>1, <1>5, <2>1, BecomeKeeps DEF Outcome
  <2>2. CASE Become(r, how)
    <3>1. ~Immutable(stale[r])
      BY <1>5 DEF VerifierInv, KeysAge
    <3>2. how \in {"queued"} \cup Outcome /\ how # "unavailable" /\ how # "unknown_key"
      BY <1>5, <3>1, VerdictFits DEF Outcome
    <3> HIDE DEF how
    <3> QED BY <1>1, <1>5, <2>2, <3>2, BecomeKeeps
  <2> QED BY <1>5, <2>1, <2>2 DEF FallBack
<1>6. CASE UseInBackoff(r)
  <2>1. /\ cache' = cache /\ pc[r] \in InMutex /\ holder' = NoOne /\ ~Immutable(cache)
        /\ r \notin forced
    BY <1>6 DEF UseInBackoff, InMutex, Settled
  <2> DEFINE how == Verdict(r, cache)
  <2>2. CASE Become(r, how)
    <3>1. how \in {"queued"} \cup Outcome /\ how # "unavailable" /\ how # "unknown_key"
      BY <2>1, VerdictFits DEF Outcome
    <3> HIDE DEF how
    <3> QED BY <1>1, <2>1, <2>2, <3>1, BecomeKeeps
  <2> QED BY <1>5, <1>6, <2>1, <2>2 DEF UseInBackoff
<1>7. CASE FetchSucceeds(r)
  <2>1. pc[r] = "received" /\ cache' = served[r] /\ holder' = NoOne
    BY <1>7 DEF FetchSucceeds
  <2>2. served[r] \in KeySet /\ served[r].gen > 0 /\ ~Immutable(served[r])
    BY <2>1, VerifierConstants DEF VerifierInv, ServedInOrder, StateTypes, Immutable
  <2> DEFINE how == Verdict(r, served[r])
  <2>3. Become(r, how)
    BY <1>7 DEF FetchSucceeds
  <2>4. how = "unknown_key" => r \in absent
    BY <2>1, VerdictFits DEF VerifierInv, AbsenceSeen, StateTypes
  <2>5. how \in {"queued"} \cup Outcome
    BY VerdictFits DEF Outcome
  <2> HIDE DEF how
  <2> QED BY <1>1, <2>1, <2>2, <2>3, <2>4, <2>5, BecomeKeeps DEF InMutex
<1>8. CASE FetchFails(r)
  <2>1. cache' = cache /\ pc[r] \in InMutex /\ holder' = NoOne /\ ~Immutable(cache)
    BY <1>8 DEF FetchFails, InMutex, VerifierInv, StaticStaysOffline
  <2>2. CASE Become(r, "unavailable")
    BY <1>1, <2>1, <2>2, BecomeKeeps DEF Outcome
  <2> QED BY <1>5, <1>8, <2>1, <2>2 DEF FetchFails
<1> QED BY <1>2, <1>3, <1>4, <1>6, <1>7, <1>8

(* A task is dropped, or hands its answer over. *)
LEMMA ForgetKeeps ==
  ASSUME VerifierInv, NEW r \in Requests, Cancel(r) \/ Return(r)
  PROVE  VerifierInv'
<1> USE DEF VerifierInv
<1>1. /\ Forget(r)
      /\ UNCHANGED <<cache, attempt, published, gen, gone, sinceFetch>>
      /\ holder' = IF holder = r THEN NoOne ELSE holder
  <2>1. Return(r) => holder # r
    BY DEF Return, HolderFits, InMutex, Outcome
  <2> QED BY <2>1 DEF Cancel, Return, upstreamVars, lockVars
<1> USE <1>1 DEF Forget
<1>2. StateTypes'
  BY VerifierConstants DEF StateTypes
<1>3. HolderFits' /\ ServedInOrder' /\ StampIsTrue'
  BY VerifierConstants DEF HolderFits, ServedInOrder, StampIsTrue, StateTypes, InMutex
<1>4. AbsenceSeen'
  BY DEF AbsenceSeen, StateTypes, Busy
<1>5. KeysAge'
  BY DEF KeysAge, AgesWith, StateTypes, Immutable
<1>6. UnknownKeyIsTrue' /\ StaticStaysOffline'
  BY DEF UnknownKeyIsTrue, StaticStaysOffline, StateTypes
<1> QED BY <1>2, <1>3, <1>4, <1>5, <1>6

(* Upstream publishes or withdraws a key. *)
LEMMA UpstreamKeeps ==
  ASSUME VerifierInv, NEW k \in Keys, Publish(k) \/ Withdraw(k)
  PROVE  VerifierInv'
<1> USE DEF VerifierInv
<1>1. CASE Publish(k)
  <2> USE <1>1 DEF Publish, taskVars, lockVars
  <2>1. StateTypes'
    BY VerifierConstants DEF StateTypes, MaxGone
  <2>2. HolderFits' /\ ServedInOrder' /\ StampIsTrue'
    BY DEF HolderFits, ServedInOrder, StampIsTrue
  <2>3. AbsenceSeen' /\ UnknownKeyIsTrue' /\ StaticStaysOffline'
    BY DEF AbsenceSeen, UnknownKeyIsTrue, StaticStaysOffline, StateTypes
  <2>4. \A c \in KeySet : AgesWith(c) => AgesWith(c)'
    <3> SUFFICES ASSUME NEW c \in KeySet, AgesWith(c), c # NoCache, NEW l \in c.keys
                 PROVE  gone'[l] <= c.age + FetchMax
      BY DEF AgesWith
    <3>1. l \in Keys /\ c.age \in Nat
      BY DEF KeySet
    <3> QED BY <3>1, VerifierConstants DEF AgesWith, StateTypes
  <2>5. KeysAge'
    <3>1. \A l \in published' : gone'[l] = 0
      BY DEF KeysAge, StateTypes
    <3>2. ~Immutable(cache) => AgesWith(cache)'
      BY <2>4 DEF KeysAge, StateTypes, AgesWith
    <3>3. ~Immutable(cache) => \A r \in Requests : ~Immutable(stale[r])' /\ AgesWith(stale[r])'
      BY <2>4 DEF KeysAge, StateTypes, AgesWith, Immutable
    <3>4. ASSUME ~Immutable(cache), NEW r \in Requests, pc[r] = "received", NEW l \in served[r].keys
          PROVE  gone'[l] <= fetchAge[r]
      <4>1. l \in Keys /\ fetchAge[r] \in Nat
        BY <3>4 DEF ServedInOrder, KeySet, StateTypes
      <4> QED BY <3>4, <4>1 DEF KeysAge, StateTypes
    <3> QED BY <3>1, <3>2, <3>3, <3>4 DEF KeysAge
  <2> QED BY <2>1, <2>2, <2>3, <2>5
<1>2. CASE Withdraw(k)
  <2> USE <1>2 DEF Withdraw, taskVars, lockVars
  <2>1. StateTypes'
    BY DEF StateTypes
  <2>2. HolderFits' /\ ServedInOrder' /\ StampIsTrue'
    BY DEF HolderFits, ServedInOrder, StampIsTrue
  <2>3. AbsenceSeen' /\ UnknownKeyIsTrue' /\ StaticStaysOffline'
    BY DEF AbsenceSeen, UnknownKeyIsTrue, StaticStaysOffline, StateTypes
  <2>4. KeysAge'
    BY DEF KeysAge, AgesWith
  <2> QED BY <2>1, <2>2, <2>3, <2>4
<1> QED BY <1>1, <1>2

(* A tick ages every key set and every withdrawn key alike. *)
LEMMA TickKeeps ==
  ASSUME VerifierInv, Tick
  PROVE  VerifierInv'
<1> USE DEF VerifierInv
<1>1. /\ cache' = OlderSet(cache)
      /\ stale' = [r \in Requests |-> OlderSet(stale[r])]
      /\ fetchAge' = [r \in Requests |->
           IF pc[r] \in {"fetch", "received"} THEN Older(fetchAge[r], FetchMax) ELSE 0]
      /\ attempt' = Older(attempt, Backoff) /\ sinceFetch' = Older(sinceFetch, Backoff)
      /\ gone' = [k \in Keys |-> IF k \in published THEN 0 ELSE Older(gone[k], MaxGone)]
      /\ UNCHANGED <<pc, kid, forced, served, queue, holder, published, gen, absent>>
  BY DEF Tick, lockVars
<1>2. cache \in KeySet \cup {NoCache} /\ \A r \in Requests : stale[r] \in KeySet \cup {NoCache}
  BY DEF StateTypes
<1>3. /\ Immutable(cache)' <=> Immutable(cache)
      /\ \A r \in Requests : Immutable(stale[r])' <=> Immutable(stale[r])
  <2>1. Immutable(cache)' <=> Immutable(OlderSet(cache))
    BY <1>1 DEF Immutable
  <2>2. \A r \in Requests : Immutable(stale[r])' <=> Immutable(OlderSet(stale[r]))
    BY <1>1 DEF Immutable
  <2> QED BY <1>2, <2>1, <2>2, OlderSetFits
<1>4. StateTypes'
  <2>1. cache' \in KeySet \cup {NoCache}
    BY <1>1, <1>2, OlderSetFits
  <2>2. stale' \in [Requests -> KeySet \cup {NoCache}]
    BY <1>1, <1>2, OlderSetFits
  <2>3. fetchAge' \in [Requests -> 0..FetchMax]
    BY <1>1, VerifierConstants DEF StateTypes, Older
  <2>4. gone' \in [Keys -> 0..MaxGone]
    BY <1>1, VerifierConstants DEF StateTypes, Older, MaxGone
  <2>5. attempt' \in 0..Backoff /\ sinceFetch' \in 0..Backoff
    BY <1>1, VerifierConstants DEF StateTypes, Older
  <2> QED BY <1>1, <2>1, <2>2, <2>3, <2>4, <2>5 DEF StateTypes
<1>5. HolderFits' /\ StampIsTrue' /\ AbsenceSeen'
  BY <1>1 DEF HolderFits, StampIsTrue, AbsenceSeen
<1>6. ServedInOrder'
  BY <1>1, <1>2, OlderSetFits DEF ServedInOrder
<1>7. UnknownKeyIsTrue' /\ StaticStaysOffline'
  BY <1>1, <1>3 DEF UnknownKeyIsTrue, StaticStaysOffline
<1>8. ASSUME NEW c \in KeySet \cup {NoCache}, ~Immutable(c), AgesWith(c), c # NoCache
      PROVE  \A k \in OlderSet(c).keys : gone'[k] <= OlderSet(c).age + FetchMax
  BY <1>8, TickAges, OlderSetFits
<1>9. KeysAge'
  <2>1. \A k \in published' : gone'[k] = 0
    BY <1>1 DEF StateTypes
  <2>2. ~Immutable(cache) => AgesWith(cache)'
    BY <1>1, <1>2, <1>8, OlderSetFits DEF KeysAge, AgesWith
  <2>3. ASSUME ~Immutable(cache), NEW r \in Requests
        PROVE  ~Immutable(stale[r])' /\ AgesWith(stale[r])'
    <3>1. ~Immutable(stale[r]) /\ AgesWith(stale[r]) /\ stale'[r] = OlderSet(stale[r])
      BY <1>1, <2>3 DEF KeysAge
    <3> QED BY <1>2, <1>3, <1>8, <3>1, OlderSetFits DEF AgesWith
  <2>4. ASSUME ~Immutable(cache), NEW r \in Requests, pc[r] = "received",
               NEW k \in served[r].keys
        PROVE  gone'[k] <= fetchAge'[r]
    <3>1. k \in Keys
      BY <2>4 DEF ServedInOrder, KeySet
    <3>2. gone[k] <= fetchAge[r] /\ gone[k] \in 0..MaxGone /\ fetchAge[r] \in 0..FetchMax
      BY <2>4, <3>1 DEF KeysAge, StateTypes
    <3>3. fetchAge[r] < FetchMax
      BY <2>4 DEF Tick
    <3>4. fetchAge'[r] = fetchAge[r] + 1
      BY <1>1, <2>4, <3>3 DEF Older
    <3>5. gone'[k] = 0 \/ gone'[k] = gone[k] + 1 \/ gone'[k] = gone[k]
      BY <1>1, <3>1 DEF Older
    <3> QED BY <3>2, <3>4, <3>5, VerifierConstants DEF MaxGone
  <2> QED BY <1>1, <1>3, <2>1, <2>2, <2>3, <2>4 DEF KeysAge
<1> QED BY <1>4, <1>5, <1>6, <1>7, <1>9

(* Every step keeps the invariant. *)
LEMMA VerifierStep == VerifierInv /\ [Next]_vars => VerifierInv'
<1> SUFFICES ASSUME VerifierInv, [Next]_vars PROVE VerifierInv'
  OBVIOUS
<1>1. CASE \E r \in Requests : \/ (\E k \in Keys : Verify(r, k)) \/ Warm(r) \/ Progress(r)
                               \/ ServeKeys(r) \/ Cancel(r) \/ Return(r)
  BY <1>1, WaitKeeps, FetchKeeps, LeaveKeeps, ForgetKeeps DEF Progress
<1>2. CASE \E k \in Keys : Publish(k) \/ Withdraw(k)
  BY <1>2, UpstreamKeeps
<1>3. CASE Tick
  BY <1>3, TickKeeps
<1>4. CASE UNCHANGED vars
  BY <1>4 DEF vars, VerifierInv, StateTypes, HolderFits, ServedInOrder, StampIsTrue, AbsenceSeen,
     KeysAge, AgesWith, Immutable, UnknownKeyIsTrue, StaticStaysOffline
<1> QED BY <1>1, <1>2, <1>3, <1>4 DEF Next

-----------------------------------------------------------------------------
(* The invariant holds in every reachable state. *)
THEOREM VerifierHolds == Spec => []VerifierInv
<1> QED BY VerifierInit, VerifierStep, PTL DEF Spec

(* No verdict is made up: a key called unknown was unpublished at some     *)
(* instant of the call, and a verifier built from given keys never goes    *)
(* out and never finds the authority unavailable (verifier.rs 136-137,     *)
(* 192-195, 256-263).                                                      *)
THEOREM NoVerdictMadeUp == Spec => []VerdictsAreTrue
<1>1. VerifierInv => VerdictsAreTrue
  BY DEF VerifierInv, VerdictsAreTrue
<1> QED BY <1>1, VerifierHolds, PTL

(* A task moves by its own steps alone, and Become tells where it goes.    *)
LEMMA OwnSteps ==
  ASSUME VerifierInv, [Next]_vars, NEW r \in Requests, pc'[r] # pc[r]
  PROVE  \/ pc'[r] \in {"idle", "read", "queued", "locked", "received"}
         \/ StartFetch(r) /\ pc'[r] = "fetch"
         \/ UseFresh(r) \/ UseRefreshed(r) \/ RefuseForced(r) \/ UseInBackoff(r)
         \/ FetchSucceeds(r) \/ FetchFails(r)
<1>1. DOMAIN pc = Requests
  BY DEF VerifierInv, StateTypes
<1>2. ASSUME NEW q \in Requests,
             \/ UseFresh(q) \/ UseRefreshed(q) \/ RefuseForced(q) \/ UseInBackoff(q)
             \/ FetchSucceeds(q) \/ FetchFails(q)
      PROVE  q = r
  <2>1. \E how : pc' = [pc EXCEPT ![q] = how]
    BY <1>2 DEF UseFresh, UseRefreshed, RefuseForced, UseInBackoff, FetchSucceeds, FetchFails,
       FallBack, Use, Become
  <2> QED BY <1>1, <2>1
<1>3. ASSUME NEW q \in Requests,
             \/ (\E k \in Keys : Verify(q, k)) \/ Warm(q) \/ AskRefresh(q) \/ Acquire(q)
             \/ ServeKeys(q) \/ Cancel(q) \/ Return(q)
      PROVE  pc'[r] \in {"idle", "read", "queued", "locked", "received"}
  <2>1. \E how \in {"idle", "read", "queued", "locked", "received"} :
          pc' = [pc EXCEPT ![q] = how]
    BY <1>3 DEF Verify, Warm, AskRefresh, Acquire, ServeKeys, Cancel, Return, Forget
  <2> QED BY <1>1, <2>1
<1>4. ASSUME NEW q \in Requests, StartFetch(q)
      PROVE  q = r /\ pc'[r] = "fetch"
  BY <1>1, <1>4 DEF StartFetch
<1>5. ~UNCHANGED pc
  OBVIOUS
<1> QED
  BY <1>2, <1>3, <1>4, <1>5 DEF Next, Progress, Publish, Withdraw, Tick, taskVars, vars

(* Requests to upstream are Backoff apart, whatever became of the one      *)
(* before: the stamp is the age of the last request (verifier.rs 277-291). *)
THEOREM BackoffHolds == Spec => FetchesSpaced
<1>1. ASSUME VerifierInv, [Next]_vars, NEW r \in Requests, pc[r] = "locked", pc'[r] = "fetch"
      PROVE  sinceFetch >= Backoff
  <2>1. ASSUME NEW how \in {"queued"} \cup Outcome
        PROVE  ~Become(r, how)
    BY <1>1 DEF Become, VerifierInv, StateTypes, Outcome
  <2>2. ~(UseFresh(r) \/ UseRefreshed(r) \/ RefuseForced(r) \/ UseInBackoff(r)
          \/ FetchSucceeds(r) \/ FetchFails(r))
    BY <2>1, VerdictFits DEF UseFresh, UseRefreshed, RefuseForced, UseInBackoff, FetchSucceeds,
       FetchFails, FallBack, Use, Outcome
  <2>3. ~InBackoff
    BY <1>1, <2>2, OwnSteps DEF StartFetch
  <2> QED BY <1>1, <2>3, VerifierConstants DEF InBackoff, VerifierInv, StampIsTrue, StateTypes
<1>2. VerifierInv /\ [Next]_vars =>
        [\A r \in Requests : pc[r] = "locked" /\ pc'[r] = "fetch" => sinceFetch >= Backoff]_vars
  BY <1>1
<1> QED BY <1>2, VerifierHolds, PTL DEF Spec, FetchesSpaced

(* A token is accepted only under a key published within the grace period  *)
(* and the time of one fetch (verifier.rs 236-250, 280-290, 307-311).      *)
THEOREM KeysAgeOut == Spec => WithdrawnKeysAgeOut
<1>1. ASSUME VerifierInv, [Next]_vars, ~Immutable(cache), NEW r \in Requests,
             pc[r] # "accepted", pc'[r] = "accepted"
      PROVE  gone[kid[r]] <= Grace + FetchMax
  <2>1. \/ UseFresh(r) \/ UseRefreshed(r) \/ RefuseForced(r) \/ UseInBackoff(r)
        \/ FetchSucceeds(r) \/ FetchFails(r)
    BY <1>1, OwnSteps
  <2>2. \A how : Become(r, how) => how = "accepted"
    BY <1>1 DEF Become, VerifierInv, StateTypes
  <2>3. \A c : Use(r, c) => kid[r] \in c.keys
    BY <2>2, VerdictFits DEF Use
  <2>4. ASSUME NEW c \in KeySet \cup {NoCache}, InGrace(c) \/ (Fresh(c) /\ ~Immutable(c)),
               AgesWith(c), Use(r, c)
        PROVE  gone[kid[r]] <= Grace + FetchMax
    <3>1. c \in KeySet /\ c.age \in Nat /\ c.age <= Grace /\ kid[r] \in c.keys /\ c.keys \subseteq Keys
      BY <2>3, <2>4, VerifierConstants DEF InGrace, Fresh, KeySet
    <3>2. c # NoCache
      BY <2>4 DEF InGrace, Fresh
    <3>3. gone[kid[r]] <= c.age + FetchMax
      BY <2>4, <3>1, <3>2 DEF AgesWith
    <3>4. kid[r] \in Keys /\ gone[kid[r]] \in 0..MaxGone
      BY <1>1, <3>1 DEF VerifierInv, StateTypes
    <3> QED BY <3>1, <3>3, <3>4, VerifierConstants
  <2>5. AgesWith(cache) /\ cache \in KeySet \cup {NoCache}
        /\ AgesWith(stale[r]) /\ stale[r] \in KeySet \cup {NoCache}
    BY <1>1 DEF VerifierInv, KeysAge, StateTypes
  <2>6. FallBack(r) => gone[kid[r]] <= Grace + FetchMax
    BY <2>2, <2>4, <2>5 DEF FallBack
  <2>7. CASE FetchSucceeds(r)
    <3>1. pc[r] = "received" /\ served[r] \in KeySet /\ Use(r, served[r])
      BY <1>1, <2>7 DEF FetchSucceeds, VerifierInv, ServedInOrder
    <3>2. kid[r] \in served[r].keys /\ served[r].keys \subseteq Keys
      BY <2>3, <3>1 DEF KeySet
    <3>3. gone[kid[r]] <= fetchAge[r] /\ gone[kid[r]] \in Nat /\ fetchAge[r] \in 0..FetchMax
      BY <1>1, <3>1, <3>2 DEF VerifierInv, KeysAge, StateTypes
    <3> QED BY <3>3, VerifierConstants
  <2>8. CASE UseFresh(r)
    BY <1>1, <2>4, <2>5, <2>8 DEF UseFresh
  <2>9. CASE UseRefreshed(r)
    BY <1>1, <2>4, <2>5, <2>9 DEF UseRefreshed, Settled
  <2>10. CASE UseInBackoff(r)
    BY <2>4, <2>5, <2>6, <2>10 DEF UseInBackoff
  <2>11. CASE FetchFails(r)
    BY <2>2, <2>6, <2>11 DEF FetchFails
  <2>12. CASE RefuseForced(r)
    BY <2>2, <2>12 DEF RefuseForced
  <2> QED BY <2>1, <2>7, <2>8, <2>9, <2>10, <2>11, <2>12
<1>2. VerifierInv /\ [Next]_vars =>
        [~Immutable(cache) => \A r \in Requests :
           pc[r] # "accepted" /\ pc'[r] = "accepted"
             => gone[kid[r]] <= Grace + FetchMax]_vars
  BY <1>1
<1> QED BY <1>2, VerifierHolds, PTL DEF Spec, WithdrawnKeysAgeOut

(* The cache only moves on to key sets served later (verifier.rs 307-312). *)
THEOREM CacheAdvances == Spec => CacheNeverRegresses
<1>1. ASSUME VerifierInv, [Next]_vars, cache # NoCache
      PROVE  cache' # NoCache /\ cache'.gen >= cache.gen
  <2>1. cache \in KeySet /\ cache.gen \in Nat /\ gen \in Nat
    BY <1>1, VerifierConstants DEF VerifierInv, StateTypes, KeySet
  <2>2. CASE cache' = cache
    BY <1>1, <2>1, <2>2
  <2>3. CASE Tick
    BY <1>1, <2>1, <2>3, OlderSetFits DEF Tick
  <2>4. CASE \E r \in Requests : FetchSucceeds(r)
    BY <1>1, <2>1, <2>4, NoCacheIsNoKeySet DEF FetchSucceeds, VerifierInv, ServedInOrder
  <2>5. \/ cache' = cache \/ Tick \/ (\E r \in Requests : FetchSucceeds(r))
    BY <1>1 DEF Next, vars, Progress, Verify, Warm, UseFresh, AskRefresh,
       Acquire, UseRefreshed, RefuseForced, UseInBackoff, StartFetch, ServeKeys, FetchFails,
       Cancel, Return, Publish, Withdraw
  <2> QED BY <2>2, <2>3, <2>4, <2>5
<1> QED BY <1>1, VerifierHolds, PTL DEF Spec, CacheNeverRegresses
=============================================================================
