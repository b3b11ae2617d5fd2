-------------------------- MODULE BoundedReadProofs --------------------------
(***************************************************************************)
(* Proofs about what is read within a bound: the output of a subprocess,   *)
(* for every limit, pipe and deadline, and the body of a response, for any *)
(* policies, calls, statuses and limits.                                   *)
(***************************************************************************)
EXTENDS BoundedProcess, HttpRead, TLAPS

(* Subprocesses *)

(* A call has a result exactly when it has left "running" by itself, and   *)
(* nothing has moved before it starts.                                     *)
ResultFits ==
  /\ call \in {"idle", "running", "abandoned"} => result = "none"
  /\ result = "ok" => call = "returned"
  /\ call = "idle" =>
       /\ child = "none" /\ drained = {}
       /\ \A s \in Streams : dropped[s] = 0 /\ written[s] = pipe[s] + kept[s] + dropped[s]

(* What is dropped was beyond the limit, and run_bounded drops nothing.    *)
DroppedBeyondLimit ==
  \A s \in Streams :
    /\ dropped[s] > 0 => kept[s] = Limit[s]
    /\ api = "run_bounded" => dropped[s] = 0

(* A drain that has returned left nothing behind, and nothing can come.    *)
DrainedAtEof ==
  \A s \in Streams :
    call = "running" /\ s \in drained => pipe[s] = 0 /\ writers[s] = {}

CaptureInv ==
  /\ TypeOK
  /\ ResultFits
  /\ BytesConserved
  /\ DroppedBeyondLimit
  /\ DrainedAtEof
  /\ OkIsComplete
  /\ OverflowIsReal
  /\ NoChildLeftBehind

-----------------------------------------------------------------------------
(* The arithmetic of one read: what is retained fits, what is not retained *)
(* is discarded, and something is discarded only when the limit is reached.*)
LEMMA ReadSplits ==
  ASSUME TypeOK, NEW s \in Streams, NEW n \in Nat
  PROVE  /\ Retained(s, n) \in Nat /\ Discarded(s, n) \in Nat
         /\ Retained(s, n) + Discarded(s, n) = n
         /\ kept[s] + Retained(s, n) <= Limit[s]
         /\ Discarded(s, n) > 0 => kept[s] + Retained(s, n) = Limit[s]
         /\ api = "run_bounded" /\ ~Overflows(s, n) => Discarded(s, n) = 0
<1>1. Limit[s] \in Nat /\ kept[s] \in Nat /\ kept[s] <= Limit[s]
  BY ProcessConstants DEF TypeOK
<1> QED BY <1>1 DEF Retained, Discarded, Room, Overflows

(* No call has started: nothing is written, kept or drained. *)
LEMMA CaptureInit == Init => CaptureInv
<1> SUFFICES ASSUME Init PROVE CaptureInv
  OBVIOUS
<1>1. TypeOK
  BY ProcessConstants DEF Init, TypeOK, Results, Apis
<1> QED
  BY <1>1, ProcessConstants DEF Init, CaptureInv, ResultFits, BytesConserved,
     DroppedBeyondLimit, DrainedAtEof, OkIsComplete, OverflowIsReal,
     NoChildLeftBehind, TooLarge, Streams

(* The step that does the work: one read of a drain. *)
LEMMA DrainKeepsInv ==
  ASSUME CaptureInv, NEW s \in Streams, Drain(s)
  PROVE  CaptureInv'
<1> USE DEF CaptureInv
<1>1. PICK n \in 1..Chunk :
        /\ n <= pipe[s]
        /\ pipe' = [pipe EXCEPT ![s] = @ - n]
        /\ IF Overflows(s, n)
           THEN call' = "killing" /\ result' = TooLarge(s) /\ UNCHANGED <<kept, dropped>>
           ELSE /\ kept' = [kept EXCEPT ![s] = @ + Retained(s, n)]
                /\ dropped' = [dropped EXCEPT ![s] = @ + Discarded(s, n)]
                /\ UNCHANGED <<call, result>>
  BY DEF Drain
<1>2. n \in Nat /\ n > 0
  BY <1>1, ProcessConstants
<1>3. /\ call = "running" /\ result = "none" /\ s \notin drained
      /\ UNCHANGED <<child, writers, written, drained, elapsed, api>>
  BY DEF Drain, ResultFits
<1>4. /\ pipe \in [Streams -> 0..PipeSize] /\ PipeSize \in Nat
      /\ kept \in [Streams -> Nat] /\ dropped \in [Streams -> 0..MaxWritten]
      /\ written \in [Streams -> 0..MaxWritten] /\ MaxWritten \in Nat
      /\ Limit \in [Streams -> Nat]
      /\ \A q \in Streams : written[q] = pipe[q] + kept[q] + dropped[q]
      /\ \A q \in Streams : kept[q] <= Limit[q]
  BY <1>3, ProcessConstants DEF TypeOK, BytesConserved
<1>5. CASE Overflows(s, n)
  <2>1. call' = "killing" /\ result' = TooLarge(s) /\ UNCHANGED <<kept, dropped>>
    BY <1>1, <1>5
  <2>2. pipe' \in [Streams -> 0..PipeSize]
    BY <1>1, <1>2, <1>4
  <2>3. TypeOK'
    BY <1>3, <1>4, <2>1, <2>2 DEF TypeOK, Results, TooLarge
  <2>4. written[s] > Limit[s]
    BY <1>1, <1>2, <1>4, <1>5 DEF Overflows
  <2>5. \A q \in Streams : result' = TooLarge(q) => q = s
    BY <2>1 DEF TooLarge, Streams
  <2>6. OverflowIsReal'
    BY <1>3, <2>1, <2>4, <2>5 DEF OverflowIsReal, TooLarge
  <2> QED
    BY <1>3, <2>1, <2>3, <2>6 DEF ResultFits, BytesConserved,
       DroppedBeyondLimit, DrainedAtEof, OkIsComplete, NoChildLeftBehind, TooLarge
<1>6. CASE ~Overflows(s, n)
  <2>1. /\ kept' = [kept EXCEPT ![s] = @ + Retained(s, n)]
        /\ dropped' = [dropped EXCEPT ![s] = @ + Discarded(s, n)]
        /\ UNCHANGED <<call, result>>
    BY <1>1, <1>6
  <2>2. /\ Retained(s, n) \in Nat /\ Discarded(s, n) \in Nat
        /\ Retained(s, n) + Discarded(s, n) = n
        /\ kept[s] + Retained(s, n) <= Limit[s]
        /\ Discarded(s, n) > 0 => kept[s] + Retained(s, n) = Limit[s]
        /\ api = "run_bounded" => Discarded(s, n) = 0
    BY <1>2, <1>6, ReadSplits
  <2> DEFINE x == Retained(s, n)
  <2> DEFINE y == Discarded(s, n)
  <2> HIDE DEF x, y
  <2>3. /\ x \in Nat /\ y \in Nat /\ x + y = n /\ kept[s] + x <= Limit[s]
        /\ y > 0 => kept[s] + x = Limit[s]
        /\ api = "run_bounded" => y = 0
        /\ kept' = [kept EXCEPT ![s] = @ + x] /\ dropped' = [dropped EXCEPT ![s] = @ + y]
    BY <2>1, <2>2 DEF x, y
  <2>4. /\ pipe' \in [Streams -> 0..PipeSize]
        /\ kept' \in [Streams -> Nat]
        /\ \A q \in Streams : kept'[q] <= Limit[q]
    BY <1>1, <1>2, <1>4, <2>3
  <2>5. \A q \in Streams :
          /\ pipe'[q] = IF q = s THEN pipe[q] - n ELSE pipe[q]
          /\ kept'[q] = IF q = s THEN kept[q] + x ELSE kept[q]
          /\ dropped'[q] = IF q = s THEN dropped[q] + y ELSE dropped[q]
    BY <1>1, <1>4, <2>3
  <2>6. \A q \in Streams : written[q] = pipe'[q] + kept'[q] + dropped'[q]
    <3> SUFFICES ASSUME NEW q \in Streams
                 PROVE written[q] = pipe'[q] + kept'[q] + dropped'[q]
      OBVIOUS
    <3>1. /\ pipe[q] \in Nat /\ kept[q] \in Nat /\ dropped[q] \in Nat
          /\ written[q] = pipe[q] + kept[q] + dropped[q]
      BY <1>4
    <3>2. CASE q = s
      BY <1>1, <1>2, <2>3, <2>5, <3>1, <3>2
    <3>3. CASE q # s
      BY <2>5, <3>1, <3>3
    <3> QED BY <3>2, <3>3
  <2>7. dropped' \in [Streams -> 0..MaxWritten]
    <3>1. \A q \in Streams : dropped'[q] \in 0..MaxWritten
      BY <1>1, <1>2, <1>4, <2>3, <2>4, <2>5, <2>6
    <3> QED BY <2>3, <3>1, <1>4
  <2>8. TypeOK'
    BY <1>3, <2>1, <2>4, <2>7 DEF TypeOK
  <2>9. BytesConserved'
    BY <1>3, <2>1, <2>6 DEF BytesConserved
  <2>10. DroppedBeyondLimit'
    BY <1>3, <1>4, <2>3, <2>4, <2>5 DEF DroppedBeyondLimit
  <2>11. DrainedAtEof'
    BY <1>3, <2>1, <2>5 DEF DrainedAtEof
  <2> QED
    BY <1>3, <2>1, <2>8, <2>9, <2>10, <2>11 DEF ResultFits, OkIsComplete,
       OverflowIsReal, NoChildLeftBehind, TooLarge
<1> QED BY <1>5, <1>6

(* Every step of the call, of its processes or of the kernel keeps it. *)
LEMMA CaptureStep == CaptureInv /\ [Next]_vars => CaptureInv'
<1> SUFFICES ASSUME CaptureInv, [Next]_vars PROVE CaptureInv'
  OBVIOUS
<1> USE DEF CaptureInv
<1>1. CASE UNCHANGED vars
  BY <1>1 DEF vars, TypeOK, ResultFits, BytesConserved, DroppedBeyondLimit,
     DrainedAtEof, OkIsComplete, OverflowIsReal, NoChildLeftBehind
<1>2. CASE Spawn
  <2>1. /\ call = "idle" /\ result = "none" /\ drained = {}
        /\ call' = "running" /\ child' = "alive"
        /\ writers' = [s \in Streams |-> {"child"}]
        /\ \A s \in Streams :
             dropped[s] = 0 /\ written[s] = pipe[s] + kept[s] + dropped[s]
        /\ api' \in Apis
        /\ UNCHANGED <<result, pipe, kept, dropped, drained, written, elapsed>>
    BY <1>2 DEF Spawn, drainVars, ResultFits
  <2>2. TypeOK'
    <3>1. writers' \in [Streams -> SUBSET Processes]
      BY <2>1 DEF Processes
    <3> QED BY <2>1, <3>1 DEF TypeOK
  <2>3. ResultFits' /\ DroppedBeyondLimit' /\ DrainedAtEof'
    BY <2>1 DEF ResultFits, DroppedBeyondLimit, DrainedAtEof
  <2> QED
    BY <2>1, <2>2, <2>3 DEF BytesConserved, OkIsComplete, OverflowIsReal,
       NoChildLeftBehind, TooLarge
<1>3. ASSUME NEW s \in Streams, Drain(s) PROVE CaptureInv'
  BY <1>3, DrainKeepsInv
<1>4. ASSUME NEW s \in Streams, DrainEnds(s) PROVE CaptureInv'
  BY <1>4 DEF DrainEnds, AtEof, TypeOK, ResultFits, BytesConserved,
     DroppedBeyondLimit, DrainedAtEof, OkIsComplete, OverflowIsReal,
     NoChildLeftBehind, TooLarge
<1>5. ASSUME NEW s \in Streams, ReadFails(s) PROVE CaptureInv'
  BY <1>5 DEF ReadFails, drainVars, TypeOK, Results, ResultFits, BytesConserved,
     DroppedBeyondLimit, DrainedAtEof, OkIsComplete, OverflowIsReal,
     NoChildLeftBehind, TooLarge
<1>6. CASE WaitChild
  BY <1>6 DEF WaitChild, drainVars, TypeOK, Results, ResultFits, BytesConserved,
     DroppedBeyondLimit, DrainedAtEof, OkIsComplete, OverflowIsReal,
     NoChildLeftBehind, TooLarge
<1>7. CASE Succeed
  <2>1. /\ call = "running" /\ result = "none" /\ child = "reaped"
        /\ drained = Streams /\ call' = "returned" /\ result' = "ok"
        /\ UNCHANGED <<child, writers, pipe, kept, dropped, drained, written, elapsed, api>>
    BY <1>7 DEF Succeed, Complete, ResultFits, drainVars
  <2>2. \A s \in Streams : /\ writers[s] = {} /\ pipe[s] = 0
                           /\ written[s] = pipe[s] + kept[s] + dropped[s]
    BY <2>1 DEF DrainedAtEof, BytesConserved
  <2>3. \A s \in Streams : /\ kept[s] \in Nat /\ dropped[s] \in Nat
                           /\ kept[s] <= Limit[s] /\ Limit[s] \in Nat
    BY ProcessConstants DEF TypeOK
  <2>4. \A s \in Streams : /\ kept[s] + dropped[s] = written[s]
                           /\ api = "run_bounded" => written[s] <= Limit[s]
    BY <2>2, <2>3 DEF DroppedBeyondLimit
  <2>5. OkIsComplete' /\ OverflowIsReal'
    BY <2>1, <2>2, <2>4 DEF OkIsComplete, OverflowIsReal, DroppedBeyondLimit, TooLarge
  <2> QED
    BY <2>1, <2>5 DEF TypeOK, Results, ResultFits, BytesConserved,
       DroppedBeyondLimit, DrainedAtEof, NoChildLeftBehind
<1>8. CASE TimeOut
  BY <1>8 DEF TimeOut, drainVars, TypeOK, Results, ResultFits, BytesConserved,
     DroppedBeyondLimit, DrainedAtEof, OkIsComplete, OverflowIsReal,
     NoChildLeftBehind, TooLarge
<1>9. CASE Kill \/ Reap \/ Fail
  BY <1>9 DEF Kill, Reap, Fail, ReapedFirst, drainVars, TypeOK, ResultFits,
     BytesConserved, DroppedBeyondLimit, DrainedAtEof, OkIsComplete,
     OverflowIsReal, NoChildLeftBehind
<1>10. CASE Abandon
  BY <1>10 DEF Abandon, SignalOnDrop, drainVars, TypeOK, Results, ResultFits,
     BytesConserved, DroppedBeyondLimit, DrainedAtEof, OkIsComplete,
     OverflowIsReal, NoChildLeftBehind, TooLarge
<1>11. CASE Tick
  BY <1>11, ProcessConstants DEF Tick, drainVars, TypeOK, ResultFits,
     BytesConserved, DroppedBeyondLimit, DrainedAtEof, OkIsComplete,
     OverflowIsReal, NoChildLeftBehind
<1>12. ASSUME NEW p \in Processes, NEW s \in Streams, Write(p, s) PROVE CaptureInv'
  BY <1>12, ProcessConstants DEF Write, TypeOK, ResultFits, BytesConserved,
     DroppedBeyondLimit, DrainedAtEof, OkIsComplete, OverflowIsReal,
     NoChildLeftBehind, TooLarge
<1>13. ASSUME NEW p \in Processes, NEW s \in Streams, CloseStream(p, s)
       PROVE CaptureInv'
  BY <1>13 DEF CloseStream, drainVars, TypeOK, ResultFits, BytesConserved,
     DroppedBeyondLimit, DrainedAtEof, OkIsComplete, OverflowIsReal,
     NoChildLeftBehind
<1>14. CASE Fork
  BY <1>14 DEF Fork, drainVars, TypeOK, ResultFits, BytesConserved, Processes,
     DroppedBeyondLimit, DrainedAtEof, OkIsComplete, OverflowIsReal,
     NoChildLeftBehind
<1>15. CASE Die \/ ReapOrphan
  BY <1>15 DEF Die, ReapOrphan, drainVars, TypeOK, ResultFits, BytesConserved,
     DroppedBeyondLimit, DrainedAtEof, OkIsComplete, OverflowIsReal,
     NoChildLeftBehind
<1> QED
  BY <1>1, <1>2, <1>3, <1>4, <1>5, <1>6, <1>7, <1>8, <1>9, <1>10, <1>11,
     <1>12, <1>13, <1>14, <1>15 DEF Next, Call

(* The inductive invariant holds of every call. *)
THEOREM CaptureHolds == Spec => []CaptureInv
<1> QED BY CaptureInit, CaptureStep, PTL DEF Spec

(* Every variable keeps its type and nothing beyond a limit is retained.   *)
THEOREM CaptureTypes == Spec => []TypeOK
<1>1. CaptureInv => TypeOK
  BY DEF CaptureInv
<1> QED BY <1>1, CaptureHolds, PTL

(* What a call says of the output of its child is true: none of it is lost *)
(* or counted twice, a success has all of it, that of descendants          *)
(* included, and a stream is called too large only when it is.             *)
THEOREM CaptureStaysTrue == Spec => []CaptureIsTrue
<1>1. CaptureInv => CaptureIsTrue
  BY DEF CaptureInv, CaptureIsTrue
<1> QED BY <1>1, CaptureHolds, PTL

(* No call that returns, whatever it returns, leaves its child unreaped.   *)
THEOREM ChildIsReaped == Spec => []NoChildLeftBehind
<1>1. CaptureInv => NoChildLeftBehind
  BY DEF CaptureInv
<1> QED BY <1>1, CaptureHolds, PTL

(* Nobody waits behind a full pipe for ever: the drain of a pipe that      *)
(* somebody can still write to has not returned, and waits for no other.   *)
THEOREM PipesNeverDeadlock == Spec => []NoPipeDeadlock
<1>1. CaptureInv => NoPipeDeadlock
  BY DEF CaptureInv, DrainedAtEof, NoPipeDeadlock, CanDrain
<1> QED BY <1>1, CaptureHolds, PTL

-----------------------------------------------------------------------------
(* Hardened reads *)

OverflowOutcomes == {"declared_too_large", "streamed_too_large"}

(* What is held while the body streams: all that arrived, within the       *)
(* limit, of a length that is unknown or announced within the limit; and   *)
(* only a response can end as a state or as an overflow.                   *)
HttpInv ==
  /\ stage \in {"new", "ready", "sent", "streaming", "done"}
  /\ stage \in {"ready", "sent", "streaming"} => client.limit \in Nat
  /\ stage \in {"new", "ready"} => sent = Absent
  /\ stage \in {"new", "ready", "sent"} => reply = Absent /\ body = 0 /\ arrived = 0
  /\ stage # "done" => outcome = Absent
  /\ stage = "streaming" =>
       /\ arrived \in Nat /\ body = arrived /\ body <= client.limit
       /\ reply.status \in Nat
       /\ reply.declared # Absent => reply.declared \in Nat /\ reply.declared <= client.limit
  /\ HttpReadIsTrue

-----------------------------------------------------------------------------
LEMMA InitReads == HttpInit => HttpInv
  BY HttpConstants
  DEF HttpInit, HttpInv, HttpReadIsTrue, SecretsGoWhereTold, AnswersAreWhole, States,
      RefusalsAreRead, OverflowIsTrue

LEMMA NewClientKeeps == HttpInv /\ NewClient => HttpInv'
  BY HttpConstants
  DEF NewClient, Return, ValidLimit, HttpInv, HttpReadIsTrue, SecretsGoWhereTold, AnswersAreWhole,
      States, RefusalsAreRead, OverflowIsTrue

LEMMA PrepareKeeps == HttpInv /\ Prepare => HttpInv'
<1> SUFFICES ASSUME HttpInv, Prepare PROVE HttpInv'
  OBVIOUS
<1>1. stage = "ready" /\ UNCHANGED <<client, reply, body, arrived>>
  BY DEF Prepare
<1>2. \/ /\ stage' = "done" /\ sent' = sent
         /\ outcome' \notin States \cup OverflowOutcomes
      \/ /\ stage' = "sent" /\ outcome' = outcome /\ SecretsGoWhereTold'
  <2>1. EndpointFault(read'.endpoint) \notin States \cup OverflowOutcomes
    BY DEF EndpointFault, States, OverflowOutcomes
  <2>2. CASE EndpointFault(read'.endpoint) # "none"
    BY <2>1, <2>2 DEF Prepare, Return
  <2>3. CASE EndpointFault(read'.endpoint) = "none" /\ ~HostListed(read')
    BY <2>3 DEF Prepare, Return, States, OverflowOutcomes
  <2>4. CASE EndpointFault(read'.endpoint) = "none" /\ HostListed(read')
    <3>1. /\ read'.endpoint.form # "malformed" /\ ~read'.endpoint.user
          /\ read'.endpoint.host \in ToSet(read'.allowed)
          /\ read'.endpoint.scheme = "https" \/ read'.endpoint.host \in Loopback
      BY <2>4 DEF EndpointFault, HostListed
    <3> QED
      BY <2>4, <3>1 DEF Prepare, Return, States, OverflowOutcomes, SecretsGoWhereTold
  <2> QED
    BY <2>2, <2>3, <2>4
<1> QED
  BY <1>1, <1>2, HttpConstants
  DEF HttpInv, HttpReadIsTrue, SecretsGoWhereTold, AnswersAreWhole,
      States, OverflowOutcomes, RefusalsAreRead, OverflowIsTrue

LEMMA TransportFailsKeeps == HttpInv /\ TransportFails => HttpInv'
  BY HttpConstants
  DEF TransportFails, Return, HttpInv, HttpReadIsTrue, SecretsGoWhereTold, AnswersAreWhole,
      States, RefusalsAreRead, OverflowIsTrue

LEMMA RespondKeeps == HttpInv /\ Respond => HttpInv'
<1> SUFFICES ASSUME HttpInv, Respond PROVE HttpInv'
  OBVIOUS
<1>1. PICK status \in Statuses, declared \in {Absent} \cup 0..(MaxLimit + 1) :
        /\ reply' = [status |-> status, declared |-> declared]
        /\ IF declared # Absent /\ declared > client.limit
           THEN stage' = "done" /\ outcome' = "declared_too_large"
           ELSE stage' = "streaming" /\ outcome' = outcome
  BY DEF Respond, Return
<1>2. /\ stage = "sent" /\ UNCHANGED <<client, read, sent, body, arrived>>
      /\ client.limit \in Nat /\ arrived = 0 /\ body = 0 /\ outcome = Absent
      /\ SecretsGoWhereTold'
  BY DEF Respond, HttpInv, HttpReadIsTrue, SecretsGoWhereTold
<1>3. CASE stage' = "streaming"
  BY <1>1, <1>2, <1>3, HttpConstants
  DEF HttpInv, HttpReadIsTrue, AnswersAreWhole, States, RefusalsAreRead, OverflowIsTrue
<1>4. CASE stage' = "done"
  BY <1>1, <1>2, <1>4, HttpConstants
  DEF HttpInv, HttpReadIsTrue, AnswersAreWhole, States, RefusalsAreRead, OverflowIsTrue
<1> QED
  BY <1>1, <1>3, <1>4

LEMMA ChunkArrivesKeeps == HttpInv /\ ChunkArrives => HttpInv'
<1> SUFFICES ASSUME HttpInv, ChunkArrives PROVE HttpInv'
  OBVIOUS
<1>1. PICK n \in 0..(MaxLimit + 1) :
        /\ arrived + n <= IF reply.declared = Absent THEN MaxLimit + 1 ELSE reply.declared
        /\ arrived' = arrived + n
        /\ IF Fits(n) THEN body' = body + n /\ stage' = stage /\ outcome' = outcome
           ELSE stage' = "done" /\ outcome' = "streamed_too_large" /\ body' = body
  BY DEF ChunkArrives, Return
<1>2. /\ stage = "streaming" /\ UNCHANGED <<client, read, sent, reply>>
      /\ client.limit \in Nat /\ arrived \in Nat /\ body = arrived /\ body <= client.limit
      /\ reply.status \in Nat /\ n \in Nat
      /\ reply.declared # Absent => reply.declared \in Nat /\ reply.declared <= client.limit
      /\ SecretsGoWhereTold' /\ outcome = Absent
  BY HttpConstants DEF ChunkArrives, HttpInv, HttpReadIsTrue, SecretsGoWhereTold
<1>3. CASE Fits(n)
  BY <1>1, <1>2, <1>3, HttpConstants
  DEF Fits, HttpInv, HttpReadIsTrue, AnswersAreWhole, States, RefusalsAreRead, OverflowIsTrue
<1>4. CASE ~Fits(n)
  <2>1. body + n > client.limit /\ reply.declared = Absent
    BY <1>1, <1>2, <1>4 DEF Fits
  <2> QED
    BY <1>1, <1>2, <1>4, <2>1, HttpConstants
    DEF HttpInv, HttpReadIsTrue, AnswersAreWhole, States, RefusalsAreRead, OverflowIsTrue
<1> QED
  BY <1>3, <1>4

LEMMA BodyEndsKeeps == HttpInv /\ BodyEnds => HttpInv'
<1> SUFFICES ASSUME HttpInv, BodyEnds PROVE HttpInv'
  OBVIOUS
<1>1. /\ stage = "streaming" /\ stage' = "done" /\ outcome' = StateOf(reply.status)
      /\ UNCHANGED <<client, read, sent, reply, body, arrived>>
      /\ reply.declared \in {Absent, arrived} /\ reply.status \in Nat
      /\ body = arrived /\ body <= client.limit /\ SecretsGoWhereTold'
  BY DEF BodyEnds, Return, HttpInv, HttpReadIsTrue, SecretsGoWhereTold
<1>2. /\ StateOf(reply.status) \in States
      /\ reply.status = 401 => StateOf(reply.status) = "unauthorized"
      /\ reply.status = 403 => StateOf(reply.status) = "forbidden"
      /\ StateOf(reply.status) = "ready" => reply.status \in 200..299
  BY <1>1 DEF StateOf, States
<1> QED
  BY <1>1, <1>2
  DEF HttpInv, HttpReadIsTrue, AnswersAreWhole, States, RefusalsAreRead, OverflowIsTrue

-----------------------------------------------------------------------------
(* The invariant holds throughout. *)
THEOREM HttpInvariance == HttpSpec => []HttpInv
<1>1. HttpInit => HttpInv
  BY InitReads
<1>2. HttpInv /\ UNCHANGED httpVars => HttpInv'
  BY DEF httpVars, HttpInv, HttpReadIsTrue, SecretsGoWhereTold, AnswersAreWhole,
         RefusalsAreRead, OverflowIsTrue
<1>3. HttpInv /\ [HttpNext]_httpVars => HttpInv'
  BY <1>2, NewClientKeeps, PrepareKeeps, TransportFailsKeeps, RespondKeeps, ChunkArrivesKeeps,
     BodyEndsKeeps
  DEF HttpNext
<1> QED
  BY <1>1, <1>3, PTL DEF HttpSpec

(* A read returns what happened: secrets leave only for a listed host over *)
(* TLS or on this machine, a state is a whole answer within the limit, a   *)
(* refusal is read as one unless its body hides it, and the two overflows  *)
(* are told apart (HardenedHttpClient::get).                               *)
THEOREM ReadsAreTrue == HttpSpec => []HttpReadIsTrue
<1>1. HttpInv => HttpReadIsTrue
  BY DEF HttpInv
<1> QED
  BY <1>1, HttpInvariance, PTL
=============================================================================
