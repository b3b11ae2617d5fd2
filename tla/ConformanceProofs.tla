-------------------------- MODULE ConformanceProofs --------------------------
(***************************************************************************)
(* Proofs about the conformance tool: its transport, for any number of     *)
(* requests, any bound and any amount of output, and its run, for any      *)
(* manifests, catalogs, responses and edits.                               *)
(***************************************************************************)
EXTENDS StdioTransport, ConformanceRun, SequenceFacts

(* The transport *)

Fates == {"unsent", "pending", "resolved", "rejected"}

(* What is inductive: every token written is counted or on its way; the    *)
(* count of a transport that has not failed is within the bound; and one   *)
(* that has seen its child close without failing holds no half line.       *)
TransportInv ==
  /\ TypeOK
  /\ NobodyWaitsInVain
  /\ bytes + Len(stdout) + stderr = written
  /\ ~failure => bytes <= MaxBytes
  /\ exited /\ ~failure => ~buffer

(* A step settles requests that are pending and touches no other.          *)
Settling ==
  /\ request' \in [Ids -> Fates]
  /\ \A i \in Ids : \/ request'[i] = request[i]
                    \/ request[i] = "pending" /\ request'[i] \in {"resolved", "rejected"}

(* What a callback may do to those who wait and to the child.              *)
Orderly ==
  /\ Settling
  /\ failure' \in BOOLEAN
  /\ failure => failure'
  /\ failure' /\ ~failure => Pending' = {}
  /\ child' \in {"starting", "running", "killed", "dead"}
  /\ child = "dead" => child' = "dead"

-----------------------------------------------------------------------------
LEMMA RejectedSettles ==
  ASSUME TypeOK, request' = Rejected(Pending)
  PROVE  Settling /\ Pending' = {}
BY DEF TypeOK, Rejected, Pending, Settling, Fates

LEMMA FailIsOrderly ==
  ASSUME TypeOK, Fail
  PROVE  Orderly /\ failure' /\ Pending' = {}
<1>1. Settling /\ Pending' = {}
  BY RejectedSettles DEF Fail
<1> QED
  BY <1>1 DEF Fail, Orderly, Killed, TypeOK

LEMMA IdleIsOrderly ==
  ASSUME TypeOK, UNCHANGED <<failure, request, child>>
  PROVE  Orderly
BY DEF TypeOK, Orderly, Settling, Fates

(* What an orderly step leaves true of ids and of those who wait           *)
LEMMA OrderlyKeeps ==
  ASSUME TransportInv, Orderly, UNCHANGED <<serial, closing>>,
         exited' = exited \/ Pending' = {} \/ closing
  PROVE  /\ \A i \in Ids : request'[i] = "unsent" <=> i > serial'
         /\ NobodyWaitsInVain'
<1>1. \A i \in Ids : request'[i] = "unsent" <=> i > serial'
  BY DEF TransportInv, TypeOK, Orderly, Settling
<1>2. Pending' \subseteq Pending
  BY DEF Orderly, Settling, Pending
<1>3. NobodyWaitsInVain'
  BY <1>2 DEF TransportInv, Orderly, NobodyWaitsInVain
<1> QED
  BY <1>1, <1>3

-----------------------------------------------------------------------------
(* The operations and timers *)

LEMMA RequestKeeps ==
  ASSUME TransportInv, NEW o \in Oversize, Request(o)
  PROVE  TransportInv'
<1>1. /\ serial' = serial + 1 /\ serial' \in 0..MaxRequests
      /\ request' = [request EXCEPT ![serial + 1] =
                       IF Writable /\ ~o THEN "pending" ELSE "rejected"]
      /\ UNCHANGED <<failure, closing, closed, exited, bytes, buffer, serverVars>>
  BY TransportConstants DEF Request, TransportInv, TypeOK
<1>2. /\ request' \in [Ids -> Fates]
      /\ \A i \in Ids : request'[i] = "unsent" <=> i > serial'
  BY <1>1, TransportConstants DEF TransportInv, TypeOK, Ids, Fates
<1>3. NobodyWaitsInVain'
  BY <1>1 DEF TransportInv, TypeOK, NobodyWaitsInVain, Pending, Writable
<1>4. TypeOK'
  BY <1>1, <1>2 DEF TransportInv, TypeOK, serverVars, Tokens, Part, Fates
<1> QED
  BY <1>1, <1>3, <1>4 DEF TransportInv, serverVars

LEMMA TimeOutKeeps ==
  ASSUME TransportInv, NEW i \in Ids, TimeOut(i)
  PROVE  TransportInv'
<1>1. /\ Fail
      /\ UNCHANGED <<serial, closing, closed, exited, bytes, buffer, heir, stdout, stderr, written>>
  BY DEF TimeOut
<1>2. Orderly /\ failure'
  BY <1>1, FailIsOrderly DEF TransportInv
<1>3. /\ \A j \in Ids : request'[j] = "unsent" <=> j > serial'
      /\ NobodyWaitsInVain'
  BY <1>1, <1>2, OrderlyKeeps
<1> QED
  BY <1>1, <1>2, <1>3 DEF TransportInv, TypeOK, Orderly, Settling, Fates

LEMMA CloseKeeps == TransportInv /\ Close => TransportInv'
<1> SUFFICES ASSUME TransportInv, Close PROVE TransportInv'
  OBVIOUS
<1>1. Settling /\ Pending' = {}
  BY RejectedSettles DEF TransportInv, Close
<1>2. /\ \A i \in Ids : request'[i] = "unsent" <=> i > serial'
      /\ NobodyWaitsInVain'
  BY <1>1 DEF TransportInv, TypeOK, Settling, Close, NobodyWaitsInVain
<1> QED
  BY <1>1, <1>2 DEF TransportInv, TypeOK, Settling, Fates, Close, serverVars

LEMMA KillTimerKeeps == TransportInv /\ KillTimer => TransportInv'
  BY DEF KillTimer, clientVars, TransportInv, TypeOK, NobodyWaitsInVain, Pending

LEMMA CloseReturnsKeeps == TransportInv /\ CloseReturns => TransportInv'
  BY DEF CloseReturns, serverVars, TransportInv, TypeOK, NobodyWaitsInVain, Pending

-----------------------------------------------------------------------------
(* The callbacks *)

(* The replies taken from a chunk are for requests that are pending.       *)
LEMMA DataIsOrderly ==
  ASSUME TypeOK, NEW n \in 1..Len(stdout), StdoutData(n)
  PROVE  /\ Orderly
         /\ bytes' = bytes + n
         /\ ~failure' => bytes' <= MaxBytes
         /\ buffer' \in BOOLEAN
         /\ stdout' \in Seq(Tokens) /\ Len(stdout') = Len(stdout) - n
         /\ UNCHANGED <<serial, closing, closed, exited, heir, stderr, written>>
<1> DEFINE chunk == SubSeq(stdout, 1, n)
           good == {i \in 1..n : \A j \in 1..i : Accepts(chunk, j)}
           replies == {chunk[i].id : i \in {j \in good : chunk[j].kind = "reply"}}
           answered == [i \in Ids |-> IF i \in replies THEN "resolved" ELSE request[i]]
<1>1. n \in Nat /\ n >= 1 /\ n <= Len(stdout) /\ Len(stdout) \in Nat
  BY LenProperties DEF TypeOK
<1>2. stdout' \in Seq(Tokens) /\ Len(stdout') = Len(stdout) - n
  <2>1. \A i \in n + 1 .. Len(stdout) : stdout[i] \in Tokens
    BY <1>1, ElementOfSeq DEF TypeOK
  <2>2. stdout' = SubSeq(stdout, n + 1, Len(stdout))
    BY DEF StdoutData
  <2>3. /\ SubSeq(stdout, n + 1, Len(stdout)) \in Seq(Tokens)
        /\ Len(SubSeq(stdout, n + 1, Len(stdout))) =
             IF n + 1 <= Len(stdout) THEN Len(stdout) - (n + 1) + 1 ELSE 0
    BY <1>1, <2>1, SubSeqProperties
  <2> QED
    BY <1>1, <2>2, <2>3
<1>3. replies \subseteq Pending
  <2> SUFFICES ASSUME NEW i \in good, chunk[i].kind = "reply" PROVE chunk[i].id \in Pending
    OBVIOUS
  <2>1. Accepts(chunk, i)
    OBVIOUS
  <2> QED
    BY <2>1 DEF Accepts
<1>4. /\ answered \in [Ids -> Fates]
      /\ \A i \in Ids : \/ answered[i] = request[i]
                        \/ request[i] = "pending" /\ answered[i] = "resolved"
  BY <1>3 DEF TypeOK, Fates, Pending
<1> HIDE DEF answered
<1>5. /\ bytes' = bytes + n
      /\ UNCHANGED <<serial, closing, closed, exited, heir, stderr, written>>
      /\ IF failure
         THEN UNCHANGED <<failure, request, child, buffer>>
         ELSE IF OverBound(n) THEN Fail /\ UNCHANGED buffer
         ELSE IF good = 1..n
         THEN /\ request' = answered
              /\ buffer' = (chunk[n] = Part)
              /\ UNCHANGED <<failure, child>>
         ELSE /\ failure' = TRUE /\ child' = Killed /\ buffer' = FALSE
              /\ request' = [i \in Ids |-> IF answered[i] = "pending"
                                           THEN "rejected" ELSE answered[i]]
  BY DEF StdoutData, answered
<1> HIDE DEF good, chunk
<1>6. CASE failure
  BY <1>2, <1>5, <1>6, IdleIsOrderly DEF TypeOK
<1>7. CASE ~failure /\ OverBound(n)
  BY <1>2, <1>5, <1>7, FailIsOrderly DEF TypeOK
<1>8. CASE ~failure /\ ~OverBound(n) /\ good = 1..n
  <2>1. request' = answered /\ buffer' \in BOOLEAN /\ UNCHANGED <<failure, child>>
    BY <1>5, <1>8
  <2>2. Orderly
    BY <1>4, <1>8, <2>1 DEF Orderly, Settling, TypeOK
  <2>3. bytes + n <= MaxBytes
    BY <1>1, <1>8, TransportConstants DEF OverBound, TypeOK
  <2> QED
    BY <1>2, <1>5, <2>1, <2>2, <2>3
<1>9. CASE ~failure /\ ~OverBound(n) /\ good # 1..n
  <2>1. /\ failure' = TRUE /\ child' = Killed /\ buffer' = FALSE
        /\ request' = [i \in Ids |-> IF answered[i] = "pending" THEN "rejected" ELSE answered[i]]
    BY <1>5, <1>9
  <2>2. Settling /\ Pending' = {}
    BY <1>4, <2>1 DEF Settling, Fates, Pending
  <2> QED
    BY <1>2, <1>5, <2>1, <2>2 DEF Orderly, Killed, TypeOK
<1> QED
  BY <1>6, <1>7, <1>8, <1>9

LEMMA StdoutDataKeeps ==
  ASSUME TransportInv, NEW n \in 1..Len(stdout), StdoutData(n)
  PROVE  TransportInv'
<1>1. /\ Orderly /\ bytes' = bytes + n /\ buffer' \in BOOLEAN
      /\ ~failure' => bytes' <= MaxBytes
      /\ stdout' \in Seq(Tokens) /\ Len(stdout') = Len(stdout) - n
      /\ UNCHANGED <<serial, closing, closed, exited, heir, stderr, written>>
  BY DataIsOrderly DEF TransportInv
<1>2. Len(stdout) \in Nat /\ n \in Nat /\ n >= 1 /\ n <= Len(stdout) /\ ~exited
  <2>1. Len(stdout) \in Nat
    BY LenProperties DEF TransportInv, TypeOK
  <2>2. exited => Len(stdout) = 0
    BY EmptySeq DEF TransportInv, TypeOK
  <2> QED
    BY <2>1, <2>2
<1>3. bytes' + Len(stdout') + stderr' = written' /\ bytes' \in 0..MaxOutput
  BY <1>1, <1>2, TransportConstants DEF TransportInv, TypeOK
<1>4. /\ \A i \in Ids : request'[i] = "unsent" <=> i > serial'
      /\ NobodyWaitsInVain'
  BY <1>1, OrderlyKeeps
<1>5. TypeOK'
  BY <1>1, <1>2, <1>3, <1>4 DEF TransportInv, TypeOK, Orderly, Settling, Fates, Tokens, Part
<1> QED
  BY <1>1, <1>2, <1>3, <1>4, <1>5 DEF TransportInv

LEMMA StderrDataKeeps == TransportInv /\ StderrData => TransportInv'
<1> SUFFICES ASSUME TransportInv, StderrData PROVE TransportInv'
  OBVIOUS
<1>1. /\ stderr > 0 /\ stderr' = 0 /\ bytes' = bytes + stderr
      /\ IF OverBound(stderr) THEN Fail ELSE UNCHANGED <<failure, request, child>>
      /\ UNCHANGED <<serial, closing, closed, exited, buffer, heir, stdout, written>>
  BY DEF StderrData
<1>2. Orderly /\ (~failure' => bytes' <= MaxBytes)
  <2>1. CASE OverBound(stderr)
    BY <1>1, <2>1, FailIsOrderly DEF TransportInv
  <2>2. CASE ~OverBound(stderr)
    BY <1>1, <2>2, IdleIsOrderly, TransportConstants DEF TransportInv, TypeOK, OverBound
  <2> QED
    BY <2>1, <2>2
<1>3. Len(stdout) \in Nat /\ ~exited
  BY <1>1, LenProperties DEF TransportInv, TypeOK
<1>4. bytes' + Len(stdout') + stderr' = written' /\ bytes' \in 0..MaxOutput
  BY <1>1, <1>3, TransportConstants DEF TransportInv, TypeOK
<1>5. /\ \A i \in Ids : request'[i] = "unsent" <=> i > serial'
      /\ NobodyWaitsInVain'
  BY <1>1, <1>2, OrderlyKeeps
<1>6. TypeOK'
  BY <1>1, <1>2, <1>3, <1>4, <1>5, TransportConstants
  DEF TransportInv, TypeOK, Orderly, Settling, Fates, Tokens, Part
<1> QED
  BY <1>1, <1>2, <1>3, <1>4, <1>5, <1>6 DEF TransportInv

LEMMA StdinErrorKeeps == TransportInv /\ StdinError => TransportInv'
<1> SUFFICES ASSUME TransportInv, StdinError PROVE TransportInv'
  OBVIOUS
<1>1. /\ IF closing THEN UNCHANGED <<failure, request, child>> ELSE Fail
      /\ UNCHANGED <<serial, closing, closed, exited, bytes, buffer, heir, stdout, stderr, written>>
  BY DEF StdinError
<1>2. Orderly
  BY <1>1, FailIsOrderly, IdleIsOrderly DEF TransportInv
<1>3. /\ \A i \in Ids : request'[i] = "unsent" <=> i > serial'
      /\ NobodyWaitsInVain'
  BY <1>1, <1>2, OrderlyKeeps
<1> QED
  BY <1>1, <1>2, <1>3 DEF TransportInv, TypeOK, Orderly, Settling, Fates

(* The 'close' event is the last: it comes after everything that was       *)
(* written, and finds a half line if there is one.                         *)
LEMMA ChildClosedKeeps == TransportInv /\ ChildClosed => TransportInv'
<1> SUFFICES ASSUME TransportInv, ChildClosed PROVE TransportInv'
  OBVIOUS
<1>1. /\ child = "dead" /\ ~exited /\ ~heir /\ stdout = <<>> /\ stderr = 0 /\ exited' = TRUE
      /\ IF FailsAtClose THEN Fail ELSE UNCHANGED <<failure, request, child>>
      /\ UNCHANGED <<serial, closing, closed, bytes, buffer, heir, stdout, stderr, written>>
  BY DEF ChildClosed, StreamsDone
<1>2. /\ Orderly
      /\ failure' \/ (~buffer /\ closing)
      /\ Pending' = {} \/ closing
  <2>1. CASE FailsAtClose
    BY <1>1, <2>1, FailIsOrderly DEF TransportInv
  <2>2. CASE ~FailsAtClose
    BY <1>1, <2>2, IdleIsOrderly DEF TransportInv, FailsAtClose
  <2> QED
    BY <2>1, <2>2
<1>3. /\ \A i \in Ids : request'[i] = "unsent" <=> i > serial'
      /\ NobodyWaitsInVain'
  BY <1>1, <1>2, OrderlyKeeps
<1>4. TypeOK'
  BY <1>1, <1>2, <1>3 DEF TransportInv, TypeOK, Orderly, Settling, Fates
<1> QED
  BY <1>1, <1>2, <1>3, <1>4 DEF TransportInv, Orderly

-----------------------------------------------------------------------------
(* The server *)

LEMMA CouldNotStartKeeps == TransportInv /\ CouldNotStart => TransportInv'
<1> SUFFICES ASSUME TransportInv, CouldNotStart PROVE TransportInv'
  OBVIOUS
<1>1. Settling /\ Pending' = {}
  BY RejectedSettles DEF TransportInv, CouldNotStart
<1>2. Orderly
  BY <1>1 DEF CouldNotStart, Orderly
<1>3. /\ \A i \in Ids : request'[i] = "unsent" <=> i > serial'
      /\ NobodyWaitsInVain'
  BY <1>2, OrderlyKeeps DEF CouldNotStart
<1> QED
  BY <1>2, <1>3 DEF CouldNotStart, TransportInv, TypeOK, Orderly, Settling, Fates

LEMMA WritesKeeps == TransportInv /\ Writes => TransportInv'
<1> SUFFICES ASSUME TransportInv, Writes PROVE TransportInv'
  OBVIOUS
<1>1. /\ written < MaxOutput /\ written' = written + 1 /\ ~exited
      /\ UNCHANGED <<request, serial, failure, closing, closed, exited, bytes, buffer, child, heir>>
  BY DEF Writes, clientVars, TransportInv, TypeOK
<1>2. Len(stdout) \in Nat
  BY LenProperties DEF TransportInv, TypeOK
<1>3. /\ stdout' \in Seq(Tokens) /\ Len(stdout') \in Nat /\ stderr' \in Nat
      /\ Len(stdout') + stderr' = Len(stdout) + stderr + 1
  <2>1. CASE \E t \in Tokens : stdout' = Append(stdout, t) /\ UNCHANGED stderr
    <3>1. stdout \in Seq(Tokens) /\ stderr \in Nat
      BY DEF TransportInv, TypeOK
    <3>2. PICK t \in Tokens : stdout' = Append(stdout, t)
      BY <2>1
    <3>3. Append(stdout, t) \in Seq(Tokens) /\ Len(Append(stdout, t)) = Len(stdout) + 1
      BY <3>1, AppendProperties
    <3> QED
      BY <1>2, <2>1, <3>1, <3>2, <3>3
  <2>2. CASE stderr' = stderr + 1 /\ UNCHANGED stdout
    <3>1. stdout \in Seq(Tokens) /\ stderr \in Nat
      BY DEF TransportInv, TypeOK
    <3> QED
      BY <1>2, <2>2, <3>1
  <2> QED
    BY <2>1, <2>2 DEF Writes
<1>4. /\ bytes' + Len(stdout') + stderr' = written'
      /\ written' \in 0..MaxOutput /\ stderr' \in 0..MaxOutput
  BY <1>1, <1>2, <1>3, TransportConstants DEF TransportInv, TypeOK
<1>5. TypeOK'
  BY <1>1, <1>3, <1>4 DEF TransportInv, TypeOK, Tokens, Part
<1> QED
  BY <1>1, <1>4, <1>5 DEF TransportInv, NobodyWaitsInVain, Pending

LEMMA ProcessesKeep ==
  TransportInv /\ (Starts \/ Forks \/ Exits \/ HeirExits) => TransportInv'
<1>1. TransportInv /\ Starts => TransportInv'
  BY DEF Starts, clientVars, TransportInv, TypeOK, NobodyWaitsInVain, Pending
<1>2. TransportInv /\ Forks => TransportInv'
  BY DEF Forks, clientVars, TransportInv, TypeOK, NobodyWaitsInVain, Pending
<1>3. TransportInv /\ Exits => TransportInv'
  <2> SUFFICES ASSUME TransportInv, Exits PROVE TransportInv'
    OBVIOUS
  <2>1. /\ ~exited /\ child' = "dead"
        /\ UNCHANGED <<clientVars, heir, stdout, stderr, written>>
    BY DEF Exits, TransportInv, TypeOK
  <2>2. TypeOK'
    BY <2>1 DEF clientVars, TransportInv, TypeOK
  <2> QED
    BY <2>1, <2>2 DEF clientVars, TransportInv, NobodyWaitsInVain, Pending
<1>4. TransportInv /\ HeirExits => TransportInv'
  <2> SUFFICES ASSUME TransportInv, HeirExits PROVE TransportInv'
    OBVIOUS
  <2>1. /\ ~exited /\ ~heir' /\ heir' \in BOOLEAN
        /\ UNCHANGED <<clientVars, child, stdout, stderr, written>>
    BY DEF HeirExits, TransportInv, TypeOK
  <2>2. TypeOK'
    BY <2>1 DEF clientVars, TransportInv, TypeOK
  <2> QED
    BY <2>1, <2>2 DEF clientVars, TransportInv, NobodyWaitsInVain, Pending
<1> QED
  BY <1>1, <1>2, <1>3, <1>4

-----------------------------------------------------------------------------
LEMMA InitHolds == Init => TransportInv
<1> SUFFICES ASSUME Init PROVE TransportInv
  OBVIOUS
<1>1. stdout = <<>> /\ stdout \in Seq(Tokens) /\ Len(stdout) = 0
  BY EmptySeq DEF Init
<1>2. /\ request \in [Ids -> Fates]
      /\ \A i \in Ids : request[i] = "unsent" <=> i > serial
  BY TransportConstants DEF Init, Ids, Fates
<1>3. TypeOK
  <2>1. /\ serial \in 0..MaxRequests /\ bytes \in 0..MaxOutput
        /\ stderr \in 0..MaxOutput /\ written \in 0..MaxOutput
    BY TransportConstants DEF Init
  <2>2. /\ failure \in BOOLEAN /\ closing \in BOOLEAN /\ closed \in BOOLEAN
        /\ exited \in BOOLEAN /\ buffer \in BOOLEAN /\ heir \in BOOLEAN
        /\ child \in {"starting", "running", "killed", "dead"}
        /\ ~closed /\ ~exited
    BY DEF Init
  <2> QED
    BY <1>1, <1>2, <2>1, <2>2 DEF TypeOK, Fates
<1> QED
  BY <1>1, <1>3, TransportConstants DEF Init, TransportInv, NobodyWaitsInVain

LEMMA NextKeeps == TransportInv /\ [Next]_vars => TransportInv'
<1>1. TransportInv /\ UNCHANGED vars => TransportInv'
  BY DEF vars, TransportInv, TypeOK, NobodyWaitsInVain, Pending
<1>2. TransportInv /\ EventLoop => TransportInv'
  BY StdoutDataKeeps, StderrDataKeeps, StdinErrorKeeps, ChildClosedKeeps DEF EventLoop
<1> QED
  BY <1>1, <1>2, RequestKeeps, TimeOutKeeps, CloseKeeps, KillTimerKeeps, CloseReturnsKeeps,
     CouldNotStartKeeps, WritesKeeps, ProcessesKeep
  DEF Next

(* The invariant holds throughout. *)
THEOREM TransportInvariance == Spec => []TransportInv
  BY InitHolds, NextKeeps, PTL DEF Spec

(* Every reachable state of a transport has its types, its ids in order    *)
(* and its close() after its child's 'close' event (connectStdio).         *)
THEOREM TypeCorrect == Spec => []TypeOK
<1>1. TransportInv => TypeOK
  BY DEF TransportInv
<1> QED
  BY <1>1, TransportInvariance, PTL

(* Nobody waits on a transport that has failed, is closing or has seen its *)
(* child close (fail, write, close of connectStdio).                       *)
THEOREM NobodyLeftWaiting == Spec => []NobodyWaitsInVain
<1>1. TransportInv => NobodyWaitsInVain
  BY DEF TransportInv
<1> QED
  BY <1>1, TransportInvariance, PTL

(* A transport that is healthy after close() has seen everything its       *)
(* server and the server's heirs ever wrote (close, assertHealthy).        *)
THEOREM HealthIsEarned == Spec => []HealthyMeansClean
<1>1. TransportInv => HealthyMeansClean
  <2> SUFFICES ASSUME TransportInv, closed, ~failure
               PROVE  /\ ~buffer /\ bytes = written /\ written <= MaxBytes
                      /\ child = "dead" /\ ~heir
    BY DEF HealthyMeansClean
  <2>1. exited /\ stdout = <<>> /\ stderr = 0 /\ child = "dead" /\ ~heir
    BY DEF TransportInv, TypeOK
  <2>2. bytes = written
    BY <2>1, EmptySeq DEF TransportInv, TypeOK
  <2> QED
    BY <2>1, <2>2 DEF TransportInv
<1> QED
  BY <1>1, TransportInvariance, PTL

(* A request is settled once: no late reply, timer or failure turns what   *)
(* its caller was told (the data callback and fail of connectStdio).       *)
THEOREM SettlementStands == Spec => SettledOnce
<1> DEFINE Stands == \A i \in Ids : request[i] \in {"resolved", "rejected"}
                                      => request'[i] = request[i]
<1>1. Settling => Stands
  BY DEF Settling
<1>2. TransportInv /\ [Next]_vars => [Stands]_vars
  <2> SUFFICES ASSUME TransportInv, Next PROVE Stands
    OBVIOUS
  <2>1. ASSUME NEW o \in Oversize, Request(o) PROVE Stands
    BY <2>1, TransportConstants DEF Request, TransportInv, TypeOK, Ids
  <2>2. ASSUME NEW i \in Ids, TimeOut(i) PROVE Stands
    BY <1>1, <2>2, FailIsOrderly DEF TimeOut, TransportInv, Orderly
  <2>3. ASSUME NEW n \in 1..Len(stdout), StdoutData(n) PROVE Stands
    BY <1>1, <2>3, DataIsOrderly DEF TransportInv, Orderly
  <2>4. ASSUME StderrData \/ StdinError \/ ChildClosed PROVE Stands
    BY <1>1, <2>4, FailIsOrderly
    DEF StderrData, StdinError, ChildClosed, TransportInv, Orderly
  <2>5. ASSUME Close \/ CouldNotStart PROVE Stands
    BY <1>1, <2>5, RejectedSettles DEF Close, CouldNotStart, TransportInv
  <2>6. ASSUME KillTimer \/ CloseReturns \/ Starts \/ Writes \/ Forks \/ Exits \/ HeirExits
        PROVE  Stands
    BY <2>6 DEF KillTimer, CloseReturns, Starts, Writes, Forks, Exits, HeirExits, clientVars
  <2> QED
    BY <2>1, <2>2, <2>3, <2>4, <2>5, <2>6 DEF Next, EventLoop
<1>3. Spec => [][Stands]_vars
  BY <1>2, TransportInvariance, PTL DEF Spec
<1> QED
  BY <1>3 DEF SettledOnce

-----------------------------------------------------------------------------
(* The run *)

(* The phases in the order in which a run that fails nowhere passes them.  *)
Admitting == {"check", "verify admission", "load", "digest binary"}
Preparing == {"read manifest", "verify start", "spawn"}
Judging == {"closed", "verify end", "digest binary again"}
Drained == Judging \cup {"close", "digest manifest again"}

(* An executable that is not the one digested is caught by the second      *)
(* digest as long as the file stays as it is; when it does not, it was     *)
(* given back after the start. Only then do equal digests leave a doubt.   *)
RunInv ==
  /\ phase \in Admitting \cup Preparing \cup Connected \cup Drained \cup {"over"}
  /\ files \in [Files -> Nat] /\ rewrites \in [Files -> Nat]
  /\ DOMAIN held = Files
  /\ phase \notin {"close", "over"} => verdict = Nil
  /\ verdict = "passed" => phase = "over"
  /\ phase \in Connected \cup Drained =>
       /\ ran \in Nat
       /\ \/ ran = held["binary"] \/ files["binary"] # held["binary"]
          \/ "binary" \in restored
  /\ verdict = Nil /\ phase \in Drained => calls = <<>>
  /\ phase \in {"verify end", "digest binary again", "digest manifest again"} => healthy
  /\ phase = "digest manifest again" => ran = held["binary"] \/ "binary" \in restored
  /\ CertifiedIsWhatRan /\ AnswersAreAsDeclared

-----------------------------------------------------------------------------
LEMMA AgreementStays ==
  ASSUME AnswersAreAsDeclared, UNCHANGED last PROVE AnswersAreAsDeclared'
BY DEF AnswersAreAsDeclared

FailsWith ==
  phase' = (IF phase \in Connected THEN "close" ELSE "over") /\ verdict' \in Failures

(* A demand that does not hold ends the run.                               *)
LEMMA FailWithKeeps ==
  ASSUME RunInv, UNCHANGED <<disk, held, runVars>>, phase \notin {"over", "close"},
         FailsWith
  PROVE  RunInv'
<1>1. AnswersAreAsDeclared'
  BY AgreementStays DEF RunInv, runVars
<1>2. verdict' # Nil /\ verdict' # "passed"
  BY NilIsNoText DEF FailsWith, Failures
<1> QED
  BY <1>1, <1>2
  DEF FailsWith, RunInv, disk, runVars, CertifiedIsWhatRan,
      Admitting, Preparing, Connected, Drained, Judging, Failures

(* A demand that holds moves the run on.                                   *)
LEMMA MoveKeeps ==
  ASSUME RunInv, UNCHANGED <<disk, held, runVars, verdict>>,
         \/ phase \in Admitting \ {"digest binary"} /\ phase' \in Admitting
         \/ phase = "verify start" /\ phase' = "spawn"
         \/ phase \in Connected /\ phase' \in Connected
         \/ phase = "call" /\ phase' = "close" /\ calls = <<>>
         \/ phase = "closed" /\ phase' = "verify end" /\ healthy
         \/ phase = "verify end" /\ phase' = "digest binary again"
         \/ /\ phase = "digest binary again" /\ phase' = "digest manifest again"
            /\ held["binary"] = files["binary"]
  PROVE  RunInv'
<1>1. AnswersAreAsDeclared'
  BY AgreementStays DEF RunInv, runVars
<1>2. verdict = Nil /\ verdict' = Nil /\ Nil # "passed"
  BY NilIsNoText DEF RunInv, Admitting, Connected
<1> QED
  BY <1>1, <1>2
  DEF RunInv, disk, runVars, CertifiedIsWhatRan,
      Admitting, Preparing, Connected, Drained, Judging, Failures

-----------------------------------------------------------------------------
LEMMA EditKeeps == RunInv /\ Edit => RunInv'
<1> SUFFICES ASSUME RunInv, Edit PROVE RunInv'
  OBVIOUS
<1>1. /\ phase # "over"
      /\ UNCHANGED <<phase, held, verdict, runVars>>
  BY DEF Edit
<1>2. PICK f \in Files : \E contents \in 0..(rewrites[f] + 1) :
        /\ rewrites' = [rewrites EXCEPT ![f] = @ + 1]
        /\ files' = [files EXCEPT ![f] = contents]
        /\ restored' = IF ran # Nil /\ contents = held[f] THEN restored \cup {f} ELSE restored
  BY DEF Edit
<1>3. PICK contents \in 0..(rewrites[f] + 1) :
        /\ rewrites' = [rewrites EXCEPT ![f] = @ + 1]
        /\ files' = [files EXCEPT ![f] = contents]
        /\ restored' = IF ran # Nil /\ contents = held[f] THEN restored \cup {f} ELSE restored
  BY <1>2
<1>4. files \in [Files -> Nat] /\ rewrites \in [Files -> Nat] /\ "binary" \in Files
  BY DEF RunInv, Files
<1>5. files' \in [Files -> Nat] /\ rewrites' \in [Files -> Nat] /\ restored \subseteq restored'
  BY <1>1, <1>3, <1>4
<1>6. verdict' # "passed"
  BY <1>1 DEF RunInv
<1>7. AnswersAreAsDeclared'
  BY <1>1, AgreementStays DEF RunInv, runVars
<1>8. ASSUME ran \in Nat, ran = held["binary"] \/ files["binary"] # held["binary"]
                         \/ "binary" \in restored
      PROVE  ran' = held'["binary"] \/ files'["binary"] # held'["binary"]
                \/ "binary" \in restored'
  <2>1. ran # Nil
    BY <1>8, NilIsNoNumber
  <2>2. CASE f = "binary"
    BY <1>1, <1>3, <1>4, <2>1, <2>2 DEF runVars
  <2>3. CASE f # "binary"
    BY <1>1, <1>3, <1>4, <1>5, <1>8, <2>3 DEF runVars
  <2> QED
    BY <2>2, <2>3
<1> QED
  BY <1>1, <1>5, <1>6, <1>7, <1>8
  DEF RunInv, disk, runVars, CertifiedIsWhatRan

LEMMA RunCheckKeeps == RunInv /\ RunCheck => RunInv'
<1> SUFFICES ASSUME RunInv, RunCheck PROVE RunInv'
  OBVIOUS
<1>1. /\ phase = "check" /\ UNCHANGED <<disk, runVars>> /\ DOMAIN held' = Files
      /\ \/ phase' = "verify admission" /\ verdict' = verdict
         \/ phase' = "over" /\ verdict' = "parity did not pass"
  BY DEF RunCheck, Demand, FailWith, Continue, Connected
<1> QED
  BY <1>1, AgreementStays, NilIsNoText
  DEF RunInv, disk, runVars, CertifiedIsWhatRan,
      Admitting, Preparing, Connected, Drained, Judging, Failures

LEMMA VerifyCurrentKeeps == RunInv /\ VerifyCurrent => RunInv'
<1> SUFFICES ASSUME RunInv, VerifyCurrent PROVE RunInv'
  OBVIOUS
<1>1. UNCHANGED <<disk, held, runVars>> /\ phase \notin {"over", "close"}
  BY DEF VerifyCurrent
<1>2. CASE SourcesCurrent
  <2>1. /\ verdict' = verdict
        /\ \/ phase = "verify admission" /\ phase' = "load"
           \/ phase = "verify start" /\ phase' = "spawn"
           \/ phase = "verify end" /\ phase' = "digest binary again"
    BY <1>2 DEF VerifyCurrent, Demand, Continue
  <2> QED
    BY <1>1, <2>1, MoveKeeps DEF Admitting
<1>3. CASE ~SourcesCurrent
  BY <1>1, <1>3, FailWithKeeps DEF VerifyCurrent, Demand, FailWith, FailsWith, Failures
<1> QED
  BY <1>2, <1>3

LEMMA LoadSchemasKeeps == RunInv /\ LoadSchemas => RunInv'
<1> SUFFICES ASSUME RunInv, LoadSchemas PROVE RunInv'
  OBVIOUS
<1>1. /\ phase = "load"
      /\ UNCHANGED <<disk, held, runVars>>
      /\ \/ phase' = "digest binary" /\ verdict' = verdict
         \/ FailsWith
  BY DEF LoadSchemas, Demand, Continue, FailWith, FailsWith, Failures
<1> QED
  BY <1>1, MoveKeeps, FailWithKeeps DEF Admitting

LEMMA DigestBinaryKeeps == RunInv /\ DigestBinary => RunInv'
<1> SUFFICES ASSUME RunInv, DigestBinary PROVE RunInv'
  OBVIOUS
<1>1. /\ phase = "digest binary" /\ phase' = "read manifest"
      /\ DOMAIN held' = Files /\ held'["binary"] = files["binary"]
      /\ UNCHANGED <<disk, verdict, runVars>>
  BY DEF DigestBinary, Continue, RunInv, Files
<1>2. verdict' = Nil /\ verdict' # "passed" /\ AnswersAreAsDeclared'
  BY <1>1, AgreementStays, NilIsNoText DEF RunInv, disk, runVars, Admitting, Preparing
<1> QED
  BY <1>1, <1>2
  DEF RunInv, disk, runVars, CertifiedIsWhatRan, Admitting, Preparing, Connected, Drained, Judging

LEMMA ReadManifestKeeps == RunInv /\ ReadManifest => RunInv'
<1> SUFFICES ASSUME RunInv, ReadManifest PROVE RunInv'
  OBVIOUS
<1>1. /\ phase = "read manifest"
      /\ DOMAIN held' = Files /\ held'["binary"] = held["binary"]
      /\ UNCHANGED <<disk, ran, made, last, healthy>>
  BY DEF ReadManifest, RunInv, Files
<1>2. \/ phase' = "verify start" /\ verdict' = verdict
      \/ phase' = "over" /\ verdict' \in Failures
  <2>1. PICK text \in Manifests :
          \/ FailWith("unsupported operation manifest")
          \/ Demand(\A i \in DOMAIN calls' :
                       /\ calls'[i].tool.declared /\ ~Split(calls'[i].args)
                       /\ SchemaAccepts(calls'[i].args) <=> calls'[i].sort = "valid",
                     "call contradicts contract", "verify start")
    BY DEF ReadManifest
  <2>2. \/ FailWith("unsupported operation manifest") \/ FailWith("call contradicts contract")
        \/ Continue("verify start")
    BY <2>1 DEF Demand
  <2> QED
    BY <1>1, <2>2 DEF FailWith, Continue, Connected, Failures
<1> QED
  BY <1>1, <1>2, AgreementStays, NilIsNoText
  DEF RunInv, disk, CertifiedIsWhatRan, Admitting, Preparing, Connected, Drained, Judging, Failures

LEMMA SpawnKeeps == RunInv /\ Spawn => RunInv'
<1> SUFFICES ASSUME RunInv, Spawn PROVE RunInv'
  OBVIOUS
<1>1. /\ phase = "spawn" /\ phase' = "initialize" /\ ran' = files["binary"]
      /\ UNCHANGED <<disk, held, manifest, calls, made, last, healthy, verdict>>
  BY DEF Spawn, Continue
<1>2. files["binary"] \in Nat
  BY DEF RunInv, Files
<1>3. verdict' = Nil /\ verdict' # "passed" /\ AnswersAreAsDeclared'
  BY <1>1, AgreementStays, NilIsNoText DEF RunInv, Admitting, Preparing
<1>4. /\ ran' \in Nat
      /\ ran' = held'["binary"] \/ files'["binary"] # held'["binary"]
  BY <1>1, <1>2 DEF disk
<1> QED
  BY <1>1, <1>3, <1>4
  DEF RunInv, disk, CertifiedIsWhatRan, Admitting, Preparing, Connected, Drained, Judging

-----------------------------------------------------------------------------
(* With the server *)

LEMMA RequestRejectedKeeps == RunInv /\ RequestRejected => RunInv'
<1> SUFFICES ASSUME RunInv, RequestRejected PROVE RunInv'
  OBVIOUS
<1>1. /\ phase \in Connected /\ phase' = "close" /\ verdict' = "transport"
      /\ UNCHANGED <<disk, held, ran, manifest, calls, made, last>>
  BY DEF RequestRejected, FailWith
<1> QED
  BY <1>1, AgreementStays, NilIsNoText
  DEF RunInv, disk, CertifiedIsWhatRan, Admitting, Preparing, Connected, Drained, Judging, Failures

LEMMA MisbehaveKeeps == RunInv /\ Misbehave => RunInv'
  BY AgreementStays
  DEF Misbehave, RunInv, disk, CertifiedIsWhatRan,
      Admitting, Preparing, Connected, Drained, Judging, Failures

LEMMA NegotiateKeeps == RunInv /\ Negotiate => RunInv'
<1> SUFFICES ASSUME RunInv, Negotiate PROVE RunInv'
  OBVIOUS
<1>1. /\ phase = "initialize"
      /\ UNCHANGED <<disk, held, runVars>>
      /\ \/ phase' = "catalog" /\ verdict' = verdict
         \/ FailsWith
  BY DEF Negotiate, Demand, Continue, FailWith, FailsWith, Failures
<1> QED
  BY <1>1, MoveKeeps, FailWithKeeps DEF Connected

LEMMA ListCatalogKeeps == RunInv /\ ListCatalog => RunInv'
<1> SUFFICES ASSUME RunInv, ListCatalog PROVE RunInv'
  OBVIOUS
<1>1. /\ phase = "catalog"
      /\ UNCHANGED <<disk, held, runVars>>
      /\ \/ phase' = "call" /\ verdict' = verdict
         \/ FailsWith
  BY DEF ListCatalog, Demand, Continue, FailWith, FailsWith, Failures
<1> QED
  BY <1>1, MoveKeeps, FailWithKeeps DEF Connected

(* What is taken agrees with all that the answer says.                     *)
LEMMA TakenAgrees ==
  ASSUME NEW call, NEW r, TakenAs(call, r), last' = [call |-> call, response |-> r]
  PROVE  AnswersAreAsDeclared'
<1>1. last'.call = call /\ last'.response = r
  OBVIOUS
<1>2. CASE call.sort # "valid"
  <2>1. ~Succeeded(r)
    <3>1. r.error # Nil \/ r.isError = TRUE
      BY <1>2, NilIsNoCode DEF TakenAs, Refused
    <3> QED
      BY <3>1, Zenon DEF Succeeded
  <2> QED
    BY <1>1, <1>2, <2>1 DEF AnswersAreAsDeclared
<1>3. CASE call.sort = "valid"
  <2>1. ReadPayload(r, call.tool.encoding) = "good" /\ Nil # "good"
    BY <1>3, NilIsNoText DEF TakenAs, SchemaAccepts
  <2>2. Succeeded(r)
    BY <2>1 DEF ReadPayload, Succeeded
  <2>3. SaysGood(r, call.tool.encoding)
    <3>1. CASE call.tool.encoding = "structured"
      BY <2>1, <3>1 DEF ReadPayload, SaysGood
    <3>2. CASE call.tool.encoding # "structured"
      BY <2>1, <3>2 DEF ReadPayload, ParsesStrictly, SaysGood
    <3> QED
      BY <3>1, <3>2
  <2> QED
    BY <1>1, <1>3, <2>2, <2>3 DEF AnswersAreAsDeclared
<1> QED
  BY <1>2, <1>3

LEMMA CallKeeps == RunInv /\ Call => RunInv'
<1> SUFFICES ASSUME RunInv, Call PROVE RunInv'
  OBVIOUS
<1>1. phase = "call" /\ UNCHANGED <<disk, held, ran, manifest, healthy>>
  BY DEF Call
<1>2. \/ phase' = "call" /\ verdict' = verdict
      \/ phase' = "close" /\ verdict' = "call"
  BY <1>1 DEF Call, FailWith, Connected
<1>3. AnswersAreAsDeclared'
  BY TakenAgrees, AgreementStays DEF Call, RunInv
<1> QED
  BY <1>1, <1>2, <1>3, NilIsNoText
  DEF RunInv, disk, CertifiedIsWhatRan, Admitting, Preparing, Connected, Drained, Judging, Failures

LEMMA AssertHealthyKeeps == RunInv /\ AssertHealthy => RunInv'
<1> SUFFICES ASSUME RunInv, AssertHealthy PROVE RunInv'
  OBVIOUS
<1>1. UNCHANGED <<disk, held, runVars>> /\ phase \in {"call", "closed"}
  BY DEF AssertHealthy
<1>2. CASE healthy
  <2>1. /\ verdict' = verdict
        /\ \/ phase = "call" /\ calls = <<>> /\ phase' = "close"
           \/ phase = "closed" /\ phase' = "verify end"
    BY <1>2 DEF AssertHealthy, Demand, Continue
  <2> QED
    BY <1>1, <1>2, <2>1, MoveKeeps
<1>3. CASE ~healthy
  BY <1>1, <1>3, FailWithKeeps DEF AssertHealthy, Demand, FailWith, FailsWith, Failures
<1> QED
  BY <1>2, <1>3

LEMMA CloseTransportKeeps == RunInv /\ CloseTransport => RunInv'
  BY AgreementStays, NilIsNoText
  DEF CloseTransport, RunInv, disk, runVars, CertifiedIsWhatRan, Admitting, Preparing, Connected, Drained,
      Judging, Failures

-----------------------------------------------------------------------------
(* The certificate *)

LEMMA DigestBinaryAgainKeeps == RunInv /\ DigestBinaryAgain => RunInv'
<1> SUFFICES ASSUME RunInv, DigestBinaryAgain PROVE RunInv'
  OBVIOUS
<1>1. UNCHANGED <<disk, held, runVars>> /\ phase = "digest binary again"
  BY DEF DigestBinaryAgain
<1>2. CASE held["binary"] = files["binary"]
  <2>1. verdict' = verdict /\ phase' = "digest manifest again"
    BY <1>2 DEF DigestBinaryAgain, StillIs, Demand, Continue
  <2> QED
    BY <1>1, <1>2, <2>1, MoveKeeps
<1>3. CASE held["binary"] # files["binary"]
  BY <1>1, <1>3, FailWithKeeps DEF DigestBinaryAgain, StillIs, Demand, FailWith, FailsWith, Failures
<1> QED
  BY <1>2, <1>3

LEMMA CertifyKeeps == RunInv /\ Certify => RunInv'
<1> SUFFICES ASSUME RunInv, Certify PROVE RunInv'
  OBVIOUS
<1>1. /\ phase = "digest manifest again" /\ phase' = "over"
      /\ verdict' = IF StillIs("manifest") THEN "passed" ELSE "manifest changed"
      /\ UNCHANGED <<disk, held, runVars>>
  BY DEF Certify
<1>2. /\ verdict = Nil /\ calls = <<>> /\ healthy
      /\ ran = held["binary"] \/ "binary" \in restored
  BY <1>1 DEF RunInv, Drained
<1>3. CertifiedIsWhatRan'
  BY <1>1, <1>2 DEF CertifiedIsWhatRan, StillIs, runVars, disk
<1> QED
  BY <1>1, <1>3, AgreementStays
  DEF RunInv, disk, runVars, Admitting, Preparing, Connected, Drained, Judging, Failures

-----------------------------------------------------------------------------
LEMMA InitRuns == ConformanceInit => RunInv
<1> SUFFICES ASSUME ConformanceInit PROVE RunInv
  OBVIOUS
<1>1. /\ phase = "check" /\ files \in [Files -> Nat] /\ rewrites \in [Files -> Nat]
      /\ DOMAIN held = Files /\ verdict = Nil /\ last = Nil
  BY DEF ConformanceInit
<1>2. AnswersAreAsDeclared /\ verdict # "passed"
  BY <1>1, NilIsNoText DEF AnswersAreAsDeclared
<1> QED
  BY <1>1, <1>2
  DEF RunInv, disk, CertifiedIsWhatRan, Admitting, Preparing, Connected, Drained, Judging

(* The invariant holds throughout. *)
THEOREM RunInvariance == ConformanceSpec => []RunInv
<1>1. RunInv /\ UNCHANGED conformanceVars => RunInv'
  <2> SUFFICES ASSUME RunInv, UNCHANGED conformanceVars PROVE RunInv'
    OBVIOUS
  <2>1. AnswersAreAsDeclared'
    BY AgreementStays DEF conformanceVars, disk, runVars, RunInv
  <2> QED
    BY <2>1 DEF conformanceVars, disk, runVars, RunInv, disk, CertifiedIsWhatRan
<1>2. RunInv /\ [ConformanceNext]_conformanceVars => RunInv'
  BY <1>1, EditKeeps, RunCheckKeeps, VerifyCurrentKeeps, LoadSchemasKeeps, DigestBinaryKeeps,
     ReadManifestKeeps, SpawnKeeps, RequestRejectedKeeps, MisbehaveKeeps, NegotiateKeeps,
     ListCatalogKeeps, CallKeeps, AssertHealthyKeeps, CloseTransportKeeps, DigestBinaryAgainKeeps,
     CertifyKeeps
  DEF ConformanceNext
<1> QED
  BY <1>2, InitRuns, PTL DEF ConformanceSpec

(* The certificate names the executable that ran, however the files are    *)
(* edited while the runner works, unless the executable on disk was given  *)
(* back the digested contents after the start; and it names the manifest   *)
(* on disk (checkImplementation).                                          *)
THEOREM CertificateIsTrue == ConformanceSpec => []CertifiedIsWhatRan
<1>1. RunInv => CertifiedIsWhatRan
  BY DEF RunInv
<1> QED
  BY <1>1, RunInvariance, PTL

(* Whatever the server answers, an answer is taken for what the encoding   *)
(* of its operation declares: text whose representations agree, structured *)
(* content whatever the text beside it says, or a refusal (readToolPayload,*)
(* assertInvalidCall).                                                     *)
THEOREM AnswersAreDeclared == ConformanceSpec => []AnswersAreAsDeclared
<1>1. RunInv => AnswersAreAsDeclared
  BY DEF RunInv
<1> QED
  BY <1>1, RunInvariance, PTL

-----------------------------------------------------------------------------
(* The calls *)

Calls(m) == UNION {ToSet(CallsOf(m.tools[i])) : i \in DOMAIN m.tools}
Marks(s, sort) == [i \in DOMAIN s |-> IF s[i].sort = sort THEN 1 ELSE 0]
Count(s, sort) == SumSeq(Marks(s, sort))
Numbers(m, sort) == [i \in DOMAIN m.tools |-> Len(m.tools[i][sort])]

(* What was asked and what is left to ask is all that the manifest says.   *)
CountInv ==
  /\ made \in [Sorts -> Nat]
  /\ phase \in Admitting \cup {"read manifest"} => \A sort \in Sorts : made[sort] = 0
  /\ phase \in (Preparing \ {"read manifest"}) \cup Connected \cup Drained \/ verdict = "passed" =>
       /\ calls \in Seq(Calls(manifest))
       /\ \A sort \in Sorts :
            made[sort] + Count(calls, sort) = SumSeq(Numbers(manifest, sort))

LEMMA MarksAreNumbers ==
  ASSUME NEW T, NEW s \in Seq(T), NEW sort
  PROVE  Marks(s, sort) \in Seq(Nat) /\ Count(s, sort) \in Nat
<1>1. Marks(s, sort) \in Seq(Nat)
  BY DEF Marks
<1> QED
  BY <1>1, SumAppend DEF Count

LEMMA CountConcat ==
  ASSUME NEW T, NEW a \in Seq(T), NEW b \in Seq(T), NEW sort
  PROVE  Count(a \o b, sort) = Count(a, sort) + Count(b, sort)
<1>1. Marks(a, sort) \in Seq(Nat) /\ Marks(b, sort) \in Seq(Nat)
  BY MarksAreNumbers
<1>2. Marks(a \o b, sort) = Marks(a, sort) \o Marks(b, sort)
  <2>1. /\ Marks(a \o b, sort) \in Seq(Nat)
        /\ Marks(a, sort) \o Marks(b, sort) \in Seq(Nat)
    <3>1. a \o b \in Seq(T)
      BY ConcatProperties
    <3> QED
      BY <1>1, <3>1, MarksAreNumbers, ConcatProperties
  <2>2. /\ Len(Marks(a \o b, sort)) = Len(a) + Len(b)
        /\ Len(Marks(a, sort)) = Len(a) /\ Len(Marks(b, sort)) = Len(b)
    BY DEF Marks
  <2>3. \A i \in 1..(Len(a) + Len(b)) :
          Marks(a \o b, sort)[i] = (Marks(a, sort) \o Marks(b, sort))[i]
    <3> SUFFICES ASSUME NEW i \in 1..(Len(a) + Len(b))
                 PROVE  Marks(a \o b, sort)[i] = (Marks(a, sort) \o Marks(b, sort))[i]
      OBVIOUS
    <3>1. (a \o b)[i] = IF i <= Len(a) THEN a[i] ELSE b[i - Len(a)]
      OBVIOUS
    <3>2. (Marks(a, sort) \o Marks(b, sort))[i] =
            IF i <= Len(a) THEN Marks(a, sort)[i] ELSE Marks(b, sort)[i - Len(a)]
      BY <1>1, <2>2
    <3> QED
      BY <3>1, <3>2 DEF Marks
  <2>4. Len(Marks(a, sort) \o Marks(b, sort)) = Len(a) + Len(b)
    <3>1. Len(Marks(a, sort) \o Marks(b, sort)) = Len(Marks(a, sort)) + Len(Marks(b, sort))
      BY <1>1, ConcatProperties
    <3> QED BY <2>2, <3>1
  <2> QED
    BY <2>1, <2>2, <2>3, <2>4, SeqEqual
<1> QED
  BY <1>1, <1>2, SumConcat DEF Count

(* A tool is called once with each of its valid and of its invalid         *)
(* arguments.                                                              *)
LEMMA CallsOfCounted ==
  ASSUME NEW tool, \A sort \in Sorts : IsArray(tool[sort]), NEW sort \in Sorts
  PROVE  /\ CallsOf(tool) \in Seq(ToSet(CallsOf(tool)))
         /\ Count(CallsOf(tool), sort) = Len(tool[sort]) /\ Len(tool[sort]) \in Nat
<1> DEFINE A == [i \in DOMAIN tool.valid |-> [tool |-> tool, sort |-> "valid", args |-> tool.valid[i]]]
           B == [i \in DOMAIN tool.invalid |-> [tool |-> tool, sort |-> "invalid", args |-> tool.invalid[i]]]
           T == {A[i] : i \in DOMAIN A} \cup {B[i] : i \in DOMAIN B}
<1>1. /\ Len(tool.valid) \in Nat /\ DOMAIN tool.valid = 1..Len(tool.valid)
      /\ Len(tool.invalid) \in Nat /\ DOMAIN tool.invalid = 1..Len(tool.invalid)
  BY DEF IsArray, Sorts
<1>2. A \in Seq(T) /\ B \in Seq(T) /\ CallsOf(tool) = A \o B
  BY <1>1 DEF CallsOf
<1>3. /\ Marks(A, "valid") = [i \in 1..Len(tool.valid) |-> 1]
      /\ Marks(A, "invalid") = [i \in 1..Len(tool.valid) |-> 0]
      /\ Marks(B, "valid") = [i \in 1..Len(tool.invalid) |-> 0]
      /\ Marks(B, "invalid") = [i \in 1..Len(tool.invalid) |-> 1]
  BY <1>1 DEF Marks
<1>4. /\ Count(A, "valid") = Len(tool.valid) /\ Count(A, "invalid") = 0
      /\ Count(B, "invalid") = Len(tool.invalid) /\ Count(B, "valid") = 0
  <2>1. \A n \in Nat : SumSeq([i \in 1..n |-> 1]) = n /\ SumSeq([i \in 1..n |-> 0]) = 0
    BY SumOfSame
  <2> HIDE DEF A, B
  <2> QED BY <1>1, <1>3, <2>1 DEF Count
<1> HIDE DEF A, B, T
<1>5. Count(CallsOf(tool), sort) = Count(A, sort) + Count(B, sort)
  BY <1>2, CountConcat
<1>6. CallsOf(tool) \in Seq(ToSet(CallsOf(tool)))
  <2>1. CallsOf(tool) \in Seq(T)
    BY <1>2
  <2> QED
    BY <2>1 DEF ToSet
<1> QED
  BY <1>1, <1>4, <1>5, <1>6 DEF Sorts

LEMMA AllCallsCounted ==
  ASSUME NEW m, ValidateManifest(m)
  PROVE  /\ AllCalls(m) \in Seq(Calls(m))
         /\ \A sort \in Sorts : Count(AllCalls(m), sort) = SumSeq(Numbers(m, sort))
<1> DEFINE tools == m.tools
           n == Len(tools)
           First(k) == [i \in 1..k |-> CallsOf(tools[i])]
           Nums(k, sort) == [i \in 1..k |-> Len(tools[i][sort])]
           Good(k) == /\ FlattenSeq(First(k)) \in Seq(Calls(m))
                      /\ \A sort \in Sorts : Count(FlattenSeq(First(k)), sort) = SumSeq(Nums(k, sort))
           S == {k \in 0..n : Good(k)}
<1>1. n \in Nat /\ DOMAIN tools = 1..n
      /\ \A i \in 1..n : \A sort \in Sorts : IsArray(tools[i][sort])
  BY DEF ValidateManifest, ValidOperation, IsArray
<1>2. \A i \in 1..n : /\ CallsOf(tools[i]) \in Seq(Calls(m))
                      /\ \A sort \in Sorts : /\ Count(CallsOf(tools[i]), sort) = Len(tools[i][sort])
                                             /\ Len(tools[i][sort]) \in Nat
  <2> SUFFICES ASSUME NEW i \in 1..n, NEW sort \in Sorts
               PROVE  /\ CallsOf(tools[i]) \in Seq(Calls(m))
                      /\ Count(CallsOf(tools[i]), sort) = Len(tools[i][sort])
                      /\ Len(tools[i][sort]) \in Nat
    BY DEF Sorts
  <2>1. /\ CallsOf(tools[i]) \in Seq(ToSet(CallsOf(tools[i])))
        /\ Count(CallsOf(tools[i]), sort) = Len(tools[i][sort])
        /\ Len(tools[i][sort]) \in Nat
    BY <1>1, CallsOfCounted
  <2>2. ToSet(CallsOf(tools[i])) \subseteq Calls(m)
    BY <1>1 DEF Calls
  <2> QED
    BY <2>1, <2>2
<1>3. 0 \in S
  <2>1. First(0) = <<>> /\ \A sort : Nums(0, sort) = <<>>
    OBVIOUS
  <2>2. FlattenSeq(First(0)) = <<>>
    BY <2>1, FlattenEmpty
  <2>3. \A sort : Count(<<>>, sort) = 0
    <3>1. \A sort : Marks(<<>>, sort) = <<>>
      BY DEF Marks
    <3> QED BY <3>1, SumEmpty DEF Count
  <2>4. <<>> \in Seq(Calls(m))
    BY EmptySeq
  <2>5. \A sort : SumSeq(Nums(0, sort)) = 0
    BY <2>1, SumEmpty
  <2>6. 0 \in 0..n
    BY <1>1
  <2> HIDE DEF First, Nums, n
  <2>7. Good(0)
    BY <2>2, <2>3, <2>4, <2>5
  <2> QED
    BY <2>6, <2>7
<1>4. ASSUME NEW k \in 0..(n - 1), k \in S PROVE k + 1 \in S
  <2>1. k \in Nat /\ k + 1 \in 1..n /\ k + 1 \in 0..n /\ \A i \in 1..k : i \in 1..n
    BY <1>1
  <2> DEFINE c == CallsOf(tools[k + 1])
             f == First(k)
  <2>2. c \in Seq(Calls(m)) /\ f \in Seq(Seq(Calls(m)))
    BY <1>2, <2>1
  <2>3. First(k + 1) = Append(f, c)
    BY <2>1
  <2>4. FlattenSeq(First(k + 1)) = FlattenSeq(f) \o c /\ FlattenSeq(f) \in Seq(Calls(m))
    <3> HIDE DEF First, f, c
    <3> QED BY <2>2, <2>3, FlattenAppend
  <2>5. FlattenSeq(f) \o c \in Seq(Calls(m))
    <3> HIDE DEF f, c
    <3> QED BY <2>2, <2>4
  <2>6. ASSUME NEW sort \in Sorts
        PROVE  Count(FlattenSeq(f) \o c, sort) = SumSeq(Nums(k + 1, sort))
    <3> DEFINE x == Len(tools[k + 1][sort])
    <3>1. x \in Nat /\ Count(c, sort) = x
      BY <1>2, <2>1
    <3>2. Nums(k, sort) \in Seq(Nat) /\ Nums(k + 1, sort) = Append(Nums(k, sort), x)
      BY <1>2, <2>1
    <3>3. SumSeq(Nums(k + 1, sort)) = SumSeq(Nums(k, sort)) + x
      <4> HIDE DEF Nums, x
      <4> QED BY <3>1, <3>2, SumAppend
    <3>4. Count(FlattenSeq(f), sort) = SumSeq(Nums(k, sort))
      BY <1>4
    <3>5. Count(FlattenSeq(f) \o c, sort) = Count(FlattenSeq(f), sort) + Count(c, sort)
      <4> HIDE DEF f, c
      <4> QED BY <2>2, <2>4, CountConcat
    <3> HIDE DEF f, c, Nums, x
    <3> QED BY <3>1, <3>3, <3>4, <3>5
  <2> HIDE DEF f, c, First, Nums
  <2>7. Good(k + 1)
    BY <2>4, <2>5, <2>6
  <2> QED
    BY <2>1, <2>7
<1>5. Good(n)
  <2>1. 0..n \subseteq S
    <3> HIDE DEF S, n
    <3> QED BY <1>1, <1>3, <1>4, IntervalInduction
  <2>2. n \in S
    <3> HIDE DEF S, n
    <3> QED BY <1>1, <2>1
  <2> QED
    BY <2>2
<1>6. AllCalls(m) = FlattenSeq(First(n)) /\ \A sort : Numbers(m, sort) = Nums(n, sort)
  BY <1>1 DEF AllCalls, Numbers
<1> HIDE DEF First, Nums, n
<1> QED
  BY <1>5, <1>6

-----------------------------------------------------------------------------
(* The run *)

Before == Admitting \cup {"read manifest"}
After == (Preparing \ {"read manifest"}) \cup Connected \cup Drained

(* Only ReadManifest takes a run from before its calls to after.           *)
Stays ==
  /\ phase' \in Before => phase \in Before
  /\ phase' \in After \/ verdict' = "passed" => phase \in After \/ verdict = "passed"

LEMMA CountStays ==
  ASSUME CountInv, UNCHANGED <<made, calls, manifest>>, Stays PROVE CountInv'
BY DEF CountInv, Numbers, Count, Marks, Calls, Stays, Before, After

LEMMA DemandStays ==
  ASSUME NEW condition, NEW code \in Failures, NEW next, Demand(condition, code, next),
         \/ phase \in Before /\ next \in Before
         \/ phase \in After /\ next \in After
  PROVE  Stays
BY NilIsNoText
DEF Demand, FailWith, Continue, Stays, Before, After, Failures, Admitting, Preparing, Connected, Drained, Judging

LEMMA AnyCallsStay ==
  ASSUME RunInv, CountInv, ConformanceNext, ~ReadManifest, ~Call
  PROVE  CountInv'
<1>1. UNCHANGED <<made, calls, manifest>>
  BY DEF ConformanceNext, runVars, Edit, RunCheck, VerifyCurrent, LoadSchemas, DigestBinary,
         Spawn, RequestRejected, Misbehave, Negotiate, ListCatalog, AssertHealthy, CloseTransport,
         DigestBinaryAgain, Certify
<1> SUFFICES Stays
  BY <1>1, CountStays
<1> USE DEF Before, After, Admitting, Preparing, Connected, Drained, Judging
<1>2. CASE Edit \/ Misbehave
  BY <1>2 DEF Edit, Misbehave, Stays
<1>3. CASE RunCheck \/ LoadSchemas \/ Negotiate \/ ListCatalog \/ DigestBinaryAgain
  BY <1>3, DemandStays
  DEF RunCheck, LoadSchemas, Negotiate, ListCatalog, DigestBinaryAgain, Failures
<1>4. CASE VerifyCurrent
  BY <1>4, DemandStays DEF VerifyCurrent, Failures
<1>5. CASE AssertHealthy
  BY <1>5, DemandStays DEF AssertHealthy, Failures
<1>6. CASE DigestBinary \/ Spawn
  BY <1>6 DEF DigestBinary, Spawn, Continue, Stays
<1>7. CASE RequestRejected \/ CloseTransport \/ Certify
  BY <1>7 DEF RequestRejected, FailWith, CloseTransport, Certify, Stays
<1> QED
  BY <1>2, <1>3, <1>4, <1>5, <1>6, <1>7 DEF ConformanceNext

LEMMA ReadManifestCounts ==
  ASSUME RunInv, CountInv, ReadManifest PROVE CountInv'
<1>1. phase = "read manifest" /\ made' = made
  BY DEF ReadManifest
<1>2. \/ phase' = "over" /\ verdict' \in Failures
      \/ /\ phase' = "verify start"
         /\ \E text \in Manifests : /\ ValidateManifest(text.value)
                                    /\ manifest' = text.value /\ calls' = AllCalls(text.value)
  BY <1>1 DEF ReadManifest, Demand, FailWith, Continue, Connected, Failures
<1>3. made \in [Sorts -> Nat] /\ \A sort \in Sorts : made[sort] = 0
  BY <1>1 DEF CountInv
<1>4. CASE phase' = "over" /\ verdict' \in Failures
  BY <1>1, <1>3, <1>4
  DEF CountInv, Failures, Admitting, Preparing, Connected, Drained, Judging
<1>5. CASE /\ phase' = "verify start"
           /\ \E text \in Manifests : /\ ValidateManifest(text.value)
                                      /\ manifest' = text.value /\ calls' = AllCalls(text.value)
  <2>1. ValidateManifest(manifest') /\ calls' = AllCalls(manifest')
    BY <1>5
  <2>2. /\ calls' \in Seq(Calls(manifest'))
        /\ \A sort \in Sorts : Count(calls', sort) = SumSeq(Numbers(manifest', sort))
    BY <2>1, AllCallsCounted
  <2>3. \A sort \in Sorts : Count(calls', sort) \in Nat
    BY <2>2, MarksAreNumbers
  <2>4. \A sort \in Sorts : made'[sort] + Count(calls', sort) = SumSeq(Numbers(manifest', sort))
    <3> SUFFICES ASSUME NEW sort \in Sorts
                 PROVE  made'[sort] + Count(calls', sort) = SumSeq(Numbers(manifest', sort))
      OBVIOUS
    <3>1. made'[sort] = 0 /\ Count(calls', sort) \in Nat
      BY <1>1, <1>3, <2>3
    <3>2. Count(calls', sort) = SumSeq(Numbers(manifest', sort))
      BY <2>2
    <3> QED BY <3>1, <3>2
  <2> QED
    BY <1>1, <1>3, <1>5, <2>2, <2>4 DEF CountInv, Admitting
<1> QED
  BY <1>2, <1>4, <1>5

(* One call less to make is one more that was made.                        *)
LEMMA CallCounts ==
  ASSUME RunInv, CountInv, Call PROVE CountInv'
<1>1. phase = "call" /\ calls # <<>> /\ manifest' = manifest
  BY DEF Call
<1>2. /\ calls \in Seq(Calls(manifest))
      /\ \A sort \in Sorts : made[sort] + Count(calls, sort) = SumSeq(Numbers(manifest, sort))
      /\ made \in [Sorts -> Nat]
  BY <1>1 DEF CountInv, Connected
<1>3. CASE UNCHANGED <<calls, made, last>>
  <2>1. phase' = "close" \/ phase' = "call"
    BY <1>1 DEF Call, FailWith, Connected
  <2> QED
    BY <1>1, <1>3, <2>1, CountStays, NilIsNoText
    DEF Stays, Before, After, Admitting, Preparing, Connected, Drained, RunInv, Call, FailWith
<1>4. CASE /\ made' = [made EXCEPT ![Head(calls).sort] = @ + 1] /\ calls' = Tail(calls)
           /\ UNCHANGED phase
  <2> DEFINE c == Head(calls)
             one(sort) == IF c.sort = sort THEN 1 ELSE 0
  <2>1. Tail(calls) \in Seq(Calls(manifest)) /\ calls = <<c>> \o Tail(calls)
        /\ <<c>> \in Seq(Calls(manifest))
    BY <1>1, <1>2
  <2>2. \A sort : Marks(<<c>>, sort) = <<one(sort)>> /\ one(sort) \in Nat
    BY DEF Marks
  <2>3. ASSUME NEW sort \in Sorts
        PROVE  /\ Count(calls, sort) = one(sort) + Count(Tail(calls), sort)
               /\ Count(Tail(calls), sort) \in Nat
    <3>1. Count(<<c>>, sort) = one(sort)
      <4> HIDE DEF one
      <4> QED BY <2>2, SumOne DEF Count
    <3> HIDE DEF one, c
    <3>2. Count(<<c>> \o Tail(calls), sort) = Count(<<c>>, sort) + Count(Tail(calls), sort)
      BY <2>1, CountConcat
    <3>3. Count(Tail(calls), sort) \in Nat
      BY <2>1, MarksAreNumbers
    <3> QED
      BY <2>1, <3>1, <3>2, <3>3
  <2>4. made' \in [Sorts -> Nat] /\ \A sort \in Sorts : made'[sort] = made[sort] + one(sort)
    <3>1. \A sort \in Sorts : made'[sort] = IF sort = c.sort THEN made[sort] + 1 ELSE made[sort]
      BY <1>2, <1>4
    <3>2. DOMAIN made' = Sorts /\ made' = [sort \in Sorts |-> made'[sort]]
      BY <1>2, <1>4
    <3>3. \A sort \in Sorts : made[sort] \in Nat
      BY <1>2
    <3> HIDE DEF c
    <3>4. \A sort \in Sorts : made'[sort] = made[sort] + one(sort)
      BY <3>1, <3>3
    <3>5. \A sort \in Sorts : made'[sort] \in Nat
      BY <3>1, <3>3
    <3> QED
      BY <3>2, <3>4, <3>5
  <2>5. \A sort \in Sorts : made'[sort] + Count(Tail(calls), sort) = SumSeq(Numbers(manifest, sort))
    <3> SUFFICES ASSUME NEW sort \in Sorts
                 PROVE  made'[sort] + Count(Tail(calls), sort) = SumSeq(Numbers(manifest, sort))
      OBVIOUS
    <3>1. made[sort] \in Nat /\ one(sort) \in Nat
      BY <1>2
    <3> HIDE DEF one
    <3> QED
      BY <1>2, <2>3, <2>4, <3>1
  <2> HIDE DEF one
  <2> QED
    BY <1>1, <1>4, <2>1, <2>4, <2>5 DEF CountInv, Admitting
<1> QED
  BY <1>3, <1>4 DEF Call

(* No call is asked twice and none is dropped: asked and left add up.      *)
THEOREM CountInvariance == ConformanceSpec => []CountInv
<1>1. ConformanceInit => CountInv
  BY NilIsNoText
  DEF ConformanceInit, CountInv, Sorts, Admitting, Preparing, Connected, Drained, Judging
<1>2. RunInv /\ CountInv /\ [ConformanceNext]_conformanceVars => CountInv'
  <2>1. RunInv /\ CountInv /\ UNCHANGED conformanceVars => CountInv'
    BY CountStays DEF conformanceVars, runVars, Stays
  <2> QED
    BY <2>1, AnyCallsStay, ReadManifestCounts, CallCounts
<1> QED
  BY <1>1, <1>2, RunInvariance, PTL DEF ConformanceSpec

(* A run that passes made every call of the manifest, of either sort, and  *)
(* counted it, whatever manifest it read (checkImplementation).            *)
THEOREM EveryCallIsCounted == ConformanceSpec => []EveryCallCounted
<1>1. RunInv /\ CountInv => EveryCallCounted
  <2> SUFFICES ASSUME RunInv, CountInv, verdict = "passed", NEW sort \in Sorts
               PROVE  made[sort] = SumSeq(Numbers(manifest, sort))
    BY DEF EveryCallCounted, SumSeq, Numbers
  <2>1. calls = <<>> /\ made[sort] \in Nat
    BY DEF RunInv, disk, CertifiedIsWhatRan, CountInv
  <2>2. made[sort] + Count(calls, sort) = SumSeq(Numbers(manifest, sort))
    BY DEF CountInv
  <2>3. Count(calls, sort) = 0
    <3>1. Marks(calls, sort) = <<>>
      BY <2>1 DEF Marks
    <3> QED BY <3>1, SumEmpty DEF Count
  <2> QED
    BY <2>1, <2>2, <2>3
<1> QED
  BY <1>1, RunInvariance, CountInvariance, PTL

(* Every certificate is evidence as EvidenceIsCurrent words it, with the   *)
(* exceptions of an executable given back after the start and of the text  *)
(* beside structured content.                                              *)
THEOREM EvidenceStands == ConformanceSpec => []EvidenceIsCurrent
BY CertificateIsTrue, EveryCallIsCounted, AnswersAreDeclared, PTL DEF EvidenceIsCurrent
=============================================================================
