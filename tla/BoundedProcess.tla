--------------------------- MODULE BoundedProcess ---------------------------
(***************************************************************************)
(* One subprocess call of ore-mcp-process (lib.rs): the child, whatever it *)
(* forks, the two pipes, the three futures that try_join! drives (wait and *)
(* one drain for each pipe), the deadline around them, and the kill and    *)
(* reap that follow a failure. The caller may drop the call at any await.  *)
(*                                                                         *)
(* Bytes are counted, not named. Processes and pipes are external: their   *)
(* actions say what the kernel lets a program do.                          *)
(***************************************************************************)
EXTENDS Naturals, FiniteSets

CONSTANTS
  Limit,        \* max_stdout_bytes and max_stderr_bytes
  PipeSize,     \* what the kernel buffers in a pipe
  Chunk,        \* the read buffer of a drain
  MaxWritten,   \* bound on the bytes written to each stream
  Deadline      \* limits.timeout, in ticks

Streams == {"stdout", "stderr"}
Processes == {"child", "grandchild"}
Apis == {"run_bounded", "run_truncating"}

ASSUME ProcessConstants ==
  /\ Limit \in [Streams -> Nat \ {0}]
  /\ PipeSize \in Nat \ {0} /\ Chunk \in Nat \ {0} /\ MaxWritten \in Nat
  /\ Deadline \in Nat \ {0}

VARIABLES
  call,     \* where the call is
  api,      \* which of the two functions was called
  result,   \* what it returned
  child,    \* the child process, as its parent can tell
  writers,  \* stream -> processes that hold its write end
  pipe,     \* stream -> bytes in the pipe
  written,  \* history: stream -> bytes ever written
  kept,     \* stream -> bytes retained
  dropped,  \* stream -> bytes counted and discarded
  drained,  \* streams whose drain has returned
  elapsed   \* ticks since the deadline was armed

drainVars == <<pipe, kept, dropped, drained>>
vars == <<call, result, child, writers, pipe, written, kept, dropped,
          drained, elapsed, api>>

Results ==
  {"none", "ok", "timed_out", "wait", "read", "stdout_too_large", "stderr_too_large"}
TooLarge(s) == IF s = "stdout" THEN "stdout_too_large" ELSE "stderr_too_large"

TypeOK ==
  /\ call \in {"idle", "running", "killing", "reaping", "returned", "abandoned"}
  /\ result \in Results /\ api \in Apis
  /\ child \in {"none", "alive", "signalled", "zombie", "reaped"}
  /\ writers \in [Streams -> SUBSET Processes]
  /\ pipe \in [Streams -> 0..PipeSize]
  /\ written \in [Streams -> 0..MaxWritten]
  /\ kept \in [Streams -> Nat] /\ \A s \in Streams : kept[s] <= Limit[s]
  /\ dropped \in [Streams -> 0..MaxWritten]
  /\ drained \in SUBSET Streams
  /\ elapsed \in 0..Deadline

Init ==
  /\ call = "idle" /\ result = "none" /\ api = "run_bounded"
  /\ child = "none"
  /\ writers = [s \in Streams |-> {}]
  /\ pipe = [s \in Streams |-> 0]
  /\ written = [s \in Streams |-> 0]
  /\ kept = [s \in Streams |-> 0]
  /\ dropped = [s \in Streams |-> 0]
  /\ drained = {}
  /\ elapsed = 0

-----------------------------------------------------------------------------
(* The decisions, each with the slip a rewrite could make. *)

(* Both drains are polled whatever the other one waits for. *)
CanDrain_Sequential(s) == s = "stdout" \/ "stdout" \in drained
CanDrain(s) == TRUE

(* A drain ends at end of file: an empty pipe that nobody can write to.    *)
AtEof_ChildGone(s) == pipe[s] = 0 /\ child \in {"zombie", "reaped"}
AtEof(s) == pipe[s] = 0 /\ writers[s] = {}

(* BoundedBytes takes a whole chunk or refuses it. *)
Overflows(s, n) == api = "run_bounded" /\ kept[s] + n > Limit[s]

(* What a drain retains of the n bytes it read. *)
Room(s) == Limit[s] - kept[s]
Retained_Chunk(s, n) == IF Room(s) > 0 THEN n ELSE 0
Retained(s, n) == IF n <= Room(s) THEN n ELSE Room(s)

(* A run_truncating drain counts the rest of what it read. *)
Discarded(s, n) == n - Retained(s, n)

(* The call is over when the child is reaped and both drains have returned. *)
Complete == child = "reaped" /\ drained = Streams

(* One deadline around all three futures. *)
DeadlinePassed_WaitOnly == elapsed = Deadline /\ child # "reaped"
DeadlinePassed == elapsed = Deadline

(* A failed call reaps the child it killed. *)
ReapedFirst_Not == TRUE
ReapedFirst == child = "reaped"

(* kill_on_drop. *)
SignalOnDrop == IF child = "alive" THEN "signalled" ELSE child

-----------------------------------------------------------------------------
(* validate_limits and spawn_child succeeded: both pipes are ours to drain. *)
Spawn ==
  /\ call = "idle"
  /\ call' = "running"
  /\ child' = "alive"
  /\ writers' = [s \in Streams |-> {"child"}]
  /\ api' \in Apis
  /\ UNCHANGED <<result, drainVars, written, elapsed>>

(* One read of up to a chunk, and the bookkeeping after it. *)
Drain(s) ==
  /\ call = "running" /\ s \notin drained
  /\ CanDrain(s)
  /\ \E n \in 1..Chunk :
       /\ n <= pipe[s]
       /\ pipe' = [pipe EXCEPT ![s] = @ - n]
       /\ IF Overflows(s, n)
          THEN /\ call' = "killing"
               /\ result' = TooLarge(s)
               /\ UNCHANGED <<kept, dropped>>
          ELSE /\ kept' = [kept EXCEPT ![s] = @ + Retained(s, n)]
               /\ dropped' = [dropped EXCEPT ![s] = @ + Discarded(s, n)]
               /\ UNCHANGED <<call, result>>
  /\ UNCHANGED <<child, writers, written, drained, elapsed, api>>

DrainEnds(s) ==
  /\ call = "running" /\ s \notin drained
  /\ CanDrain(s)
  /\ AtEof(s)
  /\ drained' = drained \cup {s}
  /\ UNCHANGED <<call, result, child, writers, pipe, written, kept, dropped>>
  /\ UNCHANGED <<elapsed, api>>

(* child.wait() reaps a child that has exited; if something else in the    *)
(* process reaped it first, the wait fails and try_join! gives up.         *)
WaitChild ==
  /\ call = "running" /\ child = "zombie"
  /\ child' = "reaped"
  /\ \/ UNCHANGED <<call, result>>
     \/ call' = "killing" /\ result' = "wait"
  /\ UNCHANGED <<writers, drainVars, written, elapsed, api>>

ReadFails(s) ==
  /\ call = "running" /\ s \notin drained
  /\ call' = "killing" /\ result' = "read"
  /\ UNCHANGED <<child, writers, drainVars, written, elapsed, api>>

Succeed ==
  /\ call = "running"
  /\ Complete
  /\ call' = "returned" /\ result' = "ok"
  /\ UNCHANGED <<child, writers, drainVars, written, elapsed, api>>

(* The deadline has passed and the operation is not complete. *)
TimeOut ==
  /\ call = "running" /\ ~Complete
  /\ DeadlinePassed
  /\ call' = "killing" /\ result' = "timed_out"
  /\ UNCHANGED <<child, writers, drainVars, written, elapsed, api>>

(* kill_and_reap; the failed operation has dropped its ends of the pipes.  *)
Kill ==
  /\ call = "killing"
  /\ call' = "reaping"
  /\ child' = IF child = "alive" THEN "signalled" ELSE child
  /\ UNCHANGED <<result, writers, drainVars, written, elapsed, api>>

Reap ==
  /\ call = "reaping" /\ child = "zombie"
  /\ child' = "reaped"
  /\ UNCHANGED <<call, result, writers, drainVars, written, elapsed, api>>

Fail ==
  /\ call = "reaping"
  /\ ReapedFirst
  /\ call' = "returned"
  /\ UNCHANGED <<result, child, writers, drainVars, written, elapsed, api>>

(* The caller drops the future: the child is signalled and left to the     *)
(* runtime's orphan queue.                                                 *)
Abandon ==
  /\ call \in {"running", "killing", "reaping"}
  /\ call' = "abandoned" /\ result' = "none"
  /\ child' = SignalOnDrop
  /\ UNCHANGED <<writers, drainVars, written, elapsed, api>>

Tick ==
  /\ call = "running" /\ elapsed < Deadline
  /\ elapsed' = elapsed + 1
  /\ UNCHANGED <<call, result, child, writers, drainVars, written, api>>

-----------------------------------------------------------------------------
(* The processes and the kernel. *)

Alive(p) == IF p = "child" THEN child = "alive" ELSE \E s \in Streams : p \in writers[s]

(* A write to a pipe blocks while it is full and fails when the call no    *)
(* longer holds the read end.                                              *)
Write(p, s) ==
  /\ Alive(p) /\ p \in writers[s]
  /\ call = "running" /\ s \notin drained
  /\ pipe[s] < PipeSize /\ written[s] < MaxWritten
  /\ pipe' = [pipe EXCEPT ![s] = @ + 1]
  /\ written' = [written EXCEPT ![s] = @ + 1]
  /\ UNCHANGED <<call, result, child, writers, kept, dropped, drained, elapsed, api>>

CloseStream(p, s) ==
  /\ Alive(p) /\ p \in writers[s]
  /\ writers' = [writers EXCEPT ![s] = @ \ {p}]
  /\ UNCHANGED <<call, result, child, drainVars, written, elapsed, api>>

(* The child leaves a process behind that inherits what it has open. *)
Fork ==
  /\ child = "alive"
  /\ \A s \in Streams : "grandchild" \notin writers[s]
  /\ writers' = [s \in Streams |->
       IF "child" \in writers[s] THEN Processes ELSE writers[s]]
  /\ UNCHANGED <<call, result, child, drainVars, written, elapsed, api>>

(* The end of the child, its own or of the signal, closes what it held.    *)
Die ==
  /\ child \in {"alive", "signalled"}
  /\ child' = "zombie"
  /\ writers' = [s \in Streams |-> writers[s] \ {"child"}]
  /\ UNCHANGED <<call, result, drainVars, written, elapsed, api>>

(* The runtime's orphan queue reaps the child of an abandoned call. *)
ReapOrphan ==
  /\ call = "abandoned" /\ child = "zombie"
  /\ child' = "reaped"
  /\ UNCHANGED <<call, result, writers, drainVars, written, elapsed, api>>

Call ==
  \/ \E s \in Streams : Drain(s) \/ DrainEnds(s) \/ ReadFails(s)
  \/ WaitChild \/ Succeed \/ TimeOut
  \/ Kill \/ Reap \/ Fail

Next ==
  \/ Spawn
  \/ Call
  \/ Abandon
  \/ Tick
  \/ \E p \in Processes, s \in Streams : Write(p, s) \/ CloseStream(p, s)
  \/ Fork \/ Die \/ ReapOrphan

Spec == Init /\ [][Next]_vars

(* The task of the call is polled, time passes, the kernel ends a process  *)
(* it has signalled, and the runtime polls its orphans. A child or its     *)
(* descendants owe nothing: they may run, write or hold a pipe forever.    *)
Fairness ==
  /\ WF_vars(Spawn) /\ WF_vars(Tick)
  /\ WF_vars(Succeed \/ TimeOut) /\ WF_vars(Kill \/ Reap \/ Fail)
  /\ WF_vars(Die /\ child = "signalled") /\ WF_vars(ReapOrphan)

FairSpec == Spec /\ Fairness

-----------------------------------------------------------------------------
(* PROPERTIES *)

(* A successful call has everything: the child is reaped, nobody can write *)
(* any more, and every byte written by the child or a process it left      *)
(* behind is either retained, the first Limit of them, or counted as       *)
(* dropped; run_bounded drops none (lib.rs 199-256, 258-310, 344-387).     *)
OkIsComplete ==
  result = "ok" =>
    /\ child = "reaped"
    /\ \A s \in Streams :
         /\ writers[s] = {}
         /\ kept[s] + dropped[s] = written[s]
         /\ dropped[s] > 0 => kept[s] = Limit[s]
         /\ api = "run_bounded" => dropped[s] = 0

(* While it runs no byte is lost or counted twice on its way out. *)
BytesConserved ==
  call = "running" =>
    \A s \in Streams : written[s] = pipe[s] + kept[s] + dropped[s]

(* A process that blocks on a full pipe is not what the call waits for: a  *)
(* drain of that very pipe can always run (lib.rs 3-11, "drains both pipes *)
(* concurrently").                                                         *)
NoPipeDeadlock ==
  \A s \in Streams :
    call = "running" /\ writers[s] # {} /\ pipe[s] = PipeSize
      => s \notin drained /\ CanDrain(s)

(* "the child is killed and reaped before the error is returned": no call  *)
(* leaves a process of its own behind (lib.rs 201-202, 339-342).           *)
NoChildLeftBehind == call = "returned" => child = "reaped"

(* Only a stream that did exceed its limit is called too large, and under  *)
(* run_bounded no call that wrote more than that succeeds (lib.rs 8, 359). *)
OverflowIsReal ==
  \A s \in Streams :
    /\ result = TooLarge(s) => written[s] > Limit[s]
    /\ result = "ok" /\ api = "run_bounded" => written[s] <= Limit[s]

(* What a call says of the bytes of its child is true: they are conserved  *)
(* while it runs, all there if it succeeds, and too many only if they are. *)
CaptureIsTrue == BytesConserved /\ OkIsComplete /\ OverflowIsReal

(* Every call ends, whatever the child and its descendants do: a silent    *)
(* child, one that floods its pipes, one that leaves a process holding     *)
(* them open (lib.rs 241-255); and no ended or abandoned call leaves its   *)
(* child running (lib.rs 332).                                             *)
EveryRunEnds ==
  /\ call = "running" ~> call \in {"returned", "abandoned"}
  /\ call = "abandoned" ~> child = "reaped"
=============================================================================
