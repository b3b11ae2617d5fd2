--------------------------- MODULE StdioTransport ---------------------------
(***************************************************************************)
(* connectStdio of tooling/org-mcp-contract (stdio.mjs): the bounded test  *)
(* transport through which the conformance runner talks to a compiled      *)
(* server, whose health after close() decides whether evidence passes.     *)
(*                                                                         *)
(* JavaScript runs one callback at a time, so each callback is an action;  *)
(* which of them comes next is the event loop's choice. Output is counted  *)
(* in tokens: a part of a line, or the end of a line that is a valid       *)
(* notification, a response, or neither. The server is external and may    *)
(* do what it likes, leaving a process behind that shares its pipes too.   *)
(***************************************************************************)
EXTENDS Naturals, Sequences

CONSTANTS
  MaxRequests,  \* bound on the requests made
  MaxBytes,     \* maxBytes, in tokens of stdout and stderr together
  MaxOutput,    \* bound on the tokens the server writes
  MayFork,      \* TRUE: the server may leave a process behind
  Oversize      \* the kinds of requests made: {FALSE}, or with TRUE too long ones

ASSUME TransportConstants ==
  /\ MaxRequests \in Nat /\ MaxBytes \in Nat /\ MaxOutput \in Nat
  /\ MayFork \in BOOLEAN /\ Oversize \subseteq BOOLEAN

VARIABLES
  request,   \* what became of each request, by id
  serial,    \* ids given out
  failure,   \* the transport has failed
  closing,   \* close() has begun
  closed,    \* close() has returned
  exited,    \* the child's 'close' event has been delivered
  bytes,     \* tokens counted so far
  buffer,    \* there is an unterminated line in the buffer
  child,     \* the server process
  heir,      \* a process it left behind holds its pipes
  stdout,    \* tokens in its stdout
  stderr,    \* number of tokens in its stderr
  written    \* history: tokens ever written

clientVars == <<request, serial, failure, closing, closed, exited, bytes, buffer>>
serverVars == <<child, heir, stdout, stderr, written>>
vars == <<request, serial, failure, closing, closed, exited, bytes, buffer,
          child, heir, stdout, stderr, written>>

Ids == 1..MaxRequests
Part == [kind |-> "part", id |-> 0]
Tokens == {Part, [kind |-> "note", id |-> 0], [kind |-> "bad", id |-> 0]}
            \cup [kind : {"reply"}, id : Ids]

Pending == {i \in Ids : request[i] = "pending"}

(* Types, with the transport's own bookkeeping: ids are given out in order, *)
(* and close() returns only once the child's 'close' event is in.           *)
TypeOK ==
  /\ request \in [Ids -> {"unsent", "pending", "resolved", "rejected"}]
  /\ serial \in 0..MaxRequests
  /\ failure \in BOOLEAN /\ closing \in BOOLEAN /\ closed \in BOOLEAN
  /\ exited \in BOOLEAN /\ buffer \in BOOLEAN
  /\ bytes \in 0..MaxOutput
  /\ child \in {"starting", "running", "killed", "dead"}
  /\ heir \in BOOLEAN
  /\ stdout \in Seq(Tokens) /\ stderr \in 0..MaxOutput /\ written \in 0..MaxOutput
  /\ \A i \in Ids : request[i] = "unsent" <=> i > serial
  /\ closed => closing /\ exited
  /\ exited => child = "dead" /\ ~heir /\ stdout = <<>> /\ stderr = 0

Init ==
  /\ request = [i \in Ids |-> "unsent"] /\ serial = 0
  /\ failure = FALSE /\ closing = FALSE /\ closed = FALSE /\ exited = FALSE
  /\ bytes = 0 /\ buffer = FALSE
  /\ child = "starting" /\ heir = FALSE
  /\ stdout = <<>> /\ stderr = 0 /\ written = 0

-----------------------------------------------------------------------------
(* The decisions, each with the slip a rewrite could make. *)

(* fail() and close() tell everybody who waits. *)
Rejected_Nobody(S) == request
Rejected(S) == [i \in Ids |-> IF i \in S THEN "rejected" ELSE request[i]]

(* write() refuses to write where nobody will answer. *)
Writable_Always == ~failure
Writable == ~failure /\ ~closing /\ ~exited

(* The i-th token of a chunk is acceptable: a response must be for a       *)
(* request that is pending still.                                          *)
Accepts_AnyReply(chunk, i) == chunk[i].kind # "bad"
Accepts(chunk, i) ==
  \/ chunk[i].kind \in {"part", "note"}
  \/ /\ chunk[i].kind = "reply" /\ chunk[i].id \in Pending
     /\ \A j \in 1..(i - 1) : chunk[j] # chunk[i]

OverBound(n) == bytes + n > MaxBytes

(* The 'close' event waits for the process and for both of its streams.    *)
StreamsDone == ~heir /\ stdout = <<>> /\ stderr = 0

(* What is left of a line when the child is gone is a failure. *)
FailsAtClose_ByClosing == ~closing
FailsAtClose == buffer \/ ~closing

(* A server that does not stop on SIGTERM is killed a second later. *)
KillsLate_Never == FALSE
KillsLate == closing /\ ~exited

Killed == IF child = "running" THEN "killed" ELSE child

-----------------------------------------------------------------------------
(* fail(code): the first failure stays, nobody keeps waiting, SIGKILL. *)
Fail ==
  /\ failure' = TRUE
  /\ request' = Rejected(Pending)
  /\ child' = Killed

(* rpc.request: an id is given out even to a request that is not written.  *)
Request(oversized) ==
  /\ serial < MaxRequests
  /\ ~failure
  /\ serial' = serial + 1
  /\ request' = [request EXCEPT ![serial + 1] =
       IF Writable /\ ~oversized THEN "pending" ELSE "rejected"]
  /\ UNCHANGED <<failure, closing, closed, exited, bytes, buffer, serverVars>>

(* A timer fires; a spawn that failed has said so on an earlier turn. *)
TimeOut(i) ==
  /\ i \in Pending /\ child # "starting"
  /\ Fail
  /\ UNCHANGED <<serial, closing, closed, exited, bytes, buffer>>
  /\ UNCHANGED <<heir, stdout, stderr, written>>

(* 'data' on stdout: the chunk is counted, then taken line by line up to   *)
(* the first that is wrong.                                                *)
StdoutData(n) ==
  /\ n \in 1..Len(stdout)
  /\ LET chunk == SubSeq(stdout, 1, n)
         good == {i \in 1..n : \A j \in 1..i : Accepts(chunk, j)}
         replies == {chunk[i].id : i \in {j \in good : chunk[j].kind = "reply"}}
         answered == [i \in Ids |-> IF i \in replies THEN "resolved" ELSE request[i]]
     IN /\ bytes' = bytes + n
        /\ IF failure
           THEN UNCHANGED <<failure, request, child, buffer>>
           ELSE IF OverBound(n) THEN Fail /\ UNCHANGED buffer
           ELSE IF good = 1..n
           THEN /\ request' = answered
                /\ buffer' = (chunk[n] = Part)
                /\ UNCHANGED <<failure, child>>
           ELSE /\ failure' = TRUE /\ child' = Killed /\ buffer' = FALSE
                /\ request' = [i \in Ids |-> IF answered[i] = "pending"
                                             THEN "rejected" ELSE answered[i]]
  /\ stdout' = SubSeq(stdout, n + 1, Len(stdout))
  /\ UNCHANGED <<serial, closing, closed, exited, heir, stderr, written>>

(* 'data' on stderr: counted and discarded. *)
StderrData ==
  /\ stderr > 0
  /\ stderr' = 0 /\ bytes' = bytes + stderr
  /\ IF OverBound(stderr) THEN Fail ELSE UNCHANGED <<failure, request, child>>
  /\ UNCHANGED <<serial, closing, closed, exited, buffer, heir, stdout, written>>

(* 'error' on stdin: what was written did not get through; the child is     *)
(* gone, or has closed its end.                                            *)
StdinError ==
  /\ child # "starting" /\ ~exited /\ serial > 0
  /\ IF closing THEN UNCHANGED <<failure, request, child>> ELSE Fail
  /\ UNCHANGED <<serial, closing, closed, exited, bytes, buffer>>
  /\ UNCHANGED <<heir, stdout, stderr, written>>

(* 'close' of the child. *)
ChildClosed ==
  /\ child = "dead" /\ ~exited
  /\ StreamsDone
  /\ exited' = TRUE
  /\ IF FailsAtClose THEN Fail ELSE UNCHANGED <<failure, request, child>>
  /\ UNCHANGED <<serial, closing, closed, bytes, buffer>>
  /\ UNCHANGED <<heir, stdout, stderr, written>>

(* rpc.close(): those who wait are told, then SIGTERM. *)
Close ==
  /\ ~closing
  /\ closing' = TRUE
  /\ request' = Rejected(Pending)
  /\ UNCHANGED <<serial, failure, closed, exited, bytes, buffer, serverVars>>

KillTimer ==
  /\ KillsLate /\ child = "running"
  /\ child' = "killed"
  /\ UNCHANGED <<clientVars, heir, stdout, stderr, written>>

CloseReturns ==
  /\ closing /\ ~closed /\ exited
  /\ closed' = TRUE
  /\ UNCHANGED <<request, serial, failure, closing, exited, bytes, buffer, serverVars>>

-----------------------------------------------------------------------------
(* The server. *)

Starts ==
  /\ child = "starting"
  /\ child' = "running"
  /\ UNCHANGED <<clientVars, heir, stdout, stderr, written>>

(* 'error': the executable could not be spawned. *)
CouldNotStart ==
  /\ child = "starting"
  /\ failure' = TRUE /\ request' = Rejected(Pending) /\ child' = "dead"
  /\ UNCHANGED <<serial, closing, closed, exited, bytes, buffer>>
  /\ UNCHANGED <<heir, stdout, stderr, written>>

Writes ==
  /\ child = "running" \/ heir
  /\ written < MaxOutput
  /\ written' = written + 1
  /\ \/ \E t \in Tokens : stdout' = Append(stdout, t) /\ UNCHANGED stderr
     \/ stderr' = stderr + 1 /\ UNCHANGED stdout
  /\ UNCHANGED <<clientVars, child, heir>>

Forks ==
  /\ MayFork /\ child = "running" /\ ~heir
  /\ heir' = TRUE
  /\ UNCHANGED <<clientVars, child, stdout, stderr, written>>

(* The server ends by itself, on SIGTERM or by SIGKILL. *)
Exits ==
  /\ child \in {"running", "killed"}
  /\ child' = "dead"
  /\ UNCHANGED <<clientVars, heir, stdout, stderr, written>>

HeirExits ==
  /\ heir /\ heir' = FALSE
  /\ UNCHANGED <<clientVars, child, stdout, stderr, written>>

EventLoop ==
  \/ \E n \in 1..Len(stdout) : StdoutData(n)
  \/ StderrData \/ StdinError \/ ChildClosed

Next ==
  \/ \E o \in Oversize : Request(o)
  \/ \E i \in Ids : TimeOut(i)
  \/ EventLoop
  \/ Close \/ KillTimer \/ CloseReturns
  \/ Starts \/ CouldNotStart \/ Writes \/ Forks \/ Exits \/ HeirExits

Spec == Init /\ [][Next]_vars

(* The event loop turns, its timers fire, and the kernel ends a process    *)
(* that was sent SIGKILL. The server and its heir owe nothing.             *)
Fairness ==
  /\ WF_vars(EventLoop) /\ WF_vars(\E i \in Ids : TimeOut(i))
  /\ WF_vars(KillTimer) /\ WF_vars(CloseReturns)
  /\ WF_vars(Starts \/ CouldNotStart) /\ WF_vars(Exits /\ child = "killed")

FairSpec == Spec /\ Fairness

-----------------------------------------------------------------------------
(* PROPERTIES *)

(* Nobody waits on a transport that cannot answer: once it has failed, is  *)
(* closing, or has seen its child close, no request is pending             *)
(* (stdio.mjs 23-28, 36-39, 71-88, 93-96).                                 *)
NobodyWaitsInVain == failure \/ closing \/ exited => Pending = {}

(* A request is settled once, and every resolution is the reply to it that *)
(* came while it was pending (stdio.mjs 59-68).                            *)
SettledOnce ==
  [][\A i \in Ids : request[i] \in {"resolved", "rejected"}
                      => request'[i] = request[i]]_vars

(* "drains/closes the child, checks final transport health": a transport   *)
(* that is healthy after close() has seen all that the server and its      *)
(* heirs ever wrote, within the bound and in complete lines, and nobody is *)
(* left to write more (stdio.mjs 29-70, 91-104, index.mjs 204-208).        *)
HealthyMeansClean ==
  closed /\ ~failure =>
    /\ ~buffer /\ bytes = written /\ written <= MaxBytes
    /\ child = "dead" /\ ~heir

(* Every request is settled, whatever the server does (stdio.mjs 79-88).   *)
EveryRequestSettles == \A i \in Ids : (i \in Pending) ~> (i \notin Pending)

(* "bounded child shutdown": close() returns (mcp-wire-evidence.md 40).    *)
CloseIsBounded == closing ~> closed

(* ... which it does unless a process left behind stays for ever.          *)
CloseEndsWithoutHeir == <>[](~heir) => (closing ~> closed)
=============================================================================
