---------------------------- MODULE StdioFrames ----------------------------
(***************************************************************************)
(* LineCappedReader of ore-mcp-org-server (lib.rs 620-687), the AsyncRead  *)
(* that stands between stdin and the JSON-RPC codec: it gathers a line     *)
(* from chunks of any size, drops a line beyond MAX_STDIO_FRAME_BYTES      *)
(* without closing the stream, and hands the rest out in pieces as large   *)
(* as its caller has room for. poll_read may return Pending whenever its   *)
(* input is empty; all it knows is in its fields.                          *)
(***************************************************************************)
EXTENDS Lists

CONSTANTS
  Bytes,      \* classes of bytes: "nl", "cr" and others
  MaxFrame,   \* MAX_STDIO_FRAME_BYTES
  BufSize,    \* the buffer of BufReader
  MaxSent     \* bound on what the peer sends

ASSUME FrameConstants ==
  /\ {"nl", "cr"} \subseteq Bytes
  /\ MaxFrame \in Nat \ {0} /\ BufSize \in Nat \ {0} /\ MaxSent \in Nat

VARIABLES
  sent,        \* history: all the peer has sent
  closed,      \* the peer has closed its end
  pipe,        \* bytes in the pipe
  available,   \* bytes in the BufReader
  line,        \* the line gathered so far
  discarding,  \* the line is too long and being skipped
  pending,     \* a frame, from pending_offset on, that did not fit the caller
  out,         \* history: all the caller was given
  ended        \* poll_read has reported the end of the stream

framesVars == <<sent, closed, pipe, available, line, discarding, pending, out, ended>>

(* Types, and the bound that the reader exists for: it never gathers more  *)
(* than one frame, whatever the peer sends (lib.rs 646, 664).              *)
FramesTypeOK ==
  /\ sent \in Seq(Bytes) /\ pipe \in Seq(Bytes) /\ available \in Seq(Bytes)
  /\ line \in Seq(Bytes) /\ pending \in Seq(Bytes) /\ out \in Seq(Bytes)
  /\ closed \in BOOLEAN /\ discarding \in BOOLEAN /\ ended \in BOOLEAN
  /\ Len(available) <= BufSize
  /\ Len(line) <= MaxFrame
  /\ Len(pending) <= MaxFrame + 1

FramesInit ==
  /\ sent = <<>> /\ pipe = <<>> /\ available = <<>>
  /\ line = <<>> /\ pending = <<>> /\ out = <<>>
  /\ closed = FALSE /\ discarding = FALSE /\ ended = FALSE

-----------------------------------------------------------------------------
(* The decisions, each with the slip a rewrite could make. *)

(* Is the line, with the next n bytes, to be skipped? *)
Skips_LengthOnly(n) == Len(line) + n > MaxFrame
Skips(n) == discarding \/ Len(line) + n > MaxFrame

(* The newline of a skipped line ends the skipping. *)
DiscardingAfterLine_Kept == discarding
DiscardingAfterLine == FALSE

(* One carriage return goes, even when it came in an earlier chunk. *)
Trimmed(part) ==
  LET whole == line \o part
  IN IF whole # <<>> /\ Last(whole) = "cr" THEN Front(whole) ELSE whole

-----------------------------------------------------------------------------
Offset == CHOOSE i \in DOMAIN available :
  available[i] = "nl" /\ \A j \in 1..(i - 1) : available[j] # "nl"
HasNewline == \E i \in DOMAIN available : available[i] = "nl"

(* copy_pending: as much of the frame as the caller's buffer takes. *)
Copy(frame) ==
  \E n \in 1..Len(frame) :
    /\ out' = out \o SubSeq(frame, 1, n)
    /\ pending' = SubSeq(frame, n + 1, Len(frame))

CopyPending ==
  /\ pending # <<>>
  /\ Copy(pending)
  /\ UNCHANGED <<sent, closed, pipe, available, line, discarding, ended>>

(* poll_fill_buf finds its buffer empty and reads what the pipe holds. An  *)
(* error of the read is passed on (lib.rs 640) and leaves every field as   *)
(* it was: a step in which nothing of this module changes.                 *)
FillBuf ==
  /\ pending = <<>> /\ available = <<>>
  /\ \E n \in 1..BufSize :
       /\ n <= Len(pipe)
       /\ available' = SubSeq(pipe, 1, n)
       /\ pipe' = SubSeq(pipe, n + 1, Len(pipe))
  /\ UNCHANGED <<sent, closed, line, discarding, pending, out, ended>>

(* A newline that ends a line too long, or one already being skipped.      *)
EndSkippedLine ==
  /\ pending = <<>> /\ HasNewline
  /\ Skips(Offset - 1)
  /\ available' = SubSeq(available, Offset + 1, Len(available))
  /\ line' = <<>>
  /\ discarding' = DiscardingAfterLine
  /\ UNCHANGED <<sent, closed, pipe, pending, out, ended>>

(* A newline that ends a frame: it goes to the caller at once.             *)
EndFrame ==
  /\ pending = <<>> /\ HasNewline
  /\ ~Skips(Offset - 1)
  /\ available' = SubSeq(available, Offset + 1, Len(available))
  /\ line' = <<>>
  /\ Copy(Append(Trimmed(SubSeq(available, 1, Offset - 1)), "nl"))
  /\ UNCHANGED <<sent, closed, pipe, discarding, ended>>

(* A chunk without a newline is gathered or skipped whole. *)
SkipChunk ==
  /\ pending = <<>> /\ available # <<>> /\ ~HasNewline
  /\ Skips(Len(available))
  /\ available' = <<>> /\ line' = <<>> /\ discarding' = TRUE
  /\ UNCHANGED <<sent, closed, pipe, pending, out, ended>>

GatherChunk ==
  /\ pending = <<>> /\ available # <<>> /\ ~HasNewline
  /\ ~Skips(Len(available))
  /\ available' = <<>> /\ line' = line \o available
  /\ UNCHANGED <<sent, closed, pipe, discarding, pending, out, ended>>

(* An empty buffer at the end of input: what was gathered is dropped.      *)
ReportEof ==
  /\ pending = <<>> /\ available = <<>> /\ pipe = <<>> /\ closed /\ ~ended
  /\ ended' = TRUE
  /\ UNCHANGED <<sent, closed, pipe, available, line, discarding, pending, out>>

(* The peer at the other end of stdin. *)
PeerSends(b) ==
  /\ ~closed /\ Len(sent) < MaxSent
  /\ sent' = Append(sent, b) /\ pipe' = Append(pipe, b)
  /\ UNCHANGED <<closed, available, line, discarding, pending, out, ended>>

PeerCloses ==
  /\ ~closed /\ closed' = TRUE
  /\ UNCHANGED <<sent, pipe, available, line, discarding, pending, out, ended>>

PollRead ==
  \/ CopyPending \/ FillBuf
  \/ EndSkippedLine \/ EndFrame
  \/ SkipChunk \/ GatherChunk
  \/ ReportEof

FramesNext == PollRead \/ (\E b \in Bytes : PeerSends(b)) \/ PeerCloses

(* The codec polls the reader as long as it makes progress. *)
FramesSpec == FramesInit /\ [][FramesNext]_framesVars /\ WF_framesVars(PollRead)

-----------------------------------------------------------------------------
(* PROPERTIES *)

Stream == INSTANCE FramedStream

(* The reader implements the framed stream: what it hands out depends on   *)
(* the bytes alone, not on where the chunks were cut, between CR and LF or *)
(* within a skipped line, nor on the caller's room; nothing owed is        *)
(* withheld or reordered, an oversized line closes nothing, and the end is *)
(* reported only after the last frame (lib.rs 628-687).                    *)
ImplementsFramedStream == Stream!StreamSpec

(* After the peer has closed, the caller has every frame and learns of the *)
(* end, as long as it polls and reading stdin does not fail for good: an   *)
(* oversized or unterminated line holds nothing up (lib.rs 628-687).       *)
AllFramesArrive == closed ~> (ended /\ out = Stream!FramesOf(sent))
=============================================================================
