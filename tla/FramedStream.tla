---------------------------- MODULE FramedStream ----------------------------
(***************************************************************************)
(* What a line-framed stdio stream promises, however the bytes are cut     *)
(* into chunks: the reader is given, in order and unchanged, exactly the   *)
(* lines that fit a frame, and the stream survives the lines that do not.  *)
(***************************************************************************)
EXTENDS Lists

CONSTANTS
  Bytes,      \* classes of bytes a peer may send
  MaxFrame,   \* MAX_STDIO_FRAME_BYTES
  MaxSent     \* bound on what the peer sends

VARIABLES
  sent,     \* all the peer has sent
  closed,   \* the peer has closed its end
  out,      \* all the reader has been given
  ended     \* the reader has been told the stream is over

streamVars == <<sent, closed, out, ended>>

(* A line loses one carriage return before its newline; its length is      *)
(* taken with it.                                                          *)
WithoutCr(l) == IF l # <<>> /\ Last(l) = "cr" THEN Front(l) ELSE l
Frame(l) == IF Len(l) > MaxFrame THEN <<>> ELSE Append(WithoutCr(l), "nl")

(* Each newline gives the frame of the line that it ends, if that is one;  *)
(* what follows the last newline gives nothing.                            *)
LineStart(s, i) == 1 + Max({0} \cup {j \in 1..(i - 1) : s[j] = "nl"})
FramesOf(s) ==
  FlattenSeq([i \in DOMAIN s |->
    IF s[i] = "nl" THEN Frame(SubSeq(s, LineStart(s, i), i - 1)) ELSE <<>>])

StreamInit == sent = <<>> /\ closed = FALSE /\ out = <<>> /\ ended = FALSE

Send(b) ==
  /\ ~closed /\ Len(sent) < MaxSent
  /\ sent' = Append(sent, b)
  /\ UNCHANGED <<closed, out, ended>>

Close ==
  /\ ~closed /\ closed' = TRUE
  /\ UNCHANGED <<sent, out, ended>>

(* The reader is given any part of what it is owed. *)
Give ==
  /\ ~ended
  /\ \E n \in 0..Len(FramesOf(sent)) :
       /\ IsPrefix(out, SubSeq(FramesOf(sent), 1, n))
       /\ out' = SubSeq(FramesOf(sent), 1, n)
  /\ UNCHANGED <<sent, closed, ended>>

(* The end is reported only when nothing is owed any more. *)
End ==
  /\ closed /\ ~ended
  /\ out = FramesOf(sent)
  /\ ended' = TRUE
  /\ UNCHANGED <<sent, closed, out>>

StreamNext == (\E b \in Bytes : Send(b)) \/ Close \/ Give \/ End
StreamSpec == StreamInit /\ [][StreamNext]_streamVars /\ WF_streamVars(Give \/ End)
=============================================================================
