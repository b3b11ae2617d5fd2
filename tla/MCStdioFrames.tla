--------------------------- MODULE MCStdioFrames ---------------------------
(* Instances of StdioFrames for TLC. *)
EXTENDS StdioFrames

(* One ordinary byte is enough: order shows in how it mixes with "cr". *)
ByteClasses == {"x", "cr", "nl"}
=============================================================================
