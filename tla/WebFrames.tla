------------------------------ MODULE WebFrames ------------------------------
(***************************************************************************)
(* The web server with the codec of its WebSocket frames: the segments that *)
(* WsServer takes for frames, read byte for byte.                          *)
(***************************************************************************)
EXTENDS WebServer, WsFrame

OpcodeOf(f) == IF f = "close" THEN 8 ELSE 1

\* What waits for recv(), of the WebSocket thread or of the other.
Queued == UNION {SegmentsOf(c) : c \in Conns}

\* The frames that wait for the WebSocket thread's recv().
FramesQueued == Queued \cap {"text", "close"}

\* A frame that recv() gets whole is read as what the client sent, whatever its
\* length: so a close frame, and only that, makes the thread close.
WholeFrameIsRead == \A f \in FramesQueued : OpcodeOf(f) \in ReadWhole

\* recv() may get only the first part of a frame, ending anywhere, in its length or
\* its key too: that part is never taken for a frame, and so closes no connection.
\* Nothing is claimed of the rest, which the next recv() may take for anything.
HeadIsNoFrame == "head" \in Queued => Opcodes \subseteq NeverReadFromHead
=============================================================================
