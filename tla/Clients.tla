------------------------------ MODULE Clients ------------------------------
(***************************************************************************)
(* The browsers: what the pages served by the board (control.html with     *)
(* control.js, spacerockets.html) make a client send.  A connection carries *)
(* one request; the one upgraded to a WebSocket carries one frame after    *)
(* the 101 answer.  A request may be longer than the server's buffer, a    *)
(* frame may come in two segments.  A client may close or reset its        *)
(* connection any time.                                                    *)
(***************************************************************************)
EXTENDS LwipSockets, Board

CONSTANTS
    Requests,    \* who may make which request
    Frames,      \* who may send which frame
    Cutters,     \* whose frame, or which request, may be cut in two
    Hangups,     \* who may go away, and how
    Windows,     \* whose send buffer may come into which state
    EarlyConns   \* connections that may come before the board is set up

\* The requests without a body, and the states of a send buffer.
Pages == {"get", "state", "ws"}
Rooms == {"open", "tight", "shut"}

ASSUME ClientsAssumption ==
    /\ Requests \subseteq Conns \X (Pages \cup {"post"})
    /\ Frames \subseteq Conns \X {"text", "close"}
    /\ Cutters \subseteq Conns \X (Pages \cup {"post", "frame"})
    /\ Hangups \subseteq Conns \X {"fin", "rst"}
    /\ Windows \subseteq Conns \X Rooms
    /\ EarlyConns \subseteq Conns

VARIABLES
    sent,        \* the request a client made on its connection
    todo         \* what it has still to send: the body of a POST, a frame, its rest

clientVars == <<sent, todo>>

ClientsTypeOK ==
    /\ sent \in [Conns -> {"none", "get", "state", "post", "ws"}]
    /\ todo \in [Conns -> {"none", "on", "off", "frame", "tail"}]

ClientsInit ==
    /\ sent = [c \in Conns |-> "none"]
    /\ todo = [c \in Conns |-> "none"]

ClientConnect(c) ==
    /\ QueueExists \/ c \in EarlyConns
    /\ TcpConnect(c)
    /\ UNCHANGED clientVars

\* A request other than POST.  What the server looks for comes first; of a long one
\* the rest may not fit in the buffer that recv() is given.  The page that opens a
\* WebSocket may later send a frame.
ClientRequest(c, r) ==
    /\ sent[c] = "none"
    /\ <<c, r>> \in Requests
    /\ \/ TcpDeliver(c, <<r>>)
       \/ <<c, r>> \in Cutters /\ TcpDeliver(c, <<r, "tail">>)
    /\ sent' = [sent EXCEPT ![c] = r]
    /\ todo' = [todo EXCEPT ![c] = IF r = "ws" THEN "frame" ELSE @]

\* POST /led with {"state":1} or {"state":0}: the body may travel with the
\* headers or in a segment of its own.
ClientPost(c, body) ==
    /\ sent[c] = "none"
    /\ <<c, "post">> \in Requests
    /\ TcpDeliver(c, <<"post", body>>)
    /\ sent' = [sent EXCEPT ![c] = "post"]
    /\ UNCHANGED todo

ClientPostHeaders(c, body) ==
    /\ sent[c] = "none"
    /\ <<c, "post">> \in Requests \cap Cutters
    /\ TcpDeliver(c, <<"post">>)
    /\ sent' = [sent EXCEPT ![c] = "post"]
    /\ todo' = [todo EXCEPT ![c] = body]

ClientPostBody(c) ==
    /\ todo[c] \in {"on", "off"}
    /\ TcpDeliver(c, <<todo[c]>>)
    /\ todo' = [todo EXCEPT ![c] = "none"]
    /\ UNCHANGED sent

ClientFrame(c, f) ==
    /\ todo[c] = "frame"
    /\ <<c, f>> \in Frames
    /\ "switch" \in rcvd[c]
    /\ TcpDeliver(c, <<f>>)
    /\ todo' = [todo EXCEPT ![c] = "none"]
    /\ UNCHANGED sent

\* A frame cut by the border of two segments, or at the end of a buffer.
ClientFrameHead(c) ==
    /\ todo[c] = "frame"
    /\ \E f \in {"text", "close"} : <<c, f>> \in Frames
    /\ <<c, "frame">> \in Cutters
    /\ "switch" \in rcvd[c]
    /\ TcpDeliver(c, <<"head">>)
    /\ todo' = [todo EXCEPT ![c] = "tail"]
    /\ UNCHANGED sent

ClientFrameRest(c) ==
    /\ todo[c] = "tail"
    /\ TcpDeliver(c, <<"tail">>)
    /\ todo' = [todo EXCEPT ![c] = "none"]
    /\ UNCHANGED sent

ClientClose(c) == <<c, "fin">> \in Hangups /\ TcpFin(c) /\ UNCHANGED clientVars

ClientReset(c) == <<c, "rst">> \in Hangups /\ TcpRst(c) /\ UNCHANGED clientVars

ClientWindow(c, w) ==
    /\ <<c, w>> \in Windows
    /\ wnd[c] # w
    /\ TcpWindow(c, w)
    /\ UNCHANGED clientVars

ClientNext ==
    \E c \in Conns :
        \/ ClientConnect(c)
        \/ \E r \in Pages : ClientRequest(c, r)
        \/ \E body \in {"on", "off"} :
               ClientPost(c, body) \/ ClientPostHeaders(c, body)
        \/ ClientPostBody(c)
        \/ \E f \in {"text", "close"} : ClientFrame(c, f)
        \/ ClientFrameHead(c) \/ ClientFrameRest(c)
        \/ ClientClose(c)
        \/ ClientReset(c)
        \/ \E w \in Rooms : ClientWindow(c, w)
=============================================================================
