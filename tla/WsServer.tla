------------------------------ MODULE WsServer ------------------------------
(***************************************************************************)
(* websocket_thread of Core/Src/freertos.c: one loop that admits handed-over *)
(* descriptors, broadcasts the LED when its flag is set, polls each client  *)
(* for frames and broadcasts the button's edges.  broadcast_to_ws_clients() *)
(* is the "bcast" part, shared by its four callers.                        *)
(***************************************************************************)
EXTENDS LwipSockets, Board

CONSTANTS
    MaxWsClients,    \* MAX_WS_CLIENTS
    StackWords       \* what a word behind clients_sock[] may hold, any integer

ASSUME WsAssumption ==
    /\ MaxWsClients \in Nat \ {0}
    /\ StackWords \subseteq Int
    /\ StackWords # {}

VARIABLES
    wpc,             \* where the thread is
    clients_sock,    \* the descriptor in each client slot
    shown,           \* history: the LED state last written to that slot's client
    new_sock,        \* the descriptor taken from the queue, or behind the array
    widx,            \* the slot the loops of websocket_thread are at
    bbase,           \* first slot of the pointer given to the broadcast
    bidx,            \* next slot the broadcast looks at
    bmsg,            \* the message broadcast
    wconn,           \* the connection recv() is blocked on
    is_button_rised  \* the button state last broadcast is "released"

wsVars == <<wpc, clients_sock, shown, new_sock, widx, bbase, bidx, bmsg, wconn,
            is_button_rised>>

WsSlots == 1..MaxWsClients

WsPcs == {"get", "admit", "init_read", "reject", "reject_close", "wait", "led_read",
          "bcast", "bcast_close", "past_close", "recv", "recv_blocked", "recv_close"}

\* {"type":"led"} sent to a new client or to all, {"type":"button"}, or none.
Message == [type : {"init", "led", "button", "none"}, state : PinStates]
NoMessage == [type |-> "none", state |-> "reset"]

WsTypeOK ==
    /\ wpc \in WsPcs
    /\ clients_sock \in [WsSlots -> Fds \cup {NoFd}]
    /\ shown \in [WsSlots -> PinStates \cup {"nothing"}]
    /\ new_sock \in Int
    /\ widx \in 1..MaxWsClients + 1
    /\ wpc \in {"admit", "init_read", "recv_blocked", "recv_close"} => widx \in WsSlots
    /\ bbase \in WsSlots
    /\ bidx \in 1..MaxWsClients + 1
    /\ wpc = "bcast_close" => bidx \in WsSlots
    /\ bmsg \in Message
    /\ wconn \in Conns \cup {NoConn}
    /\ wpc = "recv_blocked" => wconn \in Conns
    /\ is_button_rised \in BOOLEAN

WsInit ==
    /\ wpc = "get"
    /\ clients_sock = [i \in WsSlots |-> NoFd]
    /\ shown = [i \in WsSlots |-> "nothing"]
    /\ new_sock = NoFd
    /\ widx = 1
    /\ bbase = 1
    /\ bidx = 1
    /\ bmsg = NoMessage
    /\ wconn = NoConn
    /\ is_button_rised = TRUE

----------------------------------------------------------------------------

Vacant(i) == clients_sock[i] = NoFd

\* The first slot, from a given one on, that holds a client.
FirstClient(from, i) ==
    /\ i \in WsSlots
    /\ i >= from
    /\ ~Vacant(i)
    /\ \A j \in WsSlots : j >= from /\ ~Vacant(j) => i <= j

NoClient(from) == \A i \in WsSlots : i >= from => Vacant(i)

\* The pointer, the slot and the message of a broadcast about to start.
Broadcast(base, message) ==
    /\ wpc' = "bcast"
    /\ bbase' = base
    /\ bidx' = base
    /\ bmsg' = message

NotBroadcasting == UNCHANGED <<bbase, bidx, bmsg>>

----------------------------------------------------------------------------
(* Admitting a client.                                                     *)

WsGet ==
    /\ wpc = "get"
    /\ QueueGet
    /\ new_sock' = Head(ws_queue)
    /\ \/ \E i \in WsSlots :
              /\ Vacant(i)
              /\ \A j \in WsSlots : Vacant(j) => i <= j
              /\ clients_sock' = [clients_sock EXCEPT ![i] = new_sock']
              /\ shown' = [shown EXCEPT ![i] = "nothing"]
              /\ widx' = i
              /\ wpc' = "admit"
       \/ /\ \A i \in WsSlots : ~Vacant(i)
          /\ wpc' = "reject"
          /\ UNCHANGED <<clients_sock, shown, widx>>
    /\ NotBroadcasting
    /\ UNCHANGED <<wconn, is_button_rised>>
    /\ UNCHANGED lwipVars

\* No message, or no queue yet.
WsGetNothing ==
    /\ wpc = "get"
    /\ ws_queue = <<>>
    /\ wpc' = "wait"
    /\ UNCHANGED <<clients_sock, shown, new_sock, widx, wconn, is_button_rised>>
    /\ NotBroadcasting
    /\ UNCHANGED <<lwipVars, boardVars>>

\* fcntl(), which has been done: the HTTP thread did it after accept().
WsAdmit ==
    /\ wpc = "admit"
    /\ SetNonblock(new_sock)
    /\ wpc' = "init_read"
    /\ UNCHANGED <<clients_sock, shown, new_sock, widx, wconn, is_button_rised>>
    /\ NotBroadcasting
    /\ UNCHANGED boardVars

\* The pin is read for the initial message, which is broadcast from the new client's
\* slot on.
WsInitRead ==
    /\ wpc = "init_read"
    /\ Broadcast(widx, [type |-> "init", state |-> LD1])
    /\ new_sock' = NoFd
    /\ UNCHANGED <<clients_sock, shown, widx, wconn, is_button_rised>>
    /\ UNCHANGED <<lwipVars, boardVars>>

WsReject ==
    /\ wpc = "reject"
    /\ Write(new_sock, "busy")
    /\ wpc' = "reject_close"
    /\ UNCHANGED <<clients_sock, shown, new_sock, widx, wconn, is_button_rised>>
    /\ NotBroadcasting
    /\ UNCHANGED boardVars

WsRejectClose ==
    /\ wpc = "reject_close"
    /\ Close(new_sock)
    /\ wpc' = "wait"
    /\ new_sock' = NoFd
    /\ UNCHANGED <<clients_sock, shown, widx, wconn, is_button_rised>>
    /\ NotBroadcasting
    /\ UNCHANGED boardVars

----------------------------------------------------------------------------
(* Waiting up to 100 ms for the LED flag.                                  *)

WsFlag ==
    /\ wpc = "wait"
    /\ FlagTake
    /\ wpc' = "led_read"
    /\ UNCHANGED <<clients_sock, shown, new_sock, widx, wconn, is_button_rised>>
    /\ NotBroadcasting
    /\ UNCHANGED lwipVars

WsFlagTimeout ==
    /\ wpc = "wait"
    /\ ~ws_flag
    /\ wpc' = "recv"
    /\ widx' = 1
    /\ UNCHANGED <<clients_sock, shown, new_sock, wconn, is_button_rised>>
    /\ NotBroadcasting
    /\ UNCHANGED <<lwipVars, boardVars>>

\* Mutant of WsLedRead: the pin is taken for active-low.
WsLedReadInverted ==
    /\ wpc = "led_read"
    /\ Broadcast(1, [type |-> "led", state |-> IF LD1 = "set" THEN "reset" ELSE "set"])
    /\ widx' = 1
    /\ UNCHANGED <<clients_sock, shown, new_sock, wconn, is_button_rised>>
    /\ UNCHANGED <<lwipVars, boardVars>>

WsLedRead ==
    /\ wpc = "led_read"
    /\ Broadcast(1, [type |-> "led", state |-> LD1])
    /\ widx' = 1
    /\ UNCHANGED <<clients_sock, shown, new_sock, wconn, is_button_rised>>
    /\ UNCHANGED <<lwipVars, boardVars>>

----------------------------------------------------------------------------
(* broadcast_to_ws_clients().                                              *)

IsLed(message) == message.type \in {"init", "led"}

\* Mutant of WsBcastWrite: a client whose buffer is full is passed over.
WsBcastWriteSkip ==
    /\ wpc = "bcast"
    /\ \E i \in WsSlots :
        /\ FirstClient(bidx, i)
        /\ Write(clients_sock[i], IF IsLed(bmsg) THEN "led" ELSE "button")
        /\ bidx' = i + 1
        /\ shown' = IF WriteOutcome(clients_sock[i]) = "again" \/ ~IsLed(bmsg)
                    THEN shown ELSE [shown EXCEPT ![i] = bmsg.state]
    /\ UNCHANGED <<wpc, clients_sock, new_sock, widx, bbase, bmsg, wconn, is_button_rised>>
    /\ UNCHANGED boardVars

\* write() to the next client; -1 for any reason, EWOULDBLOCK included, makes
\* the thread close it, and a message cut short counts as sent.
WsBcastWrite ==
    /\ wpc = "bcast"
    /\ \E i \in WsSlots :
        /\ FirstClient(bidx, i)
        /\ Write(clients_sock[i], IF IsLed(bmsg) THEN "led" ELSE "button")
        /\ IF WriteOutcome(clients_sock[i]) \in {"all", "part"}
           THEN /\ shown' = IF IsLed(bmsg)
                            THEN [shown EXCEPT ![i] = bmsg.state]
                            ELSE shown
                /\ bidx' = i + 1
                /\ wpc' = "bcast"
           ELSE /\ bidx' = i
                /\ wpc' = "bcast_close"
                /\ UNCHANGED shown
    /\ UNCHANGED <<clients_sock, new_sock, widx, bbase, bmsg, wconn, is_button_rised>>
    /\ UNCHANGED boardVars

WsBcastClose ==
    /\ wpc = "bcast_close"
    /\ Close(clients_sock[bidx])
    /\ clients_sock' = [clients_sock EXCEPT ![bidx] = NoFd]
    /\ bidx' = bidx + 1
    /\ wpc' = "bcast"
    /\ UNCHANGED <<shown, new_sock, widx, bbase, bmsg, wconn, is_button_rised>>
    /\ UNCHANGED boardVars

\* The loop runs over MAX_WS_CLIENTS words from the pointer it was given: with
\* a pointer to slot k it ends k - 1 words behind the array.  What is there is the
\* compiler's choice, so each word may hold anything: a negative one is passed over,
\* one that is no descriptor fails with EBADF.  That a word becomes -1 when its
\* write() failed is left out.
PastArray == /\ wpc = "bcast"
             /\ NoClient(bidx)
             /\ bbase > 1

WsBcastPast ==
    /\ PastArray
    /\ \E word \in StackWords :
        IF word < 0
        THEN /\ wpc' = "bcast"
             /\ UNCHANGED <<new_sock, lwipVars>>
        ELSE /\ Write(word, "led")
             /\ new_sock' = word
             /\ wpc' = IF WriteOutcome(word) \in {"all", "part"}
                       THEN "bcast" ELSE "past_close"
    /\ bbase' = bbase - 1
    /\ bidx' = MaxWsClients + 1
    /\ UNCHANGED <<clients_sock, shown, widx, bmsg, wconn, is_button_rised>>
    /\ UNCHANGED boardVars

\* Whatever the word named is closed: nothing, a connection, the listening socket.
WsPastClose ==
    /\ wpc = "past_close"
    /\ IF new_sock = HttpSock THEN CloseListener ELSE Close(new_sock)
    /\ new_sock' = NoFd
    /\ wpc' = "bcast"
    /\ UNCHANGED <<clients_sock, shown, widx, bbase, bidx, bmsg, wconn, is_button_rised>>
    /\ UNCHANGED boardVars

\* Back to the caller: on to the flag after an initial message, to the receive
\* loop after the others.
WsBcastDone ==
    /\ wpc = "bcast"
    /\ NoClient(bidx)
    /\ bbase = 1
    /\ wpc' = IF bmsg.type = "init" THEN "wait" ELSE "recv"
    /\ bidx' = 1
    /\ bmsg' = NoMessage
    /\ new_sock' = NoFd
    /\ UNCHANGED <<clients_sock, shown, widx, bbase, wconn, is_button_rised>>
    /\ UNCHANGED <<lwipVars, boardVars>>

----------------------------------------------------------------------------
(* Polling the clients.                                                    *)

\* Mutant of LookAtButton: only a press is an edge.
LookAtPress(i) ==
    /\ widx' = i + 1
    /\ IF is_button_rised /\ B1 = "set"
       THEN /\ Broadcast(1, [type |-> "button", state |-> B1])
            /\ is_button_rised' = FALSE
       ELSE /\ wpc' = "recv"
            /\ NotBroadcasting
            /\ UNCHANGED is_button_rised

\* After a recv() that did not close slot i: the button is looked at, and an
\* edge is broadcast to all before the loop goes on.
LookAtButton(i) ==
    /\ widx' = i + 1
    /\ IF is_button_rised <=> B1 = "set"
       THEN /\ Broadcast(1, [type |-> "button", state |-> B1])
            /\ is_button_rised' = (B1 = "reset")
       ELSE /\ wpc' = "recv"
            /\ NotBroadcasting
            /\ UNCHANGED is_button_rised

\* recv() takes no more than 256 bytes, and what it took is read from its first byte
\* on as one frame.  The end of a frame or of a request, left by an earlier recv(),
\* may look like anything, a close frame included.
MayClose(c, n) ==
    /\ RecvOutcome(c) = "data"
    /\ Head(rxq[c]) = "tail" \/ (Head(rxq[c]) = "head" /\ n > 1)

\* The end of file, an error, or a close frame that comes first and whole.
MustClose(c) ==
    \/ RecvOutcome(c) \in {"eof", "error"}
    \/ RecvOutcome(c) = "data" /\ Head(rxq[c]) = "close"

\* What follows recv() of n segments on connection c for slot i.  A text frame, the
\* head of a frame alone, or a request has no effect.
AfterRecv(i, c, n) ==
    \/ /\ MustClose(c) \/ MayClose(c, n)
       /\ wpc' = "recv_close"
       /\ widx' = i
       /\ NotBroadcasting
       /\ UNCHANGED is_button_rised
    \/ /\ ~MustClose(c)
       /\ LookAtButton(i)

WsRecv ==
    /\ wpc = "recv"
    /\ \E i \in WsSlots :
        LET c == ConnAt(clients_sock[i]) IN
        /\ FirstClient(widx, i)
        /\ c # NoConn
        /\ nonblock[c] \/ RecvOutcome(c) # "again"
        /\ \E n \in Takes(c) : Recv(c, n) /\ AfterRecv(i, c, n)
    /\ UNCHANGED <<clients_sock, shown, new_sock, wconn>>
    /\ UNCHANGED boardVars

\* The slot's descriptor is closed: EBADF, and the slot is cleared by way of a
\* close().
WsRecvStale ==
    /\ wpc = "recv"
    /\ \E i \in WsSlots :
        /\ FirstClient(widx, i)
        /\ ~IsOpen(clients_sock[i])
        /\ widx' = i
    /\ wpc' = "recv_close"
    /\ UNCHANGED <<clients_sock, shown, new_sock, wconn, is_button_rised>>
    /\ NotBroadcasting
    /\ UNCHANGED <<lwipVars, boardVars>>

\* The descriptor now names a connection accepted so recently that fcntl() has
\* not run: recv() blocks, without a timeout.
WsRecvBlock ==
    /\ wpc = "recv"
    /\ \E i \in WsSlots :
        LET c == ConnAt(clients_sock[i]) IN
        /\ FirstClient(widx, i)
        /\ c # NoConn
        /\ ~nonblock[c]
        /\ RecvOutcome(c) = "again"
        /\ wconn' = c
        /\ widx' = i
    /\ wpc' = "recv_blocked"
    /\ UNCHANGED <<clients_sock, shown, new_sock, is_button_rised>>
    /\ NotBroadcasting
    /\ UNCHANGED <<lwipVars, boardVars>>

WsRecvWake ==
    /\ wpc = "recv_blocked"
    /\ RecvOutcome(wconn) # "again"
    /\ \E n \in Takes(wconn) : Recv(wconn, n) /\ AfterRecv(widx, wconn, n)
    /\ wconn' = NoConn
    /\ UNCHANGED <<clients_sock, shown, new_sock>>
    /\ UNCHANGED boardVars

\* The connection was closed under the blocked recv(): its mailbox is gone, and
\* nothing says more than that recv() may come back with an error.
WsRecvGone ==
    /\ wpc = "recv_blocked"
    /\ srv[wconn] = "closed"
    /\ wpc' = "recv_close"
    /\ wconn' = NoConn
    /\ UNCHANGED <<clients_sock, shown, new_sock, widx, is_button_rised>>
    /\ NotBroadcasting
    /\ UNCHANGED <<lwipVars, boardVars>>

WsRecvClose ==
    /\ wpc = "recv_close"
    /\ Close(clients_sock[widx])
    /\ clients_sock' = [clients_sock EXCEPT ![widx] = NoFd]
    /\ widx' = widx + 1
    /\ wpc' = "recv"
    /\ UNCHANGED <<shown, new_sock, wconn, is_button_rised>>
    /\ NotBroadcasting
    /\ UNCHANGED boardVars

\* osDelay(10), and around again.
WsLoop ==
    /\ wpc = "recv"
    /\ NoClient(widx)
    /\ wpc' = "get"
    /\ widx' = 1
    /\ UNCHANGED <<clients_sock, shown, new_sock, wconn, is_button_rised>>
    /\ NotBroadcasting
    /\ UNCHANGED <<lwipVars, boardVars>>

WsNext ==
    \/ WsGet \/ WsGetNothing \/ WsAdmit \/ WsInitRead \/ WsReject \/ WsRejectClose
    \/ WsFlag \/ WsFlagTimeout \/ WsLedRead
    \/ WsBcastWrite \/ WsBcastClose \/ WsBcastPast \/ WsPastClose \/ WsBcastDone
    \/ WsRecv \/ WsRecvStale \/ WsRecvBlock \/ WsRecvWake \/ WsRecvGone
    \/ WsRecvClose \/ WsLoop
=============================================================================
