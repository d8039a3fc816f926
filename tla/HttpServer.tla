----------------------------- MODULE HttpServer -----------------------------
(***************************************************************************)
(* http_server_thread of Core/Src/freertos.c: one thread that select()s on *)
(* the listening socket and on every connection it accepted, answers each  *)
(* request and closes the connection, or hands the descriptor of a         *)
(* WebSocket upgrade to the other thread.                                  *)
(*                                                                         *)
(* A step goes from one socket, queue, flag or pin call to the next: there  *)
(* the thread can block, and the WebSocket thread or the stack runs.       *)
(***************************************************************************)
EXTENDS LwipSockets, Board

CONSTANT MaxHttpClients      \* MAX_HTTP_CLIENTS

ASSUME HttpAssumption == MaxHttpClients \in Nat \ {0}

VARIABLES
    hpc,             \* where the thread is
    client_sockets,  \* the slots that track accepted connections
    master_fds,      \* the set given to select()
    max_fd,          \* the bound given to select()
    read_fds,        \* what is left to handle of select()'s answer
    hfd,             \* the descriptor being handled (idx, new_client)
    req              \* the segments recv() put in request[]

httpVars == <<hpc, client_sockets, master_fds, max_fd, read_fds, hfd, req>>

HttpSlots == 1..MaxHttpClients

HttpPcs == {"select", "scan", "track", "busy", "busy_close", "dispatch", "put",
            "body", "notfound", "led_reply", "led_flag", "close"}

HttpTypeOK ==
    /\ hpc \in HttpPcs
    /\ client_sockets \in [HttpSlots -> Fds \cup {NoFd}]
    /\ master_fds \subseteq Fds \cup {HttpSock}
    /\ max_fd \in Fds \cup {HttpSock}
    /\ read_fds \subseteq Fds \cup {HttpSock}
    /\ IF hpc \in {"select", "scan"} THEN hfd = NoFd ELSE hfd \in Fds
    /\ req \subseteq Segments

\* The listening socket is open and watched before the loop starts.
HttpInit ==
    /\ hpc = "select"
    /\ client_sockets = [s \in HttpSlots |-> NoFd]
    /\ master_fds = {HttpSock}
    /\ max_fd = HttpSock
    /\ read_fds = {}
    /\ hfd = NoFd
    /\ req = {}

----------------------------------------------------------------------------
(* Local bookkeeping.                                                      *)

FreeSlot(s) ==
    /\ client_sockets[s] = NoFd
    /\ \A t \in HttpSlots : client_sockets[t] = NoFd => s <= t

SlotOf(fd, s) ==
    /\ client_sockets[s] = fd
    /\ \A t \in HttpSlots : client_sockets[t] = fd => s <= t

\* Mutant of Forget: the slot is freed and FD_CLR forgotten.
ForgetSlotOnly(fd) ==
    /\ client_sockets' = [s \in HttpSlots |->
           IF client_sockets[s] = fd THEN NoFd ELSE client_sockets[s]]
    /\ UNCHANGED master_fds

\* "Remove from client sockets array": the first slot that holds fd, no other.
Forget(fd) ==
    /\ master_fds' = master_fds \ {fd}
    /\ \/ \E s \in HttpSlots : /\ SlotOf(fd, s)
                               /\ client_sockets' = [client_sockets EXCEPT ![s] = NoFd]
       \/ /\ \A s \in HttpSlots : client_sockets[s] # fd
          /\ UNCHANGED client_sockets

\* The for loop over read_fds reaches fd.
Scanning(fd) ==
    /\ hpc = "scan"
    /\ fd \in read_fds
    /\ \A g \in read_fds : fd <= g
    /\ read_fds' = read_fds \ {fd}

\* Steps that only move on after a call on the descriptor in hand.
Goto(pc) ==
    /\ hpc' = pc
    /\ UNCHANGED <<client_sockets, master_fds, max_fd, read_fds, hfd, req>>

----------------------------------------------------------------------------
(* Waiting and accepting.                                                  *)

\* lwip_selscan() fails, with EBADF, on the first descriptor that is not open.
SelectFails ==
    \/ ~listening
    \/ \E fd \in master_fds \ {HttpSock} : fd <= max_fd /\ ~IsOpen(fd)

HttpSelect ==
    /\ hpc = "select"
    /\ ~SelectFails
    /\ read_fds' = {fd \in master_fds : fd <= max_fd /\ Readable(fd)}
    /\ read_fds' # {}
    /\ hpc' = "scan"
    /\ UNCHANGED <<client_sockets, master_fds, max_fd, hfd, req>>
    /\ UNCHANGED <<lwipVars, boardVars>>

\* Mutant of HttpSelectError: no continue, so the unfiltered set is scanned.
HttpSelectFallThrough ==
    /\ hpc = "select"
    /\ SelectFails
    /\ read_fds' = {fd \in master_fds : fd <= max_fd}
    /\ hpc' = "scan"
    /\ UNCHANGED <<client_sockets, master_fds, max_fd, hfd, req>>
    /\ UNCHANGED <<lwipVars, boardVars>>

\* select() < 0: the loop goes on, past its delay, with the set it had.
HttpSelectError ==
    /\ hpc = "select"
    /\ SelectFails
    /\ UNCHANGED <<httpVars, lwipVars, boardVars>>

\* The loop is over; osDelay(1), and around again.
HttpScanDone ==
    /\ hpc = "scan"
    /\ read_fds = {}
    /\ Goto("select")
    /\ UNCHANGED <<lwipVars, boardVars>>

HttpAccept ==
    /\ Scanning(HttpSock)
    /\ \/ \E fd \in Fds : Accept(fd) /\ hfd' = fd /\ hpc' = "track"
       \/ AcceptFails /\ UNCHANGED <<hfd, hpc>>
       \/ ~listening /\ UNCHANGED <<hfd, hpc, lwipVars>>
    /\ UNCHANGED <<client_sockets, master_fds, max_fd, req>>
    /\ UNCHANGED boardVars

\* Mutants of HttpTrack: the descriptor is watched before a slot is sought ...
HttpTrackWatchFirst ==
    /\ hpc = "track"
    /\ SetNonblock(hfd)
    /\ master_fds' = master_fds \cup {hfd}
    /\ max_fd' = IF hfd > max_fd THEN hfd ELSE max_fd
    /\ \/ \E s \in HttpSlots : /\ FreeSlot(s)
                               /\ client_sockets' = [client_sockets EXCEPT ![s] = hfd]
                               /\ hpc' = "scan"
                               /\ hfd' = NoFd
       \/ /\ \A s \in HttpSlots : client_sockets[s] # NoFd
          /\ hpc' = "busy"
          /\ UNCHANGED <<client_sockets, hfd>>
    /\ UNCHANGED <<read_fds, req>>
    /\ UNCHANGED boardVars

\* ... or max_fd is not raised.
HttpTrackSameMax ==
    /\ hpc = "track"
    /\ SetNonblock(hfd)
    /\ \E s \in HttpSlots :
           /\ FreeSlot(s)
           /\ client_sockets' = [client_sockets EXCEPT ![s] = hfd]
    /\ master_fds' = master_fds \cup {hfd}
    /\ hpc' = "scan"
    /\ hfd' = NoFd
    /\ UNCHANGED <<max_fd, read_fds, req>>
    /\ UNCHANGED boardVars

\* ... or fcntl() is forgotten.
HttpTrackBlocking ==
    /\ hpc = "track"
    /\ \/ \E s \in HttpSlots :
              /\ FreeSlot(s)
              /\ client_sockets' = [client_sockets EXCEPT ![s] = hfd]
              /\ master_fds' = master_fds \cup {hfd}
              /\ max_fd' = IF hfd > max_fd THEN hfd ELSE max_fd
              /\ hpc' = "scan"
              /\ hfd' = NoFd
       \/ /\ \A s \in HttpSlots : client_sockets[s] # NoFd
          /\ hpc' = "busy"
          /\ UNCHANGED <<client_sockets, master_fds, max_fd, hfd>>
    /\ UNCHANGED <<read_fds, req>>
    /\ UNCHANGED <<lwipVars, boardVars>>

\* setsockopt(SO_RCVTIMEO) has no effect in this build (LWIP_SO_RCVTIMEO is 0);
\* then fcntl(), a slot, and FD_SET, or the way to the 503 answer.
HttpTrack ==
    /\ hpc = "track"
    /\ SetNonblock(hfd)
    /\ \/ \E s \in HttpSlots :
              /\ FreeSlot(s)
              /\ client_sockets' = [client_sockets EXCEPT ![s] = hfd]
              /\ master_fds' = master_fds \cup {hfd}
              /\ max_fd' = IF hfd > max_fd THEN hfd ELSE max_fd
              /\ hpc' = "scan"
              /\ hfd' = NoFd
       \/ /\ \A s \in HttpSlots : client_sockets[s] # NoFd
          /\ hpc' = "busy"
          /\ UNCHANGED <<client_sockets, master_fds, max_fd, hfd>>
    /\ UNCHANGED <<read_fds, req>>
    /\ UNCHANGED boardVars

HttpBusy ==
    /\ hpc = "busy"
    /\ Write(hfd, "busy")
    /\ Goto("busy_close")
    /\ UNCHANGED boardVars

\* Mutant of HttpBusyClose: the refused connection is left open.
HttpBusyKeep ==
    /\ hpc = "busy_close"
    /\ hpc' = "scan"
    /\ hfd' = NoFd
    /\ UNCHANGED <<client_sockets, master_fds, max_fd, read_fds, req>>
    /\ UNCHANGED <<lwipVars, boardVars>>

HttpBusyClose ==
    /\ hpc = "busy_close"
    /\ Close(hfd)
    /\ hpc' = "scan"
    /\ hfd' = NoFd
    /\ UNCHANGED <<client_sockets, master_fds, max_fd, read_fds, req>>
    /\ UNCHANGED boardVars

----------------------------------------------------------------------------
(* Reading a request.                                                      *)

SegmentsOf(c) == {rxq[c][i] : i \in 1..Len(rxq[c])}

\* recv() > 0, of at most 512 bytes: the request is looked at as one string, so what
\* counts is which segments it contains.
HttpRecvData(fd) ==
    /\ Scanning(fd)
    /\ IsOpen(fd)
    /\ RecvOutcome(ConnAt(fd)) = "data"
    /\ \E n \in Takes(ConnAt(fd)) :
           /\ Recv(ConnAt(fd), n)
           /\ req' = {rxq[ConnAt(fd)][k] : k \in 1..n}
    /\ hfd' = fd
    /\ hpc' = "dispatch"
    /\ UNCHANGED <<client_sockets, master_fds, max_fd>>
    /\ UNCHANGED boardVars

\* Mutants of HttpRecvEof: the end of file is closed without its descriptor ...
HttpRecvEofLost(fd) ==
    /\ Scanning(fd)
    /\ IsOpen(fd)
    /\ RecvOutcome(ConnAt(fd)) = "eof"
    /\ Recv(ConnAt(fd), 0)
    /\ hpc' = "close"
    /\ UNCHANGED <<client_sockets, master_fds, max_fd, hfd, req>>
    /\ UNCHANGED boardVars

\* ... or treated as recv() < 0 is.
HttpRecvEofIgnored(fd) ==
    /\ Scanning(fd)
    /\ IsOpen(fd)
    /\ RecvOutcome(ConnAt(fd)) = "eof"
    /\ Recv(ConnAt(fd), 0)
    /\ UNCHANGED <<hpc, client_sockets, master_fds, max_fd, hfd, req>>
    /\ UNCHANGED boardVars

\* recv() = 0: the client closed.
HttpRecvEof(fd) ==
    /\ Scanning(fd)
    /\ IsOpen(fd)
    /\ RecvOutcome(ConnAt(fd)) = "eof"
    /\ Recv(ConnAt(fd), 0)
    /\ hfd' = fd
    /\ hpc' = "close"
    /\ UNCHANGED <<client_sockets, master_fds, max_fd, req>>
    /\ UNCHANGED boardVars

\* recv() < 0, whatever the error: nothing is done.
HttpRecvError(fd) ==
    /\ Scanning(fd)
    /\ IsOpen(fd) => RecvOutcome(ConnAt(fd)) \in {"again", "error"}
    /\ UNCHANGED <<hpc, client_sockets, master_fds, max_fd, hfd, req>>
    /\ UNCHANGED <<lwipVars, boardVars>>

HttpRecv ==
    \E fd \in Fds : HttpRecvData(fd) \/ HttpRecvEof(fd) \/ HttpRecvError(fd)

----------------------------------------------------------------------------
(* Answering it.                                                           *)

Asked(segment) == hpc = "dispatch" /\ segment \in req

\* Mutant of HttpSwitch: the answer goes to the last descriptor accepted.
HttpSwitchToLast ==
    /\ Asked("ws")
    /\ Write(max_fd, "switch")
    /\ Goto("put")
    /\ UNCHANGED boardVars

\* "GET /ws" with "Upgrade: websocket" and a key: the 101 answer; its outcome is
\* ignored.  Without a key in the bytes read it is a request for a file, a "get".
HttpSwitch ==
    /\ Asked("ws")
    /\ Write(hfd, "switch")
    /\ Goto("put")
    /\ UNCHANGED boardVars

\* The descriptor is handed over, and stays in master_fds and client_sockets.
HttpPut ==
    /\ hpc = "put"
    /\ QueuePut(hfd)
    /\ hpc' = "scan"
    /\ hfd' = NoFd
    /\ req' = {}
    /\ UNCHANGED <<client_sockets, master_fds, max_fd, read_fds>>
    /\ UNCHANGED lwipVars

\* Mutant of HttpPutTimeout: the failed put goes unnoticed.
HttpPutLost ==
    /\ hpc = "put"
    /\ QueueRefuses
    /\ hpc' = "scan"
    /\ hfd' = NoFd
    /\ req' = {}
    /\ UNCHANGED <<client_sockets, master_fds, max_fd, read_fds>>
    /\ UNCHANGED <<lwipVars, boardVars>>

\* The queue stayed full for 100 ticks, or does not exist yet.
HttpPutTimeout ==
    /\ hpc = "put"
    /\ QueueRefuses
    /\ Goto("close")
    /\ UNCHANGED <<lwipVars, boardVars>>

HttpLedState ==
    /\ Asked("state")
    /\ "ws" \notin req
    /\ Write(hfd, "reply")
    /\ Goto("close")
    /\ UNCHANGED boardVars

\* POST /led: the pin first, then the answer, then the flag.
HttpLedPin ==
    /\ Asked("post")
    /\ req \cap {"ws", "state"} = {}
    /\ WritePin(IF "on" \in req THEN "set" ELSE "reset")
    /\ Goto("led_reply")
    /\ UNCHANGED lwipVars

\* Mutant of HttpLedReply: no flag once the poster is gone.
HttpLedReplyOrClose ==
    /\ hpc = "led_reply"
    /\ Write(hfd, "reply")
    /\ Goto(IF WriteOutcome(hfd) = "all" THEN "led_flag" ELSE "close")
    /\ UNCHANGED boardVars

HttpLedReply ==
    /\ hpc = "led_reply"
    /\ Write(hfd, "reply")
    /\ Goto("led_flag")
    /\ UNCHANGED boardVars

HttpLedFlag ==
    /\ hpc = "led_flag"
    /\ FlagSet
    /\ Goto("close")
    /\ UNCHANGED lwipVars

\* Any other request is for a file, 404.html if it has no other name: send_file()
\* gives up when fs_open() does not find it, and unless write() takes the headers
\* whole.
HttpFile ==
    /\ hpc = "dispatch"
    /\ req \cap {"ws", "state", "post"} = {}
    /\ \/ Goto("notfound") /\ UNCHANGED lwipVars
       \/ /\ Write(hfd, "reply")
          /\ Goto(IF WriteOutcome(hfd) = "all" THEN "body" ELSE "notfound")
    /\ UNCHANGED boardVars

\* send_file()'s loop: while write() says EAGAIN the thread sleeps a tick and
\* tries again, and serves nobody else.
HttpBody ==
    /\ hpc = "body"
    /\ WriteOutcome(hfd) # "again"
    /\ Write(hfd, "reply")
    /\ Goto(CASE WriteOutcome(hfd) = "all"   -> "close"
              [] WriteOutcome(hfd) = "part"  -> "body"
              [] WriteOutcome(hfd) = "error" -> "notfound")
    /\ UNCHANGED boardVars

HttpNotFound ==
    /\ hpc = "notfound"
    /\ Write(hfd, "notfound")
    /\ Goto("close")
    /\ UNCHANGED boardVars

\* Mutant of HttpClose: close() is left out.
HttpForgetOnly ==
    /\ hpc = "close"
    /\ Forget(hfd)
    /\ hpc' = "scan"
    /\ hfd' = NoFd
    /\ req' = {}
    /\ UNCHANGED <<max_fd, read_fds>>
    /\ UNCHANGED <<lwipVars, boardVars>>

\* close(idx), FD_CLR and the slot.
HttpClose ==
    /\ hpc = "close"
    /\ Close(hfd)
    /\ Forget(hfd)
    /\ hpc' = "scan"
    /\ hfd' = NoFd
    /\ req' = {}
    /\ UNCHANGED <<max_fd, read_fds>>
    /\ UNCHANGED boardVars

HttpNext ==
    \/ HttpSelect \/ HttpSelectError \/ HttpScanDone \/ HttpAccept \/ HttpTrack
    \/ HttpBusy \/ HttpBusyClose \/ HttpRecv
    \/ HttpSwitch \/ HttpPut \/ HttpPutTimeout
    \/ HttpLedState \/ HttpLedPin \/ HttpLedReply \/ HttpLedFlag
    \/ HttpFile \/ HttpBody \/ HttpNotFound \/ HttpClose
=============================================================================
