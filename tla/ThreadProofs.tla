----------------------------- MODULE ThreadProofs -----------------------------
(***************************************************************************)
(* Facts about the socket calls, and that the steps of the HTTP thread and *)
(* of the WebSocket thread keep the types.                                 *)
(***************************************************************************)
EXTENDS HttpServer, WsServer, TLAPS

----------------------------------------------------------------------------
(* The socket calls, and what the network does.                            *)

\* A descriptor leads to a connection or to nothing.
LEMMA ConnAtType ==
  ASSUME LwipTypeOK, NEW fd
  PROVE  /\ ConnAt(fd) \in Conns \cup {NoConn}
         /\ IsOpen(fd) => fd \in Fds /\ ConnAt(fd) = sock[fd] /\ ConnAt(fd) \in Conns
  BY DEF LwipTypeOK, ConnAt, IsOpen

\* accept(), successful or not, keeps the types.
LEMMA AcceptType ==
  ASSUME LwipTypeOK,
         (\E fd \in Fds : Accept(fd)) \/ AcceptFails
  PROVE  LwipTypeOK'
  <1>1. Head(acceptmbox) \in Conns /\ Tail(acceptmbox) \in Seq(Conns)
    BY DEF LwipTypeOK, Accept, AcceptFails
  <1>2. CASE \E fd \in Fds : Accept(fd)
    BY <1>1, <1>2 DEF LwipTypeOK, Accept
  <1>3. CASE AcceptFails
    BY <1>1, <1>3 DEF LwipTypeOK, AcceptFails
  <1> QED BY <1>2, <1>3

\* fcntl() keeps the types.
LEMMA SetNonblockType ==
  ASSUME LwipTypeOK, NEW fd, SetNonblock(fd)
  PROVE  LwipTypeOK'
  BY DEF LwipTypeOK, SetNonblock

\* What is left of the queue is a queue.
LEMMA RestType ==
  ASSUME NEW q \in Seq(Segments), NEW n \in Nat
  PROVE  SubSeq(q, n + 1, Len(q)) \in Seq(Segments)
  OBVIOUS

\* recv() takes a number of segments that is no greater than what is queued.
LEMMA TakesType ==
  ASSUME LwipTypeOK, NEW c \in Conns, NEW n \in Takes(c)
  PROVE  n \in Nat /\ n <= Len(rxq[c])
  <1>1. rxq[c] \in Seq(Segments)
    BY DEF LwipTypeOK
  <1> QED BY <1>1 DEF Takes

\* recv() keeps the types.
LEMMA RecvType ==
  ASSUME LwipTypeOK, NEW c \in Conns, NEW n \in Takes(c) \cup {0}, Recv(c, n)
  PROVE  LwipTypeOK'
  <1>1. rxq' \in [Conns -> Seq(Segments)]
    <2>1. n \in Nat /\ rxq[c] \in Seq(Segments)
      BY TakesType DEF LwipTypeOK
    <2>2. SubSeq(rxq[c], n + 1, Len(rxq[c])) \in Seq(Segments)
      BY <2>1, RestType
    <2>3. /\ rxq \in [Conns -> Seq(Segments)]
          /\ rxq' = [rxq EXCEPT ![c] = SubSeq(rxq[c], n + 1, Len(rxq[c]))]
      BY DEF LwipTypeOK, Recv
    <2> QED BY <2>2, <2>3
  <1>2. eof' \in [Conns -> BOOLEAN]
    BY DEF LwipTypeOK, Recv
  <1> QED BY <1>1, <1>2 DEF LwipTypeOK, Recv

\* write() keeps the types, whatever its outcome.
LEMMA WriteType ==
  ASSUME LwipTypeOK, NEW fd, NEW kind \in Outputs, Write(fd, kind)
  PROVE  LwipTypeOK'
  <1>1. rcvd' \in [Conns -> SUBSET Outputs]
    <2>1. "torn" \in Outputs
      BY DEF Outputs
    <2> QED BY <2>1 DEF LwipTypeOK, Write
  <1>2. wnd' \in [Conns -> {"open", "tight", "shut"}]
    BY DEF LwipTypeOK, Write
  <1> QED BY <1>1, <1>2 DEF LwipTypeOK, Write

\* close() keeps the types.
LEMMA CloseType ==
  ASSUME LwipTypeOK, NEW fd, Close(fd)
  PROVE  LwipTypeOK'
  BY DEF LwipTypeOK, Close

\* So does that of the listening socket.
LEMMA CloseListenerType ==
  ASSUME LwipTypeOK, CloseListener
  PROVE  LwipTypeOK'
  <1>1. <<>> \in Seq(Conns)
    OBVIOUS
  <1> QED BY <1>1 DEF LwipTypeOK, CloseListener

\* close() leaves the descriptor closed and opens no other.
LEMMA CloseCloses ==
  ASSUME LwipTypeOK, NEW fd, Close(fd), NEW g, IsOpen(g)'
  PROVE  IsOpen(g) /\ g # fd
  BY DEF LwipTypeOK, Close, IsOpen, ConnAt

\* Calls that do not close or accept leave what is open as it was.
LEMMA OpenUnchanged ==
  ASSUME UNCHANGED sock, NEW g
  PROVE  IsOpen(g)' <=> IsOpen(g)
  BY DEF IsOpen, ConnAt

\* Connecting, hanging up and flow control keep the types.
LEMMA NetworkType ==
  ASSUME LwipTypeOK, NEW c \in Conns,
         \/ TcpConnect(c) \/ TcpFin(c) \/ TcpRst(c)
         \/ \E w \in {"open", "tight", "shut"} : TcpWindow(c, w)
  PROVE  LwipTypeOK'
  <1>1. CASE TcpConnect(c)
    BY <1>1 DEF LwipTypeOK, TcpConnect
  <1>2. CASE TcpFin(c)
    BY <1>2 DEF LwipTypeOK, TcpFin
  <1>3. CASE TcpRst(c)
    BY <1>3 DEF LwipTypeOK, TcpRst
  <1>4. CASE \E w \in {"open", "tight", "shut"} : TcpWindow(c, w)
    BY <1>4 DEF LwipTypeOK, TcpWindow
  <1> QED BY <1>1, <1>2, <1>3, <1>4

\* So does data that arrives.
LEMMA DeliverType ==
  ASSUME LwipTypeOK, NEW c \in Conns, NEW segments \in Seq(Segments),
         TcpDeliver(c, segments)
  PROVE  LwipTypeOK'
  <1>1. rxq[c] \o segments \in Seq(Segments)
    BY DEF LwipTypeOK
  <1> QED BY <1>1 DEF LwipTypeOK, TcpDeliver

----------------------------------------------------------------------------
(* The HTTP thread.                                                        *)

\* What the steps of this thread rely on.
HttpTyped ==
    /\ LwipTypeOK
    /\ BoardTypeOK
    /\ HttpTypeOK
    /\ ws_queue \in Seq(Fds)

\* Descriptors are positive, so neither NoFd nor the listening socket's.
LEMMA FdsPositive ==
  ASSUME NEW fd \in Fds
  PROVE  fd \in Int /\ fd # NoFd /\ fd # HttpSock
  BY LwipAssumption DEF Fds, NoFd, HttpSock

\* Steps that leave the tracking of connections alone.
Untracked == UNCHANGED <<client_sockets, master_fds, max_fd>>

\* What the HTTP thread writes is one of the known kinds of data.
LEMMA OutputKinds ==
  {"switch", "reply", "notfound", "busy", "led", "button"} \subseteq Outputs
  BY DEF Outputs

\* select(), the scan and accept() keep the types.
LEMMA HttpWaitTypes ==
  ASSUME HttpTyped, HttpSelect \/ HttpSelectError \/ HttpScanDone \/ HttpAccept
  PROVE  HttpTyped'
  <1>1. CASE HttpSelect
    BY <1>1 DEF HttpTyped, HttpSelect, HttpTypeOK, HttpPcs, BoardTypeOK, LwipTypeOK,
                lwipVars, boardVars
  <1>2. CASE HttpScanDone
    BY <1>2 DEF HttpTyped, HttpScanDone, Goto, HttpTypeOK, HttpPcs, BoardTypeOK,
                LwipTypeOK, lwipVars, boardVars
  <1>3. CASE HttpAccept
    <2>1. LwipTypeOK'
      <3>1. CASE UNCHANGED lwipVars
        BY <3>1 DEF HttpTyped, LwipTypeOK, lwipVars
      <3> QED BY <1>3, <3>1, AcceptType DEF HttpTyped, HttpAccept
    <2>2. HttpTypeOK'
      BY <1>3 DEF HttpTyped, HttpAccept, Scanning, HttpTypeOK, HttpPcs
    <2> QED BY <1>3, <2>1, <2>2 DEF HttpTyped, HttpAccept, BoardTypeOK, boardVars
  <1>4. CASE HttpSelectError
    BY <1>4 DEF HttpTyped, HttpSelectError, HttpTypeOK, BoardTypeOK, LwipTypeOK,
                httpVars, lwipVars, boardVars
  <1> QED BY <1>1, <1>2, <1>3, <1>4

\* Tracking or refusing an accepted connection keeps the types.
LEMMA HttpTrackTypes ==
  ASSUME HttpTyped, HttpTrack \/ HttpBusy \/ HttpBusyClose
  PROVE  HttpTyped'
  <1>1. CASE HttpTrack
    <2>1. LwipTypeOK'
      BY <1>1, SetNonblockType DEF HttpTyped, HttpTrack
    <2>2. hfd \in Fds
      BY <1>1 DEF HttpTyped, HttpTrack, HttpTypeOK
    <2>3. HttpTypeOK'
      BY <1>1, <2>2 DEF HttpTyped, HttpTrack, HttpTypeOK, HttpPcs
    <2> QED BY <1>1, <2>1, <2>3 DEF HttpTyped, HttpTrack, BoardTypeOK, boardVars
  <1>2. CASE HttpBusy
    <2>1. LwipTypeOK'
      BY <1>2, WriteType, OutputKinds DEF HttpTyped, HttpBusy
    <2> QED BY <1>2, <2>1 DEF HttpTyped, HttpBusy, Goto, HttpTypeOK, HttpPcs,
                              BoardTypeOK, boardVars
  <1>3. CASE HttpBusyClose
    <2>1. LwipTypeOK'
      BY <1>3, CloseType DEF HttpTyped, HttpBusyClose
    <2> QED BY <1>3, <2>1 DEF HttpTyped, HttpBusyClose, HttpTypeOK, HttpPcs,
                              BoardTypeOK, boardVars
  <1> QED BY <1>1, <1>2, <1>3

\* recv() keeps the types, whatever it returns.
LEMMA HttpRecvTypes ==
  ASSUME HttpTyped, HttpRecv
  PROVE  HttpTyped'
  <1>1. PICK fd \in Fds : HttpRecvData(fd) \/ HttpRecvEof(fd) \/ HttpRecvError(fd)
    BY DEF HttpRecv
  <1>2. CASE HttpRecvData(fd)
    <2> DEFINE c == ConnAt(fd)
    <2>1. c \in Conns
      BY <1>2, ConnAtType DEF HttpTyped, HttpRecvData
    <2>2. PICK n \in Takes(c) : Recv(c, n) /\ req' = {rxq[c][k] : k \in 1..n}
      BY <1>2 DEF HttpRecvData
    <2>3. LwipTypeOK'
      BY <2>1, <2>2, RecvType DEF HttpTyped
    <2>4. req' \subseteq Segments
      <3>1. n \in Nat /\ n <= Len(rxq[c]) /\ rxq[c] \in Seq(Segments)
        BY <2>1, <2>2, TakesType DEF HttpTyped, LwipTypeOK
      <3>2. \A k \in 1..n : rxq[c][k] \in Segments
        BY <3>1
      <3> QED BY <2>2, <3>2
    <2>5. HttpTypeOK'
      BY <1>2, <2>4 DEF HttpTyped, HttpRecvData, Scanning, HttpTypeOK, HttpPcs
    <2> QED BY <1>2, <2>3, <2>5 DEF HttpTyped, HttpRecvData, BoardTypeOK, boardVars
  <1>3. CASE HttpRecvEof(fd)
    <2>1. LwipTypeOK'
      BY <1>3, ConnAtType, RecvType DEF HttpTyped, HttpRecvEof
    <2> QED BY <1>3, <2>1 DEF HttpTyped, HttpRecvEof, Scanning, HttpTypeOK, HttpPcs,
                              BoardTypeOK, boardVars
  <1>4. CASE HttpRecvError(fd)
    BY <1>4 DEF HttpTyped, HttpRecvError, Scanning, HttpTypeOK, HttpPcs, BoardTypeOK,
                LwipTypeOK, lwipVars, boardVars
  <1> QED BY <1>1, <1>2, <1>3, <1>4

\* A step that writes to the connection in hand and moves on keeps the types.
LEMMA HttpWriteTypes ==
  ASSUME HttpTyped,
         NEW kind \in {"switch", "reply", "notfound", "busy"},
         NEW pc \in HttpPcs \ {"select", "scan"},
         hpc \notin {"select", "scan"},
         Write(hfd, kind), Goto(pc), UNCHANGED boardVars
  PROVE  HttpTyped'
  <1>1. LwipTypeOK'
    BY WriteType, OutputKinds DEF HttpTyped
  <1> QED BY <1>1 DEF HttpTyped, Goto, HttpTypeOK, HttpPcs, BoardTypeOK, boardVars

\* The answers keep the types.
LEMMA HttpAnswerTypes ==
  ASSUME HttpTyped,
         \/ HttpSwitch \/ HttpLedState \/ HttpLedReply
         \/ HttpFile \/ HttpBody \/ HttpNotFound
  PROVE  HttpTyped'
  <1> DEFINE pcs == HttpPcs \ {"select", "scan"}
  <1>1. CASE HttpSwitch
    BY <1>1, "put" \in pcs, HttpWriteTypes DEF HttpSwitch, Asked, HttpPcs
  <1>2. CASE HttpLedState
    BY <1>2, "close" \in pcs, HttpWriteTypes DEF HttpLedState, Asked, HttpPcs
  <1>3. CASE HttpLedReply
    BY <1>3, "led_flag" \in pcs, HttpWriteTypes DEF HttpLedReply, HttpPcs
  <1>4. CASE HttpFile /\ ~UNCHANGED lwipVars
    <2>1. PICK pc \in {"body", "notfound"} : Goto(pc)
      BY <1>4 DEF HttpFile
    <2> QED BY <1>4, <2>1, HttpWriteTypes DEF HttpFile, HttpPcs
  <1>7. CASE HttpFile /\ UNCHANGED lwipVars
    <2>1. PICK pc \in {"body", "notfound"} : Goto(pc)
      BY <1>7 DEF HttpFile
    <2> QED BY <1>7, <2>1 DEF HttpFile, HttpTyped, Goto, HttpTypeOK, HttpPcs,
                              BoardTypeOK, boardVars, LwipTypeOK, lwipVars
  <1>5. CASE HttpBody
    <2>1. WriteOutcome(hfd) \in {"all", "part", "error"}
      BY <1>5 DEF HttpBody, WriteOutcome
    <2>2. PICK pc \in {"close", "body", "notfound"} : Goto(pc)
      BY <1>5, <2>1 DEF HttpBody
    <2> QED BY <1>5, <2>2, HttpWriteTypes DEF HttpBody, HttpPcs
  <1>6. CASE HttpNotFound
    BY <1>6, "close" \in pcs, HttpWriteTypes DEF HttpNotFound, HttpPcs
  <1> QED BY <1>1, <1>2, <1>3, <1>4, <1>5, <1>6, <1>7

\* The hand-over, the LED and the close keep the types.
LEMMA HttpEndTypes ==
  ASSUME HttpTyped,
         HttpPut \/ HttpPutTimeout \/ HttpLedPin \/ HttpLedFlag \/ HttpClose
  PROVE  HttpTyped'
  <1>1. CASE HttpPut
    <2>1. hfd \in Fds
      BY <1>1 DEF HttpTyped, HttpPut, HttpTypeOK
    <2>2. ws_queue' \in Seq(Fds)
      BY <1>1, <2>1 DEF HttpTyped, HttpPut, QueuePut
    <2> QED BY <1>1, <2>2 DEF HttpTyped, HttpPut, QueuePut, HttpTypeOK, HttpPcs,
                              BoardTypeOK, LwipTypeOK, lwipVars
  <1>2. CASE HttpPutTimeout
    BY <1>2 DEF HttpTyped, HttpPutTimeout, Goto, HttpTypeOK, HttpPcs,
                BoardTypeOK, LwipTypeOK, lwipVars, boardVars
  <1>3. CASE HttpLedPin
    BY <1>3 DEF HttpTyped, HttpLedPin, Asked, Goto, WritePin, HttpTypeOK, HttpPcs,
                BoardTypeOK, PinStates, LwipTypeOK, lwipVars
  <1>4. CASE HttpLedFlag
    BY <1>4 DEF HttpTyped, HttpLedFlag, Goto, FlagSet, HttpTypeOK, HttpPcs,
                BoardTypeOK, LwipTypeOK, lwipVars
  <1>5. CASE HttpClose
    <2>1. LwipTypeOK'
      BY <1>5, CloseType DEF HttpTyped, HttpClose
    <2>2. HttpTypeOK'
      BY <1>5 DEF HttpTyped, HttpClose, Forget, HttpTypeOK, HttpPcs
    <2> QED BY <1>5, <2>1, <2>2 DEF HttpTyped, HttpClose, BoardTypeOK, boardVars
  <1> QED BY <1>1, <1>2, <1>3, <1>4, <1>5

\* Every step of the HTTP thread keeps the types.
LEMMA HttpNextTypes ==
  ASSUME HttpTyped, HttpNext
  PROVE  HttpTyped'
  BY HttpWaitTypes, HttpTrackTypes, HttpRecvTypes, HttpAnswerTypes, HttpEndTypes
     DEF HttpNext

----------------------------------------------------------------------------
(* The WebSocket thread.                                                   *)

\* What the steps of this thread rely on.
WsTyped ==
    /\ LwipTypeOK
    /\ BoardTypeOK
    /\ WsTypeOK
    /\ ws_queue \in Seq(Fds)

\* Slots are numbers from 1 to MAX_WS_CLIENTS, and the descriptors in them are
\* told from NoFd.
LEMMA SlotNumbers ==
  /\ MaxWsClients \in Nat /\ MaxWsClients >= 1
  /\ 1 \in WsSlots
  /\ \A i \in WsSlots : i \in Int /\ i >= 1 /\ i <= MaxWsClients
  /\ \A fd \in Fds : fd \in Int /\ fd # NoFd
  BY WsAssumption, LwipAssumption DEF WsSlots, Fds, NoFd

\* What the WebSocket thread writes is one of the known kinds of data.
LEMMA WsOutputKinds == {"busy", "led", "button"} \subseteq Outputs
  BY DEF Outputs

\* A broadcast that starts has a known message and a slot to start from.
LEMMA BroadcastTypes ==
  ASSUME NEW base \in WsSlots, NEW message \in Message, Broadcast(base, message)
  PROVE  /\ wpc' = "bcast" /\ bmsg' \in Message
         /\ bbase' \in WsSlots /\ bidx' \in 1..MaxWsClients + 1
  BY SlotNumbers DEF Broadcast, WsSlots

\* Admitting and rejecting keep the types.
LEMMA WsAdmitTypes ==
  ASSUME WsTyped, \/ WsGet \/ WsGetNothing \/ WsAdmit \/ WsInitRead
         \/ WsReject \/ WsRejectClose
  PROVE  WsTyped'
  <1>1. CASE WsGet
    <2>1. Head(ws_queue) \in Fds /\ Tail(ws_queue) \in Seq(Fds)
      BY <1>1 DEF WsTyped, WsGet, QueueGet
    <2>2. WsTypeOK'
      BY <1>1, <2>1, SlotNumbers
         DEF WsTyped, WsGet, WsTypeOK, WsPcs, NotBroadcasting, WsSlots
    <2> QED BY <1>1, <2>1, <2>2
            DEF WsTyped, WsGet, QueueGet, BoardTypeOK, LwipTypeOK, lwipVars
  <1>2. CASE WsGetNothing
    BY <1>2 DEF WsTyped, WsGetNothing, WsTypeOK, WsPcs, NotBroadcasting,
                BoardTypeOK, boardVars, LwipTypeOK, lwipVars
  <1>3. CASE WsAdmit
    <2>1. LwipTypeOK'
      BY <1>3, SetNonblockType DEF WsTyped, WsAdmit
    <2> QED BY <1>3, <2>1 DEF WsTyped, WsAdmit, WsTypeOK, WsPcs, NotBroadcasting,
                              BoardTypeOK, boardVars
  <1>6. CASE WsInitRead
    <2>1. [type |-> "init", state |-> LD1] \in Message
      BY DEF WsTyped, BoardTypeOK, Message
    <2>2. /\ wpc' = "bcast" /\ bmsg' \in Message
          /\ bbase' \in WsSlots /\ bidx' \in 1..MaxWsClients + 1
      BY <1>6, <2>1, BroadcastTypes DEF WsTyped, WsInitRead, WsTypeOK
    <2>3. WsTypeOK'
      BY <1>6, <2>2 DEF WsTyped, WsInitRead, WsTypeOK, WsPcs, NoFd
    <2> QED BY <1>6, <2>3 DEF WsTyped, WsInitRead, BoardTypeOK, boardVars,
                              LwipTypeOK, lwipVars
  <1>4. CASE WsReject
    <2>1. LwipTypeOK'
      BY <1>4, WriteType, WsOutputKinds DEF WsTyped, WsReject
    <2> QED BY <1>4, <2>1 DEF WsTyped, WsReject, WsTypeOK, WsPcs, NotBroadcasting,
                              BoardTypeOK, boardVars
  <1>5. CASE WsRejectClose
    <2>1. LwipTypeOK'
      BY <1>5, CloseType DEF WsTyped, WsRejectClose
    <2> QED BY <1>5, <2>1 DEF WsTyped, WsRejectClose, WsTypeOK, WsPcs,
                              NotBroadcasting, BoardTypeOK, boardVars, NoFd
  <1> QED BY <1>1, <1>2, <1>3, <1>4, <1>5, <1>6

\* Waiting for the flag and reading the LED keep the types.
LEMMA WsFlagTypes ==
  ASSUME WsTyped, WsFlag \/ WsFlagTimeout \/ WsLedRead
  PROVE  WsTyped'
  <1>1. CASE WsFlag
    BY <1>1 DEF WsTyped, WsFlag, FlagTake, WsTypeOK, WsPcs, NotBroadcasting,
                BoardTypeOK, LwipTypeOK, lwipVars
  <1>2. CASE WsFlagTimeout
    BY <1>2, SlotNumbers
       DEF WsTyped, WsFlagTimeout, WsTypeOK, WsPcs, NotBroadcasting,
           BoardTypeOK, boardVars, LwipTypeOK, lwipVars
  <1>3. CASE WsLedRead
    <2>1. [type |-> "led", state |-> LD1] \in Message
      BY DEF WsTyped, BoardTypeOK, Message
    <2>2. /\ wpc' = "bcast" /\ bmsg' \in Message
          /\ bbase' \in WsSlots /\ bidx' \in 1..MaxWsClients + 1
      BY <1>3, <2>1, BroadcastTypes, SlotNumbers DEF WsLedRead
    <2>3. WsTypeOK'
      BY <1>3, <2>2, SlotNumbers DEF WsTyped, WsLedRead, WsTypeOK, WsPcs
    <2> QED BY <1>3, <2>3
            DEF WsTyped, WsLedRead, BoardTypeOK, boardVars, LwipTypeOK, lwipVars
  <1> QED BY <1>1, <1>2, <1>3

\* broadcast_to_ws_clients() keeps the types.
LEMMA WsBroadcastTypes ==
  ASSUME WsTyped,
         \/ WsBcastWrite \/ WsBcastClose \/ WsBcastDone
         \/ WsBcastPast \/ WsPastClose
  PROVE  WsTyped'
  <1>1. CASE WsBcastWrite
    <2>1. PICK i \in WsSlots :
            /\ Write(clients_sock[i], IF IsLed(bmsg) THEN "led" ELSE "button")
            /\ \/ /\ shown' \in {shown, [shown EXCEPT ![i] = bmsg.state]}
                  /\ bidx' = i + 1 /\ wpc' = "bcast"
               \/ bidx' = i /\ wpc' = "bcast_close" /\ shown' = shown
      BY <1>1 DEF WsBcastWrite
    <2>2. LwipTypeOK'
      BY <2>1, WriteType, WsOutputKinds DEF WsTyped
    <2>3. bmsg.state \in PinStates
      BY DEF WsTyped, WsTypeOK, Message
    <2>4. shown' \in [WsSlots -> PinStates \cup {"nothing"}]
      BY <2>1, <2>3 DEF WsTyped, WsTypeOK
    <2>5. bidx' \in 1..MaxWsClients + 1
      BY <2>1, SlotNumbers
    <2>6. WsTypeOK'
      BY <1>1, <2>1, <2>4, <2>5 DEF WsTyped, WsBcastWrite, WsTypeOK, WsPcs
    <2> QED BY <1>1, <2>2, <2>6 DEF WsTyped, WsBcastWrite, BoardTypeOK, boardVars
  <1>2. CASE WsBcastClose
    <2>1. LwipTypeOK'
      BY <1>2, CloseType DEF WsTyped, WsBcastClose
    <2>2. bidx' \in 1..MaxWsClients + 1
      BY <1>2, SlotNumbers DEF WsTyped, WsBcastClose, WsTypeOK
    <2>3. WsTypeOK'
      BY <1>2, <2>2 DEF WsTyped, WsBcastClose, WsTypeOK, WsPcs
    <2> QED BY <1>2, <2>1, <2>3 DEF WsTyped, WsBcastClose, BoardTypeOK, boardVars
  <1>3. CASE WsBcastDone
    <2>1. NoMessage \in Message
      BY DEF NoMessage, Message, PinStates
    <2>2. WsTypeOK'
      BY <1>3, <2>1, SlotNumbers DEF WsTyped, WsBcastDone, WsTypeOK, WsPcs, NoFd
    <2> QED BY <1>3, <2>2 DEF WsTyped, WsBcastDone, BoardTypeOK, boardVars,
                              LwipTypeOK, lwipVars
  <1>4. CASE WsBcastPast
    <2>1. PICK word \in StackWords :
            \/ wpc' = "bcast" /\ UNCHANGED <<new_sock, lwipVars>>
            \/ /\ Write(word, "led") /\ new_sock' = word
               /\ wpc' \in {"bcast", "past_close"}
      BY <1>4 DEF WsBcastPast
    <2>2. LwipTypeOK'
      BY <2>1, WriteType, WsOutputKinds DEF WsTyped, LwipTypeOK, lwipVars
    <2>3. bbase' \in WsSlots /\ bidx' \in 1..MaxWsClients + 1
      BY <1>4, SlotNumbers DEF WsTyped, WsTypeOK, WsBcastPast, PastArray, WsSlots
    <2>4. new_sock' \in Int
      BY <2>1, WsAssumption DEF WsTyped, WsTypeOK
    <2>5. WsTypeOK'
      BY <1>4, <2>1, <2>3, <2>4 DEF WsTyped, WsBcastPast, WsTypeOK, WsPcs
    <2> QED BY <1>4, <2>2, <2>5 DEF WsTyped, WsBcastPast, BoardTypeOK, boardVars
  <1>5. CASE WsPastClose
    <2>1. LwipTypeOK'
      BY <1>5, CloseType, CloseListenerType DEF WsTyped, WsPastClose
    <2> QED BY <1>5, <2>1 DEF WsTyped, WsPastClose, WsTypeOK, WsPcs, NoFd,
                              BoardTypeOK, boardVars
  <1> QED BY <1>1, <1>2, <1>3, <1>4, <1>5

\* What follows a recv() leads to the next slot, to a close or to a broadcast of
\* the button, all of known types.
LEMMA AfterRecvTypes ==
  ASSUME WsTyped, NEW i \in WsSlots, NEW c, NEW n, AfterRecv(i, c, n)
  PROVE  /\ wpc' \in {"recv", "recv_close", "bcast"}
         /\ widx' \in 1..MaxWsClients + 1
         /\ wpc' = "recv_close" => widx' \in WsSlots
         /\ bbase' \in WsSlots
         /\ bidx' \in 1..MaxWsClients + 1
         /\ bmsg' \in Message
         /\ is_button_rised' \in BOOLEAN
  <1>1. [type |-> "button", state |-> B1] \in Message
    BY DEF WsTyped, BoardTypeOK, Message
  <1>2. i \in 1..MaxWsClients + 1 /\ i + 1 \in 1..MaxWsClients + 1
    BY SlotNumbers
  <1>3. CASE wpc' = "recv_close" /\ widx' = i /\ NotBroadcasting
             /\ UNCHANGED is_button_rised
    BY <1>2, <1>3 DEF WsTyped, WsTypeOK, NotBroadcasting
  <1>4. CASE LookAtButton(i)
    <2>1. CASE Broadcast(1, [type |-> "button", state |-> B1])
      BY <1>1, <1>2, <1>4, <2>1, BroadcastTypes, SlotNumbers
         DEF LookAtButton, WsTyped, WsTypeOK
    <2>2. CASE wpc' = "recv" /\ NotBroadcasting /\ UNCHANGED is_button_rised
      BY <1>2, <1>4, <2>2 DEF LookAtButton, NotBroadcasting, WsTyped, WsTypeOK
    <2> QED BY <1>4, <2>1, <2>2 DEF LookAtButton
  <1> QED BY <1>3, <1>4 DEF AfterRecv

\* recv() on a client, blocked or not, and its close keep the types.
LEMMA WsRecvTypes ==
  ASSUME WsTyped,
         \/ WsRecv \/ WsRecvStale \/ WsRecvBlock \/ WsRecvWake \/ WsRecvGone
         \/ WsRecvClose \/ WsLoop
  PROVE  WsTyped'
  <1>1. CASE WsRecv
    <2>1. PICK i \in WsSlots : LET c == ConnAt(clients_sock[i]) IN
            /\ c # NoConn
            /\ \E n \in Takes(c) : Recv(c, n) /\ AfterRecv(i, c, n)
      BY <1>1 DEF WsRecv
    <2>2. LwipTypeOK'
      BY <2>1, ConnAtType, RecvType DEF WsTyped
    <2>3. WsTypeOK'
      BY <1>1, <2>1, AfterRecvTypes DEF WsTyped, WsRecv, WsTypeOK, WsPcs
    <2> QED BY <1>1, <2>2, <2>3 DEF WsTyped, WsRecv, BoardTypeOK, boardVars
  <1>2. CASE WsRecvStale
    <2>1. widx' \in WsSlots /\ widx' \in 1..MaxWsClients + 1
      BY <1>2, SlotNumbers DEF WsRecvStale
    <2> QED BY <1>2, <2>1 DEF WsTyped, WsRecvStale, WsTypeOK, WsPcs, NotBroadcasting,
                              BoardTypeOK, boardVars, LwipTypeOK, lwipVars
  <1>3. CASE WsRecvBlock
    <2>1. widx' \in WsSlots /\ widx' \in 1..MaxWsClients + 1
      BY <1>3, SlotNumbers DEF WsRecvBlock
    <2>2. wconn' \in Conns
      BY <1>3, ConnAtType DEF WsRecvBlock, WsTyped
    <2>3. WsTypeOK'
      BY <1>3, <2>1, <2>2
         DEF WsTyped, WsRecvBlock, WsTypeOK, WsPcs, NotBroadcasting
    <2> QED BY <1>3, <2>3 DEF WsTyped, WsRecvBlock, BoardTypeOK, boardVars,
                              LwipTypeOK, lwipVars
  <1>4. CASE WsRecvWake
    <2>1. widx \in WsSlots /\ wconn \in Conns
      BY <1>4 DEF WsRecvWake, WsTyped, WsTypeOK
    <2>2. LwipTypeOK'
      BY <1>4, <2>1, RecvType DEF WsRecvWake, WsTyped
    <2>3. WsTypeOK'
      BY <1>4, <2>1, AfterRecvTypes DEF WsTyped, WsRecvWake, WsTypeOK, WsPcs
    <2> QED BY <1>4, <2>2, <2>3 DEF WsTyped, WsRecvWake, BoardTypeOK, boardVars
  <1>5. CASE WsRecvGone
    BY <1>5 DEF WsTyped, WsRecvGone, WsTypeOK, WsPcs, NotBroadcasting,
                BoardTypeOK, boardVars, LwipTypeOK, lwipVars
  <1>6. CASE WsRecvClose
    <2>1. LwipTypeOK'
      BY <1>6, CloseType DEF WsTyped, WsRecvClose
    <2>2. widx' \in 1..MaxWsClients + 1
      BY <1>6, SlotNumbers DEF WsTyped, WsRecvClose, WsTypeOK
    <2>3. WsTypeOK'
      BY <1>6, <2>2 DEF WsTyped, WsRecvClose, WsTypeOK, WsPcs, NotBroadcasting
    <2> QED BY <1>6, <2>1, <2>3 DEF WsTyped, WsRecvClose, BoardTypeOK, boardVars
  <1>7. CASE WsLoop
    BY <1>7, SlotNumbers
       DEF WsTyped, WsLoop, WsTypeOK, WsPcs, NotBroadcasting,
           BoardTypeOK, boardVars, LwipTypeOK, lwipVars
  <1> QED BY <1>1, <1>2, <1>3, <1>4, <1>5, <1>6, <1>7

\* Every step of the WebSocket thread keeps the types.
LEMMA WsNextTypes ==
  ASSUME WsTyped, WsNext
  PROVE  WsTyped'
  BY WsAdmitTypes, WsFlagTypes, WsBroadcastTypes, WsRecvTypes DEF WsNext
=============================================================================
