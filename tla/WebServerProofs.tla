-------------------------- MODULE WebServerProofs --------------------------
(***************************************************************************)
(* Theorems of the composed web server, for any number of connections,     *)
(* descriptors and slots, any queue and any clients:                       *)
(*   TypeCorrect      every variable keeps its type                        *)
(*   NoLostLedUpdate  a client slot shows the LED or is about to           *)
(*   NothingUnwatched open descriptors are watched                         *)
(*   WatchedTracked   watched descriptors have slots                       *)
(*   NothingMissedAtStart, OnlyWhoAskedIsAnswered, HoggingForEver           *)
(***************************************************************************)
EXTENDS WebServer, ThreadProofs, FiniteSetTheorems

\* The types hold at the start.
LEMMA InitTypes == Init => TypeOK
  <1> SUFFICES ASSUME Init PROVE TypeOK
    OBVIOUS
  <1>1. <<>> \in Seq(Conns) /\ <<>> \in Seq(Segments) /\ <<>> \in Seq(Fds)
    OBVIOUS
  <1>2. LwipTypeOK
    BY <1>1 DEF Init, LwipInit, LwipTypeOK
  <1>3. BoardTypeOK
    BY DEF Init, BoardInit, BoardTypeOK, PinStates, Things
  <1>4. HttpTypeOK
    BY DEF Init, HttpInit, HttpTypeOK, HttpPcs
  <1>5. WsTypeOK
    BY SlotNumbers
       DEF Init, WsInit, WsTypeOK, WsPcs, Message, NoMessage, PinStates, NoFd
  <1>6. ClientsTypeOK
    BY DEF Init, ClientsInit, ClientsTypeOK
  <1> QED BY <1>1, <1>2, <1>3, <1>4, <1>5, <1>6 DEF Init, BoardInit, TypeOK

\* A step of a client keeps the types of the stack and of the clients.
LEMMA ClientTypes ==
  ASSUME LwipTypeOK, ClientsTypeOK, ClientNext
  PROVE  LwipTypeOK' /\ ClientsTypeOK'
  <1> USE DEF ClientsTypeOK
  <1>1. PICK c \in Conns :
          \/ ClientConnect(c)
          \/ \E r \in Pages : ClientRequest(c, r)
          \/ \E body \in {"on", "off"} :
                 ClientPost(c, body) \/ ClientPostHeaders(c, body)
          \/ ClientPostBody(c)
          \/ \E f \in {"text", "close"} : ClientFrame(c, f)
          \/ ClientFrameHead(c)
          \/ ClientFrameRest(c)
          \/ ClientClose(c)
          \/ ClientReset(c)
          \/ \E w \in Rooms : ClientWindow(c, w)
    BY DEF ClientNext
  <1>2. CASE ClientConnect(c)
    BY <1>2, NetworkType DEF ClientConnect, clientVars
  <1>3. CASE \E r \in Pages : ClientRequest(c, r)
    <2>1. PICK r \in Pages : ClientRequest(c, r)
      BY <1>3
    <2>2. r \in {"get", "state", "ws"} /\ r \in Segments /\ "tail" \in Segments
      BY <2>1 DEF Pages, Segments
    <2>3. <<r>> \in Seq(Segments) /\ <<r, "tail">> \in Seq(Segments)
      BY <2>2
    <2>4. LwipTypeOK'
      BY <2>1, <2>3, DeliverType DEF ClientRequest
    <2> QED BY <2>1, <2>2, <2>4 DEF ClientRequest
  <1>4. CASE \E body \in {"on", "off"} :
               ClientPost(c, body) \/ ClientPostHeaders(c, body)
    <2>1. PICK body \in {"on", "off"} :
            ClientPost(c, body) \/ ClientPostHeaders(c, body)
      BY <1>4
    <2>2. <<"post", body>> \in Seq(Segments) /\ <<"post">> \in Seq(Segments)
      BY DEF Segments
    <2> QED BY <2>1, <2>2, DeliverType DEF ClientPost, ClientPostHeaders
  <1>5. CASE ClientPostBody(c)
    <2>1. <<todo[c]>> \in Seq(Segments)
      BY <1>5 DEF ClientPostBody, Segments
    <2> QED BY <1>5, <2>1, DeliverType DEF ClientPostBody
  <1>6. CASE \E f \in {"text", "close"} : ClientFrame(c, f)
    <2>1. PICK f \in {"text", "close"} : ClientFrame(c, f)
      BY <1>6
    <2>2. <<f>> \in Seq(Segments)
      BY ClientsAssumption DEF Segments
    <2> QED BY <2>1, <2>2, DeliverType DEF ClientFrame
  <1>10. CASE ClientFrameHead(c) \/ ClientFrameRest(c)
    <2>1. <<"head">> \in Seq(Segments) /\ <<"tail">> \in Seq(Segments)
      BY DEF Segments
    <2> QED BY <1>10, <2>1, DeliverType DEF ClientFrameHead, ClientFrameRest
  <1>7. CASE ClientClose(c)
    BY <1>7, NetworkType DEF ClientClose, clientVars
  <1>8. CASE ClientReset(c)
    BY <1>8, NetworkType DEF ClientReset, clientVars
  <1>9. CASE \E w \in Rooms : ClientWindow(c, w)
    BY <1>9, NetworkType DEF ClientWindow, Rooms, clientVars
  <1> QED BY <1>1, <1>2, <1>3, <1>4, <1>5, <1>6, <1>7, <1>8, <1>9, <1>10

\* Every step of the system keeps the types.
LEMMA NextTypes ==
  ASSUME TypeOK, [Next]_vars
  PROVE  TypeOK'
  <1> USE DEF TypeOK
  <1>1. CASE HttpStep
    <2>1. HttpTyped'
      BY <1>1, HttpNextTypes DEF HttpStep, HttpTyped
    <2> QED BY <1>1, <2>1 DEF HttpStep, HttpTyped, wsVars, WsTypeOK,
                              clientVars, ClientsTypeOK
  <1>2. CASE WsStep
    <2>1. WsTyped'
      BY <1>2, WsNextTypes DEF WsStep, WsTyped
    <2> QED BY <1>2, <2>1 DEF WsStep, WsTyped, httpVars, HttpTypeOK,
                              clientVars, ClientsTypeOK
  <1>3. CASE ClientStep
    <2>1. LwipTypeOK' /\ ClientsTypeOK'
      BY <1>3, ClientTypes DEF ClientStep
    <2> QED BY <1>3, <2>1 DEF ClientStep, boardVars, BoardTypeOK, httpVars,
                              HttpTypeOK, wsVars, WsTypeOK
  <1>4. CASE ButtonStep
    BY <1>4 DEF ButtonStep, MoveButton, BoardTypeOK, PinStates, lwipVars, LwipTypeOK,
                httpVars, HttpTypeOK, wsVars, WsTypeOK, clientVars, ClientsTypeOK
  <1>5. CASE StartStep
    BY <1>5 DEF StartStep, MakeNext, Make, Things, BoardTypeOK, lwipVars, LwipTypeOK,
                httpVars, HttpTypeOK, wsVars, WsTypeOK, clientVars, ClientsTypeOK
  <1>6. CASE UNCHANGED vars
    BY <1>6 DEF vars, boardVars, BoardTypeOK, lwipVars, LwipTypeOK, httpVars,
                HttpTypeOK, wsVars, WsTypeOK, clientVars, ClientsTypeOK
  <1> QED BY <1>1, <1>2, <1>3, <1>4, <1>5, <1>6 DEF Next

\* Every variable of the stack, the board, the two threads and the clients keeps
\* its type in every behaviour.
THEOREM TypeCorrect == Spec => []TypeOK
  BY InitTypes, NextTypes, PTL DEF Spec

----------------------------------------------------------------------------
(* The start.                                                              *)

\* The steps of the WebSocket thread before a broadcast, at the start.
LEMMA StartBefore ==
  ASSUME StartsEmpty,
         \/ WsGet \/ WsGetNothing \/ WsAdmit \/ WsInitRead \/ WsReject \/ WsRejectClose
         \/ WsFlag \/ WsFlagTimeout \/ WsLedRead
  PROVE  StartsEmpty'
  <1> USE DEF StartsEmpty, Vacant, QueueExists, WsKnown
  <1>1. CASE WsGet
    BY <1>1 DEF WsGet, QueueGet
  <1>2. CASE WsGetNothing \/ WsFlagTimeout \/ WsLedRead
    BY <1>2 DEF WsGetNothing, WsFlagTimeout, WsLedRead, boardVars
  <1>3. CASE WsAdmit \/ WsInitRead \/ WsReject \/ WsRejectClose
    BY <1>3 DEF WsAdmit, WsInitRead, WsReject, WsRejectClose, boardVars
  <1>4. CASE WsFlag
    BY <1>4 DEF WsFlag, FlagTake
  <1> QED BY <1>1, <1>2, <1>3, <1>4

\* Its other steps: without clients there is nobody to write to or to poll.
LEMMA StartAfter ==
  ASSUME TypeOK, StartsEmpty, WsNext,
         ~(\/ WsGet \/ WsGetNothing \/ WsAdmit \/ WsInitRead \/ WsReject \/ WsRejectClose
           \/ WsFlag \/ WsFlagTimeout \/ WsLedRead)
  PROVE  StartsEmpty'
  <1> USE DEF StartsEmpty, Vacant, QueueExists, WsKnown
  <1>1. clients_sock \in [WsSlots -> Fds \cup {NoFd}]
    BY DEF TypeOK, WsTypeOK
  <1>2. CASE WsBcastWrite
    <2>1. wpc = "bcast" /\ UNCHANGED <<clients_sock, ws_queue, made, ws_flag>>
      BY <1>2 DEF WsBcastWrite, boardVars
    <2> QED BY <2>1
  <1>3. CASE WsBcastClose \/ WsBcastPast \/ WsPastClose \/ WsBcastDone
    <2>1. /\ wpc \in {"bcast", "bcast_close", "past_close"}
          /\ UNCHANGED <<ws_queue, made, ws_flag>>
          /\ \/ clients_sock' = [clients_sock EXCEPT ![bidx] = NoFd]
             \/ UNCHANGED clients_sock
      BY <1>3 DEF WsBcastClose, WsBcastPast, PastArray, WsPastClose, WsBcastDone, boardVars
    <2> QED BY <1>1, <2>1
  <1>4. CASE WsRecv \/ WsRecvStale \/ WsRecvBlock
    <2>1. /\ wpc = "recv" /\ \E i \in WsSlots : ~Vacant(i)
          /\ UNCHANGED <<clients_sock, ws_queue, made, ws_flag>>
      BY <1>4 DEF WsRecv, WsRecvStale, WsRecvBlock, FirstClient, boardVars
    <2> QED BY <2>1
  <1>5. CASE WsRecvWake \/ WsRecvGone \/ WsRecvClose
    <2>1. /\ wpc \in {"recv_blocked", "recv_close"}
          /\ UNCHANGED <<ws_queue, made, ws_flag>>
          /\ \/ clients_sock' = [clients_sock EXCEPT ![widx] = NoFd]
             \/ UNCHANGED clients_sock
      BY <1>5 DEF WsRecvWake, WsRecvGone, WsRecvClose, boardVars
    <2> QED BY <1>1, <2>1
  <1>6. CASE WsLoop
    BY <1>6 DEF WsLoop, boardVars
  <1> QED BY <1>2, <1>3, <1>4, <1>5, <1>6 DEF WsNext

\* The HTTP thread puts nothing into a queue that does not exist and sets no flag
\* of a thread that is not known.
LEMMA StartHttp ==
  ASSUME HttpNext
  PROVE  /\ UNCHANGED made
         /\ ~QueueExists => UNCHANGED ws_queue
         /\ ~WsKnown => UNCHANGED ws_flag
  <1>1. CASE HttpSelect \/ HttpSelectError \/ HttpScanDone \/ HttpAccept
             \/ HttpTrack \/ HttpBusy \/ HttpBusyClose
    BY <1>1 DEF HttpSelect, HttpSelectError, HttpScanDone, HttpAccept, HttpTrack, HttpBusy,
                HttpBusyClose, boardVars
  <1>2. CASE HttpRecv
    BY <1>2 DEF HttpRecv, HttpRecvData, HttpRecvEof, HttpRecvError, boardVars
  <1>3. CASE HttpSwitch \/ HttpPutTimeout \/ HttpLedState
             \/ HttpFile \/ HttpBody \/ HttpNotFound \/ HttpClose \/ HttpLedReply
    BY <1>3 DEF HttpSwitch, HttpPutTimeout, HttpLedState, HttpFile, HttpBody, HttpNotFound,
                HttpClose, HttpLedReply, boardVars
  <1>4. CASE HttpPut \/ HttpLedPin \/ HttpLedFlag
    BY <1>4 DEF HttpPut, QueuePut, QueueRefuses, HttpLedPin, WritePin, HttpLedFlag, FlagSet
  <1> QED BY <1>1, <1>2, <1>3, <1>4 DEF HttpNext

\* Every step of the system keeps the invariant.
LEMMA StartStepped ==
  ASSUME TypeOK, StartsEmpty, [Next]_vars
  PROVE  StartsEmpty'
  <1>1. CASE HttpStep
    BY <1>1, StartHttp DEF HttpStep, wsVars, StartsEmpty, Vacant, QueueExists, WsKnown
  <1>2. CASE WsStep
    BY <1>2, StartBefore, StartAfter DEF WsStep
  <1>3. CASE StartStep
    BY <1>3 DEF StartStep, MakeNext, Make, wsVars, StartsEmpty, Vacant, QueueExists, WsKnown
  <1>4. CASE ClientStep \/ ButtonStep \/ UNCHANGED vars
    <2>1. UNCHANGED <<wsVars, ws_queue, made, ws_flag>>
      BY <1>4 DEF ClientStep, ButtonStep, MoveButton, vars, boardVars
    <2> QED BY <2>1 DEF wsVars, StartsEmpty, Vacant, QueueExists, WsKnown
  <1> QED BY <1>1, <1>2, <1>3, <1>4 DEF Next

\* Whatever runs while StartDefaultTask is on its way from one osThreadNew() to
\* the next finds no WebSocket client: nobody misses what cannot be signalled yet.
THEOREM NothingMissedAtStart == Spec => []StartsEmpty
  <1>1. Init => StartsEmpty
    BY DEF Init, BoardInit, WsInit, StartsEmpty, Vacant
  <1> QED BY <1>1, StartStepped, TypeCorrect, PTL DEF Spec

----------------------------------------------------------------------------
(* No lost LED update.                                                     *)

LedInv == LedFresh /\ StaleIsFollowed

\* The HTTP thread either leaves the LED and the flag alone, or is between
\* writing the pin and closing the connection with the flag set, or finds nobody
\* to set it for.
LEMMA HttpLedSteps ==
  ASSUME HttpNext
  PROVE  \/ hpc' \in {"led_reply", "led_flag"}
         \/ ws_flag'
         \/ UNCHANGED <<LD1, ws_flag>> /\ hpc \notin {"led_reply", "led_flag"}
         \/ UNCHANGED <<LD1, ws_flag>> /\ ~WsKnown
  <1>1. CASE HttpSelect \/ HttpSelectError \/ HttpScanDone \/ HttpAccept
             \/ HttpTrack \/ HttpBusy \/ HttpBusyClose
    BY <1>1 DEF HttpSelect, HttpSelectError, HttpScanDone, HttpAccept, Scanning,
       HttpTrack, HttpBusy,
                HttpBusyClose, boardVars
  <1>2. CASE HttpRecv
    BY <1>2 DEF HttpRecv, HttpRecvData, HttpRecvEof, HttpRecvError, Scanning, boardVars
  <1>3. CASE HttpSwitch \/ HttpPut \/ HttpPutTimeout \/ HttpLedState
             \/ HttpFile \/ HttpBody \/ HttpNotFound \/ HttpClose
    BY <1>3 DEF HttpSwitch, HttpPut, QueuePut, HttpPutTimeout, HttpLedState, Asked,
                HttpFile, HttpBody, HttpNotFound, HttpClose, boardVars
  <1>4. CASE HttpLedPin \/ HttpLedReply \/ HttpLedFlag
    BY <1>4 DEF HttpLedPin, HttpLedReply, HttpLedFlag, Goto, FlagSet
  <1> QED BY <1>1, <1>2, <1>3, <1>4 DEF HttpNext

\* The steps of the WebSocket thread before a broadcast: a client that is
\* admitted, or all of them when the flag was taken, have the LED on its way.
LEMMA WsLedBefore ==
  ASSUME TypeOK, LedInv, UNCHANGED httpVars,
         \/ WsGet \/ WsGetNothing \/ WsAdmit \/ WsInitRead \/ WsReject \/ WsRejectClose
         \/ WsFlag \/ WsFlagTimeout \/ WsLedRead
  PROVE  LedInv'
  <1> USE DEF LedInv, LedFresh, StaleIsFollowed, LedPending, LedOnItsWay,
              BroadcastingLed, Vacant, httpVars
  <1>1. CASE WsGet
    BY <1>1 DEF WsGet, QueueGet, TypeOK, WsTypeOK
  <1>2. CASE WsGetNothing
    BY <1>2 DEF WsGetNothing, boardVars
  <1>3. CASE WsInitRead
    <2>1. bmsg'.state = LD1' /\ BroadcastingLed' /\ bidx' = widx
      BY <1>3 DEF WsInitRead, Broadcast, IsLed, boardVars
    <2>2. widx \in Int /\ widx >= widx
      BY SlotNumbers DEF TypeOK, WsTypeOK
    <2> QED BY <1>3, <2>1, <2>2 DEF WsInitRead, boardVars
  <1>8. CASE WsAdmit
    BY <1>8 DEF WsAdmit, boardVars
  <1>4. CASE WsReject \/ WsRejectClose
    BY <1>4 DEF WsReject, WsRejectClose, boardVars
  <1>5. CASE WsFlag
    BY <1>5 DEF WsFlag, FlagTake
  <1>6. CASE WsFlagTimeout
    BY <1>6 DEF WsFlagTimeout, boardVars
  <1>7. CASE WsLedRead
    <2>1. bmsg'.state = LD1' /\ BroadcastingLed' /\ bidx' = 1
      BY <1>7 DEF WsLedRead, Broadcast, IsLed, boardVars
    <2>2. \A i \in WsSlots : i >= bidx'
      BY <2>1, SlotNumbers
    <2> QED BY <2>1, <2>2
  <1> QED BY <1>1, <1>2, <1>3, <1>4, <1>5, <1>6, <1>7, <1>8

\* The steps of a broadcast: a slot passed was shown the message, or is vacant.
LEMMA WsLedBroadcast ==
  ASSUME TypeOK, LedInv, UNCHANGED httpVars,
         \/ WsBcastWrite \/ WsBcastClose \/ WsBcastDone
         \/ WsBcastPast \/ WsPastClose
  PROVE  LedInv'
  <1> USE DEF LedInv, LedFresh, StaleIsFollowed, LedPending, LedOnItsWay,
              BroadcastingLed, Vacant, httpVars
  <1>1. CASE WsBcastWrite
    <2>1. PICK i \in WsSlots :
            /\ FirstClient(bidx, i)
            /\ \/ /\ shown' = IF IsLed(bmsg) THEN [shown EXCEPT ![i] = bmsg.state]
                                             ELSE shown
                  /\ bidx' = i + 1 /\ wpc' = "bcast"
               \/ bidx' = i /\ wpc' = "bcast_close" /\ shown' = shown
      BY <1>1 DEF WsBcastWrite
    <2>2. wpc = "bcast" /\ UNCHANGED <<clients_sock, widx, bmsg, LD1, ws_flag>>
      BY <1>1 DEF WsBcastWrite, boardVars
    <2>3. StaleIsFollowed'
      BY <2>1, <2>2
    <2>4. ASSUME NEW j \in WsSlots, ~Vacant(j)', ~LedPending'
          PROVE  shown'[j] = LD1' \/ LedOnItsWay(j)'
      <3>1. ~LedPending /\ clients_sock[j] # NoFd
        BY <2>1, <2>2, <2>4
      <3>2. shown[j] = LD1 \/ LedOnItsWay(j)
        BY <3>1
      <3>3. shown \in [WsSlots -> PinStates \cup {"nothing"}]
        BY DEF TypeOK, WsTypeOK
      <3>4. CASE j = i
        BY <2>1, <2>2, <3>1, <3>2, <3>3, <3>4, SlotNumbers DEF IsLed
      <3>5. CASE j # i
        <4>1. shown'[j] = shown[j]
          BY <2>1, <3>3, <3>5
        <4>2. j >= bidx => j >= i + 1
          BY <2>1, <3>1, <3>5, SlotNumbers DEF FirstClient
        <4>3. j >= bidx => j >= bidx'
          BY <2>1, <4>2, SlotNumbers DEF TypeOK, WsTypeOK
        <4> QED BY <2>1, <2>2, <3>2, <4>1, <4>3
      <3> QED BY <3>4, <3>5
    <2> QED BY <2>3, <2>4
  <1>2. CASE WsBcastClose
    <2>1. /\ wpc = "bcast_close" /\ wpc' = "bcast" /\ bidx' = bidx + 1
          /\ clients_sock' = [clients_sock EXCEPT ![bidx] = NoFd]
          /\ UNCHANGED <<shown, widx, bmsg, LD1, ws_flag>>
      BY <1>2 DEF WsBcastClose, boardVars
    <2>2. /\ clients_sock \in [WsSlots -> Fds \cup {NoFd}]
          /\ bidx \in WsSlots
      BY <2>1 DEF TypeOK, WsTypeOK
    <2>3. ASSUME NEW j \in WsSlots, ~Vacant(j)'
          PROVE  ~Vacant(j) /\ j # bidx /\ (j >= bidx => j >= bidx')
      BY <2>1, <2>2, <2>3, SlotNumbers
    <2> QED BY <2>1, <2>3
  <1>3. CASE WsBcastDone
    <2>1. \A i \in WsSlots : i >= bidx => Vacant(i)
      BY <1>3 DEF WsBcastDone, NoClient
    <2> QED BY <1>3, <2>1 DEF WsBcastDone, boardVars
  <1>4. CASE WsBcastPast
    <2>1. \A i \in WsSlots : i >= bidx => Vacant(i)
      BY <1>4 DEF WsBcastPast, PastArray, NoClient
    <2>2. /\ wpc = "bcast" /\ wpc' \in {"bcast", "past_close"}
          /\ UNCHANGED <<clients_sock, shown, widx, bmsg, LD1, ws_flag>>
      BY <1>4 DEF WsBcastPast, PastArray, boardVars
    <2> QED BY <2>1, <2>2
  <1>5. CASE WsPastClose
    BY <1>5 DEF WsPastClose, boardVars
  <1> QED BY <1>1, <1>2, <1>3, <1>4, <1>5

\* The steps of the receive loop: no LED is sent, and a closed client's slot is
\* vacant.
LEMMA WsLedReceive ==
  ASSUME TypeOK, LedInv, UNCHANGED httpVars,
         \/ WsRecv \/ WsRecvStale \/ WsRecvBlock \/ WsRecvWake \/ WsRecvGone
         \/ WsRecvClose \/ WsLoop
  PROVE  LedInv'
  <1> USE DEF LedInv, LedFresh, StaleIsFollowed, LedPending, LedOnItsWay,
              BroadcastingLed, Vacant, httpVars
  <1>1. ASSUME NEW i, NEW c, NEW n, AfterRecv(i, c, n)
        PROVE  /\ wpc' \in {"recv", "recv_close", "bcast"}
               /\ wpc' = "bcast" => bmsg'.type = "button"
    BY <1>1 DEF AfterRecv, LookAtButton, Broadcast
  <1>2. CASE WsRecv
    BY <1>1, <1>2 DEF WsRecv, IsLed, boardVars
  <1>3. CASE WsRecvStale \/ WsRecvBlock \/ WsRecvGone \/ WsLoop
    BY <1>3 DEF WsRecvStale, WsRecvBlock, WsRecvGone, WsLoop, boardVars
  <1>4. CASE WsRecvWake
    BY <1>1, <1>4 DEF WsRecvWake, IsLed, boardVars
  <1>5. CASE WsRecvClose
    <2>1. clients_sock \in [WsSlots -> Fds \cup {NoFd}]
      BY DEF TypeOK, WsTypeOK
    <2> QED BY <1>5, <2>1 DEF WsRecvClose, boardVars
  <1> QED BY <1>2, <1>3, <1>4, <1>5

\* Every step of the system keeps the invariant.
LEMMA LedStep ==
  ASSUME TypeOK, LedInv, StartsEmpty, [Next]_vars
  PROVE  LedInv'
  <1> USE DEF LedInv, LedFresh, StaleIsFollowed, LedPending, LedOnItsWay,
              BroadcastingLed, Vacant
  <1>1. CASE HttpStep
    BY <1>1, HttpLedSteps DEF HttpStep, wsVars, StartsEmpty, WsKnown, QueueExists
  <1>2. CASE WsStep
    BY <1>2, WsLedBefore, WsLedBroadcast, WsLedReceive DEF WsStep, WsNext
  <1>3. CASE ClientStep
    BY <1>3 DEF ClientStep, boardVars, httpVars, wsVars
  <1>4. CASE ButtonStep
    BY <1>4 DEF ButtonStep, MoveButton, httpVars, wsVars
  <1>5. CASE StartStep \/ UNCHANGED vars
    BY <1>5 DEF StartStep, MakeNext, Make, vars, boardVars, httpVars, wsVars
  <1> QED BY <1>1, <1>2, <1>3, <1>4, <1>5 DEF Next

\* No WebSocket client is left with an LED state that is no longer true unless
\* the news is on its way: websocket_thread() clears the flag before it reads the
\* pin, and http_server_thread() sets the flag after it wrote the pin.
THEOREM NoLostLedUpdate == Spec => []LedFresh
  <1>1. Init => LedInv
    BY DEF Init, WsInit, LedInv, LedFresh, StaleIsFollowed, BroadcastingLed, Vacant
  <1>2. TypeOK /\ LedInv /\ StartsEmpty /\ [Next]_vars => LedInv'
    BY LedStep
  <1>3. LedInv => LedFresh
    BY DEF LedInv
  <1> QED BY <1>1, <1>2, <1>3, TypeCorrect, NothingMissedAtStart, PTL DEF Spec

----------------------------------------------------------------------------
(* What the HTTP thread watches.                                           *)

WatchInv == OpenIsWatched /\ WatchedHasSlot

\* Only accept() opens a descriptor, and it comes to the HTTP thread's hands;
\* everything else that thread does before it tracks or closes leaves what it
\* watches as it was.
LEMMA HttpWatchOther ==
  ASSUME TypeOK, WatchInv,
         \/ HttpSelect \/ HttpSelectError \/ HttpScanDone \/ HttpAccept
         \/ HttpBusy \/ HttpRecv
         \/ HttpSwitch \/ HttpPut \/ HttpPutTimeout \/ HttpLedState
         \/ HttpLedPin \/ HttpLedReply \/ HttpLedFlag
         \/ HttpFile \/ HttpBody \/ HttpNotFound
  PROVE  WatchInv'
  <1> USE DEF WatchInv, OpenIsWatched, WatchedHasSlot
  <1>1. CASE HttpAccept
    <2>1. hpc = "scan" /\ Untracked
      BY <1>1 DEF HttpAccept, Scanning, Untracked
    <2>2. CASE \E fd \in Fds : Accept(fd) /\ hfd' = fd /\ hpc' = "track"
      <3>1. PICK fd \in Fds : Accept(fd) /\ hfd' = fd /\ hpc' = "track"
        BY <2>2
      <3>2. \A g \in Fds : g # fd /\ IsOpen(g)' => IsOpen(g)
        BY <3>1 DEF Accept, IsOpen, ConnAt, TypeOK, LwipTypeOK
      <3> QED BY <2>1, <3>1, <3>2 DEF Untracked
    <2>3. CASE AcceptFails \/ UNCHANGED lwipVars
      BY <2>1, <2>3, OpenUnchanged DEF AcceptFails, lwipVars, Untracked
    <2> QED BY <1>1, <2>2, <2>3 DEF HttpAccept
  <1>2. ASSUME UNCHANGED sock, Untracked,
               \/ hpc \notin {"track", "busy", "busy_close"}
               \/ hpc' \in {"track", "busy", "busy_close"} /\ hfd' = hfd
        PROVE  WatchInv'
    BY <1>2, OpenUnchanged DEF Untracked
  <1>3. CASE HttpSelect \/ HttpSelectError \/ HttpScanDone
    BY <1>2, <1>3 DEF HttpSelect, HttpSelectError, HttpScanDone, Goto, httpVars,
                      lwipVars, Untracked
  <1>4. CASE HttpBusy
    BY <1>2, <1>4 DEF HttpBusy, Goto, Write, Untracked
  <1>5. CASE HttpRecv
    BY <1>2, <1>5 DEF HttpRecv, HttpRecvData, HttpRecvEof, HttpRecvError, Scanning,
                      Recv, lwipVars, Untracked
  <1>6. CASE HttpPut \/ HttpPutTimeout \/ HttpLedPin \/ HttpLedFlag
    BY <1>2, <1>6 DEF HttpPut, HttpPutTimeout, HttpLedPin, HttpLedFlag, Asked, Goto,
                      lwipVars, Untracked
  <1>7. CASE HttpSwitch \/ HttpLedState \/ HttpLedReply
    BY <1>2, <1>7 DEF HttpSwitch, HttpLedState, HttpLedReply, Asked, Goto, Write,
                      Untracked
  <1>8. CASE HttpFile \/ HttpBody \/ HttpNotFound
    BY <1>2, <1>8 DEF HttpFile, HttpBody, HttpNotFound, Goto, Write, lwipVars, Untracked
  <1> QED BY <1>1, <1>3, <1>4, <1>5, <1>6, <1>7, <1>8

\* A connection that is tracked gets a slot that was free and is watched.
LEMMA HttpWatchTrack ==
  ASSUME TypeOK, WatchInv, HttpTrack
  PROVE  WatchInv'
  <1> USE DEF WatchInv, OpenIsWatched, WatchedHasSlot
  <1>1. hpc = "track" /\ hfd \in Fds /\ max_fd \in Int
    <2>1. hpc = "track" /\ hfd \in Fds /\ max_fd \in Fds \cup {HttpSock}
      BY DEF HttpTrack, TypeOK, HttpTypeOK
    <2> QED BY <2>1, FdsPositive DEF HttpSock
  <1>2. \A g \in Fds : IsOpen(g)' <=> IsOpen(g)
    BY OpenUnchanged DEF HttpTrack, SetNonblock
  <1>3. CASE \E s \in HttpSlots :
               /\ FreeSlot(s)
               /\ client_sockets' = [client_sockets EXCEPT ![s] = hfd]
               /\ master_fds' = master_fds \cup {hfd}
               /\ max_fd' = IF hfd > max_fd THEN hfd ELSE max_fd
               /\ hpc' = "scan"
               /\ hfd' = NoFd
    <2>1. PICK s \in HttpSlots :
               /\ client_sockets[s] = NoFd
               /\ client_sockets' = [client_sockets EXCEPT ![s] = hfd]
               /\ master_fds' = master_fds \cup {hfd}
               /\ max_fd' = IF hfd > max_fd THEN hfd ELSE max_fd
      BY <1>3 DEF FreeSlot
    <2>2. OpenIsWatched'
      BY <1>1, <1>2, <2>1, FdsPositive
    <2>3. ASSUME NEW fd \in master_fds' \ {HttpSock}
          PROVE  \E t \in HttpSlots : client_sockets'[t] = fd
      <3>1. client_sockets \in [HttpSlots -> Fds \cup {NoFd}] /\ master_fds \subseteq Fds \cup {HttpSock}
        BY DEF TypeOK, HttpTypeOK
      <3>2. CASE fd = hfd
        BY <2>1, <3>1, <3>2
      <3>3. CASE fd # hfd
        <4>1. fd \in Fds /\ fd # NoFd
          BY <2>1, <2>3, <3>1, <3>3, FdsPositive
        <4>2. PICK t \in HttpSlots : client_sockets[t] = fd
          BY <2>1, <2>3, <3>3
        <4> QED BY <2>1, <3>1, <4>1, <4>2
      <3> QED BY <3>2, <3>3
    <2> QED BY <2>2, <2>3
  <1>4. CASE hpc' = "busy" /\ UNCHANGED <<client_sockets, master_fds, max_fd, hfd>>
    BY <1>1, <1>2, <1>4
  <1> QED BY <1>3, <1>4 DEF HttpTrack

\* A descriptor that the thread closes is no longer watched, and the slot that is
\* cleared held no other.
LEMMA HttpWatchClose ==
  ASSUME TypeOK, WatchInv, HttpClose \/ HttpBusyClose
  PROVE  WatchInv'
  <1> USE DEF WatchInv, OpenIsWatched, WatchedHasSlot
  <1>1. \A g \in Fds : IsOpen(g)' => IsOpen(g) /\ g # hfd
    BY CloseCloses DEF TypeOK, HttpClose, HttpBusyClose
  <1>2. CASE HttpBusyClose
    BY <1>1, <1>2 DEF HttpBusyClose
  <1>3. CASE HttpClose
    <2>1. OpenIsWatched'
      BY <1>1, <1>3 DEF HttpClose, Forget
    <2>2. ASSUME NEW fd \in master_fds' \ {HttpSock}
          PROVE  \E t \in HttpSlots : client_sockets'[t] = fd
      <3>1. fd \in master_fds /\ fd # hfd
        BY <1>3, <2>2 DEF HttpClose, Forget
      <3>2. PICK t \in HttpSlots : client_sockets[t] = fd
        BY <2>2, <3>1
      <3>3. client_sockets'[t] = fd
        BY <1>3, <3>1, <3>2 DEF HttpClose, Forget, SlotOf, TypeOK, HttpTypeOK
      <3> QED BY <3>3
    <2> QED BY <2>1, <2>2
  <1> QED BY <1>2, <1>3

\* The WebSocket thread closes descriptors and opens none.
LEMMA WsOpensNone ==
  ASSUME TypeOK, WsNext, NEW g, IsOpen(g)'
  PROVE  IsOpen(g)
  <1>1. CASE UNCHANGED sock
    BY <1>1, OpenUnchanged
  <1>2. CASE \E fd : Close(fd)
    BY <1>2, CloseCloses DEF TypeOK
  <1>3. UNCHANGED sock \/ \E fd : Close(fd)
    <2>1. CASE WsGet \/ WsGetNothing \/ WsAdmit \/ WsInitRead \/ WsReject \/ WsRejectClose
      BY <2>1 DEF WsGet, WsGetNothing, WsAdmit, SetNonblock, WsReject, Write,
                  WsInitRead, WsRejectClose, lwipVars
    <2>2. CASE WsFlag \/ WsFlagTimeout \/ WsLedRead
      BY <2>2 DEF WsFlag, WsFlagTimeout, WsLedRead, lwipVars
    <2>3. CASE WsBcastWrite \/ WsBcastClose \/ WsBcastPast \/ WsPastClose \/ WsBcastDone
      BY <2>3 DEF WsBcastWrite, Write, WsBcastClose, WsBcastPast, WsPastClose,
                  CloseListener, WsBcastDone, lwipVars
    <2>4. CASE WsRecv \/ WsRecvStale \/ WsRecvBlock \/ WsRecvWake \/ WsRecvGone
               \/ WsRecvClose \/ WsLoop
      BY <2>4 DEF WsRecv, Recv, WsRecvStale, WsRecvBlock, WsRecvWake, WsRecvGone,
                  WsRecvClose, WsLoop, lwipVars
    <2> QED BY <2>1, <2>2, <2>3, <2>4 DEF WsNext
  <1> QED BY <1>1, <1>2, <1>3

\* It may close the listening socket, for good.
LEMMA WsListensNot ==
  ASSUME WsNext
  PROVE  listening' => listening
  <1>1. UNCHANGED listening \/ CloseListener
    <2>1. CASE WsGet \/ WsGetNothing \/ WsAdmit \/ WsInitRead \/ WsReject \/ WsRejectClose
      BY <2>1 DEF WsGet, WsGetNothing, WsAdmit, SetNonblock, WsInitRead, WsReject, Write,
                  WsRejectClose, Close, lwipVars
    <2>2. CASE WsFlag \/ WsFlagTimeout \/ WsLedRead
      BY <2>2 DEF WsFlag, WsFlagTimeout, WsLedRead, lwipVars
    <2>3. CASE WsBcastWrite \/ WsBcastClose \/ WsBcastPast \/ WsPastClose \/ WsBcastDone
      BY <2>3 DEF WsBcastWrite, Write, WsBcastClose, Close, WsBcastPast, WsPastClose,
                  WsBcastDone, lwipVars
    <2>4. CASE WsRecv \/ WsRecvStale \/ WsRecvBlock \/ WsRecvWake \/ WsRecvGone
               \/ WsRecvClose \/ WsLoop
      BY <2>4 DEF WsRecv, Recv, WsRecvStale, WsRecvBlock, WsRecvWake, WsRecvGone,
                  WsRecvClose, Close, WsLoop, lwipVars
    <2> QED BY <2>1, <2>2, <2>3, <2>4 DEF WsNext
  <1> QED BY <1>1 DEF CloseListener

\* The clients leave the socket table and the listening socket alone.
LEMMA ClientsOpenNone ==
  ASSUME ClientNext
  PROVE  UNCHANGED <<sock, listening>>
  BY DEF ClientNext, ClientConnect, ClientRequest, ClientPost, ClientPostHeaders,
         ClientPostBody, ClientFrame, ClientFrameHead, ClientFrameRest,
         ClientClose, ClientReset, ClientWindow,
         TcpConnect, TcpDeliver, TcpFin, TcpRst, TcpWindow

\* Every step of the system keeps the invariant.
LEMMA WatchStep ==
  ASSUME TypeOK, WatchInv, [Next]_vars
  PROVE  WatchInv'
  <1>1. CASE HttpStep
    BY <1>1, HttpWatchOther, HttpWatchTrack, HttpWatchClose DEF HttpStep, HttpNext
  <1>2. ASSUME UNCHANGED httpVars, \A g \in Fds : IsOpen(g)' => IsOpen(g)
        PROVE  WatchInv'
    BY <1>2 DEF httpVars, WatchInv, OpenIsWatched, WatchedHasSlot
  <1>3. CASE WsStep
    BY <1>2, <1>3, WsOpensNone DEF WsStep
  <1>4. CASE ClientStep
    BY <1>2, <1>4, ClientsOpenNone, OpenUnchanged DEF ClientStep
  <1>5. CASE ButtonStep \/ StartStep \/ UNCHANGED vars
    BY <1>2, <1>5, OpenUnchanged DEF ButtonStep, StartStep, vars, lwipVars
  <1> QED BY <1>1, <1>3, <1>4, <1>5 DEF Next

\* Together: the two threads never lose sight of an open descriptor.
LEMMA WatchInvariant == Spec => []WatchInv
  <1>1. Init => WatchInv
    BY DEF Init, LwipInit, HttpInit, WatchInv, OpenIsWatched, WatchedHasSlot,
           IsOpen, ConnAt
  <1>2. TypeOK /\ WatchInv /\ [Next]_vars => WatchInv'
    BY WatchStep
  <1> QED BY <1>1, <1>2, TypeCorrect, PTL DEF Spec

\* No open descriptor escapes the HTTP thread's select(), although the WebSocket
\* thread closes descriptors that it does not own.
THEOREM NothingUnwatched == Spec => []OpenIsWatched
  <1>1. WatchInv => OpenIsWatched
    BY DEF WatchInv
  <1> QED BY <1>1, WatchInvariant, PTL

\* Every descriptor that select() is given has a slot in client_sockets, so at
\* most MAX_HTTP_CLIENTS connections are watched.
THEOREM WatchedTracked == Spec => []WatchedHasSlot
  <1>1. WatchInv => WatchedHasSlot
    BY DEF WatchInv
  <1> QED BY <1>1, WatchInvariant, PTL

\* The descriptors that some slot of the HTTP thread tracks.
InSlots == {fd \in Fds : \E s \in HttpSlots : client_sockets[s] = fd}

\* A slot tracks one descriptor.
LEMMA SlotsBound == IsFiniteSet(InSlots) /\ Cardinality(InSlots) <= MaxHttpClients
  <1> DEFINE slot == [fd \in InSlots |-> CHOOSE s \in HttpSlots : client_sockets[s] = fd]
  <1>1. \A fd \in InSlots : slot[fd] \in HttpSlots /\ client_sockets[slot[fd]] = fd
    BY DEF InSlots
  <1>2. slot \in Injection(InSlots, HttpSlots)
    BY <1>1 DEF Injection, IsInjective
  <1>3. IsFiniteSet(HttpSlots) /\ Cardinality(HttpSlots) = MaxHttpClients
    BY HttpAssumption, FS_Interval DEF HttpSlots
  <1> HIDE DEF slot
  <1> QED BY <1>2, <1>3, FS_Injection

\* The socket table never holds more connections than the HTTP thread has slots, and
\* one in its hands: nothing is left open by a refusal, a failed hand-over or the
\* WebSocket thread.
THEOREM TableBounded == Spec => []OpenBounded
  <1>1. ASSUME WatchInv
        PROVE  OpenBounded
    <2> DEFINE Open == {fd \in Fds : IsOpen(fd)}
    <2>1. \A fd \in Fds : fd \in master_fds => fd \in InSlots
      BY <1>1, FdsPositive DEF WatchInv, WatchedHasSlot, InSlots
    <2>2. CASE hpc \in {"track", "busy", "busy_close"}
      <3>1. Open \subseteq InSlots \cup {hfd}
        BY <1>1, <2>1 DEF WatchInv, OpenIsWatched
      <3>2. /\ IsFiniteSet(InSlots \cup {hfd})
            /\ Cardinality(InSlots \cup {hfd}) <= MaxHttpClients + 1
        <4>1. IsFiniteSet(InSlots) /\ Cardinality(InSlots) \in Nat
          BY SlotsBound, FS_CardinalityType
        <4>2. /\ IsFiniteSet(InSlots \cup {hfd})
              /\ Cardinality(InSlots \cup {hfd}) <= Cardinality(InSlots) + 1
          BY <4>1, FS_AddElement
        <4>3. Cardinality(InSlots \cup {hfd}) \in Nat
          BY <4>2, FS_CardinalityType
        <4> QED BY <4>1, <4>2, <4>3, SlotsBound, HttpAssumption
      <3>3. Cardinality(Open) <= MaxHttpClients + 1
        BY <3>1, <3>2, FS_Subset, FS_CardinalityType, HttpAssumption
      <3> QED BY <2>2, <3>3 DEF OpenBounded
    <2>3. CASE hpc \notin {"track", "busy", "busy_close"}
      <3>1. Open \subseteq InSlots
        BY <1>1, <2>1, <2>3 DEF WatchInv, OpenIsWatched
      <3>2. Cardinality(Open) <= MaxHttpClients
        BY <3>1, SlotsBound, FS_Subset, FS_CardinalityType, HttpAssumption
      <3> QED BY <2>3, <3>2, HttpAssumption DEF OpenBounded
    <2> QED BY <2>2, <2>3
  <1> QED BY <1>1, WatchInvariant, PTL

----------------------------------------------------------------------------
(* The loop that does not block.                                           *)

\* While select() fails the HTTP thread does nothing else: every other step of it
\* starts elsewhere.
LEMMA HoggingHttp ==
  ASSUME HttpNext, Hogging
  PROVE  HttpSelectError
  <1>1. hpc = "select" /\ SelectFails
    BY DEF Hogging
  <1> QED
    BY <1>1 DEF HttpNext, HttpSelect, HttpScanDone, HttpAccept, HttpTrack, HttpBusy,
        HttpBusyClose, HttpRecv, HttpRecvData, HttpRecvEof, HttpRecvError, Scanning,
        HttpSwitch, HttpPut, HttpPutTimeout, HttpLedState, HttpLedPin, HttpLedReply,
        HttpLedFlag, HttpFile, HttpBody, HttpNotFound, HttpClose, Asked

\* Once a descriptor that select() is given has been closed, nothing ever takes it
\* out of the set or opens it again: http_server_thread() only goes round, and
\* neither websocket_thread() nor a client opens a descriptor.
THEOREM HoggingForEver == Spec => HoggingIsFinal
  <1>1. ASSUME TypeOK, [Next]_vars, Hogging
        PROVE  Hogging'
    <2>1. ASSUME UNCHANGED httpVars, listening' => listening,
                 \A g \in Fds : IsOpen(g)' => IsOpen(g)
          PROVE  Hogging'
      BY <1>1, <2>1 DEF httpVars, Hogging, SelectFails, TypeOK, HttpTypeOK
    <2>2. CASE HttpStep
      <3>1. HttpSelectError
        BY <1>1, <2>2, HoggingHttp DEF HttpStep
      <3> QED BY <2>1, <3>1, OpenUnchanged DEF HttpSelectError, lwipVars
    <2>3. CASE WsStep
      BY <1>1, <2>1, <2>3, WsOpensNone, WsListensNot DEF WsStep
    <2>4. CASE ClientStep
      BY <2>1, <2>4, ClientsOpenNone, OpenUnchanged DEF ClientStep
    <2>5. CASE ButtonStep \/ StartStep \/ UNCHANGED vars
      BY <2>1, <2>5, OpenUnchanged DEF ButtonStep, StartStep, vars, lwipVars
    <2> QED BY <1>1, <2>2, <2>3, <2>4, <2>5 DEF Next
  <1>2. TypeOK /\ [Next]_vars => (Hogging => Hogging')
    BY <1>1
  <1> QED BY <1>2, TypeCorrect, PTL DEF Spec, HoggingIsFinal

----------------------------------------------------------------------------
(* Who is answered.                                                        *)

\* The HTTP thread holds a request that it has still to answer.
Answering == hpc \in {"dispatch", "led_reply", "led_flag", "body", "notfound"}

\* What waits in a connection was sent by its client, an upgrade by one that asked
\* for it.
QueuedWasSent ==
    \A c \in Conns :
        /\ rxq[c] # <<>> => sent[c] # "none"
        /\ \A i \in 1..Len(rxq[c]) : rxq[c][i] = "ws" => sent[c] = "ws"
        /\ todo[c] \in {"on", "off", "tail"} => sent[c] # "none"

\* The descriptor in hand still names the connection whose request was read, or
\* nothing any more.
HeldWasSent ==
    Answering /\ IsOpen(hfd) =>
        /\ sent[ConnAt(hfd)] # "none"
        /\ hpc = "dispatch" /\ "ws" \in req => sent[ConnAt(hfd)] = "ws"

AskInv == AnswersWhoAsked /\ QueuedWasSent /\ HeldWasSent

\* write() reaches the connection behind the descriptor, if any, and no other.
LEMMA WriteReaches ==
  ASSUME LwipTypeOK, NEW fd, NEW kind, Write(fd, kind), NEW c \in Conns
  PROVE  /\ rcvd'[c] \subseteq rcvd[c] \cup {kind, "torn"}
         /\ rcvd'[c] # rcvd[c] => IsOpen(fd) /\ c = ConnAt(fd)
  <1>1. rcvd \in [Conns -> SUBSET Outputs]
    BY DEF LwipTypeOK
  <1>2. CASE WriteOutcome(fd) = "all"
    BY <1>1, <1>2 DEF Write, WriteOutcome
  <1>3. CASE WriteOutcome(fd) = "part"
    BY <1>1, <1>3 DEF Write, WriteOutcome
  <1>4. CASE WriteOutcome(fd) \notin {"all", "part"}
    BY <1>4 DEF Write
  <1> QED BY <1>2, <1>3, <1>4

\* Nothing is added to what waits in connection c.
Drained(c) ==
    /\ rxq'[c] # <<>> => rxq[c] # <<>>
    /\ \A i \in 1..Len(rxq'[c]) : \E k \in 1..Len(rxq[c]) : rxq'[c][i] = rxq[c][k]

\* recv() takes segments away from one connection.
LEMMA RecvDrains ==
  ASSUME LwipTypeOK, NEW c \in Conns, NEW n \in Takes(c) \cup {0}, Recv(c, n)
  PROVE  UNCHANGED <<rcvd, sock>> /\ \A d \in Conns : Drained(d)
  <1>1. n \in Nat /\ n <= Len(rxq[c]) /\ rxq[c] \in Seq(Segments)
    <2>1. rxq[c] \in Seq(Segments) /\ Len(rxq[c]) \in Nat
      BY DEF LwipTypeOK
    <2> QED BY <2>1, TakesType
  <1> DEFINE q == rxq[c]
             rest == SubSeq(q, n + 1, Len(q))
  <1>2. \A d \in Conns : rxq'[d] = IF d = c THEN rest ELSE rxq[d]
    BY DEF Recv, LwipTypeOK
  <1>3. Len(rest) = Len(q) - n /\ \A i \in 1..Len(rest) : rest[i] = q[i + n]
    BY <1>1
  <1>4. \A i \in 1..Len(rest) : i + n \in 1..Len(q)
    BY <1>1, <1>3
  <1>5. rest # <<>> => q # <<>>
    <2>1. rest \in Seq(Segments) /\ (rest # <<>> => Len(rest) > 0)
      BY <1>1
    <2> QED BY <1>1, <1>3, <2>1
  <1> HIDE DEF rest
  <1>6. Drained(c)
    BY <1>2, <1>3, <1>4, <1>5 DEF Drained
  <1>7. \A d \in Conns \ {c} : Drained(d)
    BY <1>2 DEF Drained
  <1> QED BY <1>6, <1>7 DEF Recv

\* What the WebSocket thread does to a connection: its own messages, recv() and
\* close().
WsReaches ==
    /\ \A c \in Conns :
          /\ rcvd'[c] \subseteq rcvd[c] \cup {"busy", "led", "button", "torn"}
          /\ Drained(c)
    /\ \A g \in Fds : sock'[g] = sock[g] \/ sock'[g] = NoConn

\* No step of the WebSocket thread does more.
LEMMA WsEffects ==
  ASSUME TypeOK, WsNext
  PROVE  WsReaches
  <1> USE DEF WsReaches
  <1>0. UNCHANGED rxq => \A c \in Conns : Drained(c)
    BY DEF Drained
  <1>1. ASSUME UNCHANGED <<rcvd, rxq, sock>>
        PROVE  WsReaches
    BY <1>0, <1>1
  <1>2. ASSUME NEW fd, NEW kind \in {"busy", "led", "button"}, Write(fd, kind)
        PROVE  WsReaches
    BY <1>0, <1>2, WriteReaches DEF TypeOK, Write
  <1>3. ASSUME NEW fd, Close(fd)
        PROVE  WsReaches
    BY <1>0, <1>3 DEF Close, TypeOK, LwipTypeOK
  <1>4. ASSUME NEW c \in Conns, NEW n \in Takes(c), Recv(c, n)
        PROVE  WsReaches
    BY <1>4, RecvDrains DEF TypeOK
  <1>5. CASE WsGet \/ WsGetNothing \/ WsAdmit \/ WsInitRead \/ WsReject \/ WsRejectClose
    BY <1>1, <1>2, <1>3, <1>5 DEF WsGet, WsGetNothing, WsAdmit, SetNonblock, WsInitRead,
       WsReject, WsRejectClose, lwipVars
  <1>6. CASE WsFlag \/ WsFlagTimeout \/ WsLedRead
    BY <1>1, <1>6 DEF WsFlag, WsFlagTimeout, WsLedRead, lwipVars
  <1>7. CASE WsBcastWrite
    <2>1. PICK i \in WsSlots : Write(clients_sock[i], IF IsLed(bmsg) THEN "led" ELSE "button")
      BY <1>7 DEF WsBcastWrite
    <2> QED BY <1>2, <2>1
  <1>8. CASE WsBcastClose \/ WsBcastPast \/ WsPastClose \/ WsBcastDone
    BY <1>1, <1>2, <1>3, <1>8 DEF WsBcastClose, WsBcastPast, WsPastClose, CloseListener,
       WsBcastDone, lwipVars
  <1>9. CASE WsRecv \/ WsRecvWake
    <2>1. \A fd : ConnAt(fd) # NoConn => ConnAt(fd) \in Conns
      BY ConnAtType DEF TypeOK
    <2>2. wpc = "recv_blocked" => wconn \in Conns
      BY DEF TypeOK, WsTypeOK
    <2> QED BY <1>4, <1>9, <2>1, <2>2 DEF WsRecv, WsRecvWake
  <1>10. CASE WsRecvStale \/ WsRecvBlock \/ WsRecvGone \/ WsRecvClose \/ WsLoop
    BY <1>1, <1>3, <1>10 DEF WsRecvStale, WsRecvBlock, WsRecvGone, WsRecvClose, WsLoop,
       lwipVars
  <1> QED BY <1>5, <1>6, <1>7, <1>8, <1>9, <1>10 DEF WsNext

\* A client's request is remembered as sent for good, and only an upgraded client
\* sends after its request.
LEMMA ClientAsks ==
  ASSUME TypeOK, AskInv, ClientNext
  PROVE  /\ QueuedWasSent'
         /\ UNCHANGED <<rcvd, sock>>
         /\ \A c \in Conns : sent[c] # "none" => sent'[c] = sent[c]
  <1> USE DEF AskInv, QueuedWasSent
  <1>1. /\ rxq \in [Conns -> Seq(Segments)]
        /\ sent \in [Conns -> {"none", "get", "state", "post", "ws"}]
        /\ todo \in [Conns -> {"none", "on", "off", "frame", "tail"}]
    BY DEF TypeOK, LwipTypeOK, ClientsTypeOK
  <1>2. ASSUME UNCHANGED <<rxq, sent, todo, rcvd, sock>>
        PROVE  /\ QueuedWasSent'
               /\ UNCHANGED <<rcvd, sock>>
               /\ \A c \in Conns : sent[c] # "none" => sent'[c] = sent[c]
    BY <1>2
  <1>3. ASSUME NEW c \in Conns, NEW a \in Seq(Segments),
               NEW r \in {"get", "state", "post", "ws"},
               NEW t \in {"none", "on", "off", "frame", "tail"},
               rxq' = [rxq EXCEPT ![c] = rxq[c] \o a],
               sent' = [sent EXCEPT ![c] = r], todo' = [todo EXCEPT ![c] = t],
               \A k \in 1..Len(a) : a[k] = "ws" => r = "ws",
               sent[c] = "none" \/ sent[c] = r,
               UNCHANGED <<rcvd, sock>>
        PROVE  /\ QueuedWasSent'
               /\ UNCHANGED <<rcvd, sock>>
               /\ \A d \in Conns : sent[d] # "none" => sent'[d] = sent[d]
    <2>1. \A d \in Conns \ {c} : rxq'[d] = rxq[d] /\ sent'[d] = sent[d] /\ todo'[d] = todo[d]
      BY <1>1, <1>3
    <2>2. rxq'[c] = rxq[c] \o a /\ sent'[c] = r
      BY <1>1, <1>3
    <2>3. rxq[c] \in Seq(Segments) /\ Len(rxq[c]) \in Nat /\ Len(a) \in Nat
      BY <1>1
    <2>4. ASSUME NEW i \in 1..Len(rxq'[c]), rxq'[c][i] = "ws"
          PROVE  r = "ws"
      <3>1. /\ Len(rxq'[c]) = Len(rxq[c]) + Len(a)
            /\ rxq'[c][i] = IF i <= Len(rxq[c]) THEN rxq[c][i] ELSE a[i - Len(rxq[c])]
        BY <2>2, <2>3
      <3>2. CASE i <= Len(rxq[c])
        <4>1. i \in 1..Len(rxq[c]) /\ rxq[c][i] = "ws"
          BY <2>3, <2>4, <3>1, <3>2
        <4>2. sent[c] = "ws"
          BY <4>1
        <4> QED BY <4>2, <1>3
      <3>3. CASE ~(i <= Len(rxq[c]))
        <4>1. i - Len(rxq[c]) \in 1..Len(a) /\ a[i - Len(rxq[c])] = "ws"
          BY <2>3, <2>4, <3>1, <3>3
        <4> QED BY <4>1, <1>3
      <3> QED BY <3>2, <3>3
    <2> QED BY <1>3, <2>1, <2>2, <2>4
  <1>4. PICK c \in Conns :
          \/ ClientConnect(c)
          \/ \E r \in Pages : ClientRequest(c, r)
          \/ \E body \in {"on", "off"} : ClientPost(c, body) \/ ClientPostHeaders(c, body)
          \/ ClientPostBody(c)
          \/ \E f \in {"text", "close"} : ClientFrame(c, f)
          \/ ClientFrameHead(c) \/ ClientFrameRest(c)
          \/ ClientClose(c) \/ ClientReset(c)
          \/ \E w \in Rooms : ClientWindow(c, w)
    BY DEF ClientNext
  <1>5. CASE ClientConnect(c) \/ ClientClose(c) \/ ClientReset(c)
             \/ \E w \in Rooms : ClientWindow(c, w)
    BY <1>2, <1>5 DEF ClientConnect, ClientClose, ClientReset, ClientWindow, clientVars,
       TcpConnect, TcpFin, TcpRst, TcpWindow
  <1>6. CASE \E r \in Pages : ClientRequest(c, r)
    <2>1. PICK r \in Pages : ClientRequest(c, r)
      BY <1>6
    <2>2. r \in {"get", "state", "ws"} /\ r \in Segments /\ "tail" \in Segments
      BY <2>1 DEF Pages, Segments
    <2>3. todo' = [todo EXCEPT ![c] = IF r = "ws" THEN "frame" ELSE todo[c]]
      BY <2>1 DEF ClientRequest
    <2>4. PICK a \in {<<r>>, <<r, "tail">>} :
            /\ rxq' = [rxq EXCEPT ![c] = rxq[c] \o a]
            /\ sent' = [sent EXCEPT ![c] = r]
            /\ sent[c] = "none"
            /\ UNCHANGED <<rcvd, sock>>
      BY <2>1 DEF ClientRequest, TcpDeliver
    <2>5. (IF r = "ws" THEN "frame" ELSE todo[c]) \in {"none", "on", "off", "frame", "tail"}
      BY <1>1
    <2>6. a \in Seq(Segments) /\ \A k \in 1..Len(a) : a[k] = "ws" => r = "ws"
      <3>1. CASE a = <<r>>
        BY <2>2, <3>1
      <3>2. CASE a = <<r, "tail">>
        BY <2>2, <3>2
      <3> QED BY <3>1, <3>2
    <2> QED BY <1>3, <2>2, <2>3, <2>4, <2>5, <2>6
  <1>7. CASE \E body \in {"on", "off"} : ClientPost(c, body) \/ ClientPostHeaders(c, body)
    <2>1. PICK body \in {"on", "off"} : ClientPost(c, body) \/ ClientPostHeaders(c, body)
      BY <1>7
    <2>2. /\ <<"post">> \in Seq(Segments) /\ <<"post", body>> \in Seq(Segments)
          /\ \A k \in 1..Len(<<"post">>) : <<"post">>[k] # "ws"
          /\ \A k \in 1..Len(<<"post", body>>) : <<"post", body>>[k] # "ws"
      BY DEF Segments
    <2>3. PICK a \in {<<"post">>, <<"post", body>>}, t \in {body, todo[c]} :
            /\ rxq' = [rxq EXCEPT ![c] = rxq[c] \o a]
            /\ sent' = [sent EXCEPT ![c] = "post"]
            /\ todo' = [todo EXCEPT ![c] = t]
            /\ sent[c] = "none"
            /\ UNCHANGED <<rcvd, sock>>
      <3>1. todo = [todo EXCEPT ![c] = todo[c]]
        BY <1>1
      <3> QED BY <2>1, <3>1 DEF ClientPost, ClientPostHeaders, TcpDeliver
    <2>4. t \in {"none", "on", "off", "frame", "tail"}
      BY <1>1
    <2> QED BY <1>3, <2>2, <2>3, <2>4
  <1>8. CASE ClientPostBody(c) \/ ClientFrameRest(c)
    <2>1. todo[c] \in Segments /\ todo[c] # "ws" /\ sent[c] # "none"
      BY <1>8 DEF Segments, ClientPostBody, ClientFrameRest
    <2>2. sent' = [sent EXCEPT ![c] = sent[c]] /\ sent[c] \in {"get", "state", "post", "ws"}
      BY <1>1, <1>8, <2>1 DEF ClientPostBody, ClientFrameRest
    <2>3. /\ rxq' = [rxq EXCEPT ![c] = rxq[c] \o <<todo[c]>>]
          /\ todo' = [todo EXCEPT ![c] = "none"]
          /\ UNCHANGED <<rcvd, sock>>
      BY <1>8 DEF ClientPostBody, ClientFrameRest, TcpDeliver
    <2>4. <<todo[c]>> \in Seq(Segments) /\ \A k \in 1..Len(<<todo[c]>>) : <<todo[c]>>[k] # "ws"
      BY <2>1
    <2> QED BY <1>3, <2>2, <2>3, <2>4
  <1>9. CASE \/ \E f \in {"text", "close"} : ClientFrame(c, f)
             \/ ClientFrameHead(c)
    <2>1. PICK f \in {"text", "close", "head"}, t \in {"none", "tail"} :
            /\ rxq' = [rxq EXCEPT ![c] = rxq[c] \o <<f>>]
            /\ todo' = [todo EXCEPT ![c] = t]
            /\ "switch" \in rcvd[c]
            /\ UNCHANGED <<sent, rcvd, sock>>
      BY <1>9 DEF ClientFrame, ClientFrameHead, TcpDeliver
    <2>2. <<f>> \in Seq(Segments) /\ \A k \in 1..Len(<<f>>) : <<f>>[k] # "ws"
      BY DEF Segments
    <2>3. sent[c] = "ws"
      BY <2>1 DEF AnswersWhoAsked
    <2>4. sent' = [sent EXCEPT ![c] = "ws"]
      BY <1>1, <2>1, <2>3
    <2> QED BY <1>3, <2>1, <2>2, <2>3, <2>4
  <1> QED BY <1>4, <1>5, <1>6, <1>7, <1>8, <1>9

\* A queue that a read has shortened holds no request that was not sent.
LEMMA DrainedKeepsQueue ==
  ASSUME QueuedWasSent, UNCHANGED clientVars, \A c \in Conns : Drained(c)
  PROVE  QueuedWasSent'
  <1>1. sent' = sent /\ todo' = todo
    BY DEF clientVars
  <1> SUFFICES ASSUME NEW c \in Conns
               PROVE  /\ rxq'[c] # <<>> => sent[c] # "none"
                      /\ \A i \in 1..Len(rxq'[c]) : rxq'[c][i] = "ws" => sent[c] = "ws"
                      /\ todo[c] \in {"on", "off", "tail"} => sent[c] # "none"
    BY <1>1 DEF QueuedWasSent
  <1>2. /\ rxq'[c] # <<>> => rxq[c] # <<>>
        /\ \A i \in 1..Len(rxq'[c]) : \E k \in 1..Len(rxq[c]) : rxq'[c][i] = rxq[c][k]
    BY DEF Drained
  <1>3. /\ rxq[c] # <<>> => sent[c] # "none"
        /\ \A k \in 1..Len(rxq[c]) : rxq[c][k] = "ws" => sent[c] = "ws"
        /\ todo[c] \in {"on", "off", "tail"} => sent[c] # "none"
    BY DEF QueuedWasSent
  <1>4. ASSUME NEW i \in 1..Len(rxq'[c]), rxq'[c][i] = "ws"
        PROVE  sent[c] = "ws"
    <2>1. PICK k \in 1..Len(rxq[c]) : rxq'[c][i] = rxq[c][k]
      BY <1>2
    <2> QED BY <1>3, <1>4, <2>1
  <1> QED BY <1>2, <1>3, <1>4

\* Steps that answer nobody and leave no request to answer.
LEMMA AskQuiet ==
  ASSUME TypeOK, AskInv, UNCHANGED clientVars, ~Answering',
         \A c \in Conns :
            /\ rcvd'[c] \subseteq rcvd[c] \cup {"busy", "led", "button", "torn"}
            /\ Drained(c)
  PROVE  AskInv'
  <1>1. AnswersWhoAsked'
    BY DEF AskInv, AnswersWhoAsked, clientVars
  <1>2. QueuedWasSent'
    BY DrainedKeepsQueue DEF AskInv
  <1> QED BY <1>1, <1>2 DEF AskInv, HeldWasSent

\* Steps that answer go to the client whose request is in hand.
LEMMA AskAnswer ==
  ASSUME TypeOK, AskInv, UNCHANGED clientVars, UNCHANGED hfd,
         Answering, hpc' # "dispatch",
         NEW kind \in {"switch", "reply", "notfound"}, Write(hfd, kind),
         kind = "switch" => hpc = "dispatch" /\ "ws" \in req
  PROVE  AskInv'
  <1>1. UNCHANGED <<sock, rxq, sent, todo>>
    BY DEF Write, clientVars
  <1>2. AnswersWhoAsked'
    <2> SUFFICES ASSUME NEW c \in Conns
                 PROVE  /\ rcvd'[c] \cap {"reply", "notfound"} # {} => sent'[c] # "none"
                        /\ "switch" \in rcvd'[c] => sent'[c] = "ws"
      BY DEF AnswersWhoAsked
    <2>1. CASE rcvd'[c] = rcvd[c]
      BY <1>1, <2>1 DEF AskInv, AnswersWhoAsked
    <2>2. CASE rcvd'[c] # rcvd[c]
      <3>1. IsOpen(hfd) /\ c = ConnAt(hfd) /\ rcvd'[c] \subseteq rcvd[c] \cup {kind, "torn"}
        BY <2>2, WriteReaches DEF TypeOK
      <3>2. sent[c] # "none" /\ (kind = "switch" => sent[c] = "ws")
        BY <3>1 DEF AskInv, HeldWasSent
      <3> QED BY <1>1, <3>1, <3>2 DEF AskInv, AnswersWhoAsked
    <2> QED BY <2>1, <2>2
  <1>3. IsOpen(hfd)' = IsOpen(hfd) /\ ConnAt(hfd)' = ConnAt(hfd)
    BY <1>1 DEF IsOpen, ConnAt
  <1> QED BY <1>1, <1>2, <1>3 DEF AskInv, QueuedWasSent, HeldWasSent

\* The HTTP thread answers the connection it has read from.
LEMMA AskHttp ==
  ASSUME TypeOK, AskInv, HttpNext, UNCHANGED clientVars
  PROVE  AskInv'
  <1>1. ASSUME UNCHANGED <<rcvd, rxq>>, ~Answering'
        PROVE  AskInv'
    BY <1>1, AskQuiet DEF Drained
  <1>2. CASE HttpSelect \/ HttpSelectError \/ HttpScanDone
    BY <1>1, <1>2 DEF HttpSelect, HttpSelectError, SelectFails, HttpScanDone, Goto,
       Answering, lwipVars, httpVars
  <1>3. CASE HttpAccept
    <2>1. ~Answering' /\ UNCHANGED <<rcvd, rxq>>
      BY <1>3 DEF HttpAccept, Scanning, Accept, AcceptFails, Answering, lwipVars
    <2> QED BY <1>1, <2>1
  <1>4. CASE HttpTrack \/ HttpPut \/ HttpPutTimeout
    BY <1>1, <1>4 DEF HttpTrack, SetNonblock, HttpPut, HttpPutTimeout, Goto, Answering,
       lwipVars
  <1>5. CASE HttpBusy
    <2>1. ~Answering' /\ Write(hfd, "busy") /\ UNCHANGED rxq
      BY <1>5 DEF HttpBusy, Goto, Answering, Write
    <2>2. \A c \in Conns : rcvd'[c] \subseteq rcvd[c] \cup {"busy", "torn"}
      BY <2>1, WriteReaches DEF TypeOK
    <2> QED BY <2>1, <2>2, AskQuiet DEF Drained
  <1>6. CASE HttpBusyClose \/ HttpClose
    BY <1>1, <1>6 DEF HttpBusyClose, HttpClose, Close, Answering
  <1>7. CASE HttpRecv
    <2>1. PICK fd \in Fds : HttpRecvData(fd) \/ HttpRecvEof(fd) \/ HttpRecvError(fd)
      BY <1>7 DEF HttpRecv
    <2>2. CASE HttpRecvError(fd)
      BY <1>1, <2>2 DEF HttpRecvError, Scanning, Answering, lwipVars
    <2>3. ASSUME NEW n \in Takes(ConnAt(fd)) \cup {0}, IsOpen(fd), Recv(ConnAt(fd), n)
          PROVE  UNCHANGED <<rcvd, sock>> /\ \A c \in Conns : Drained(c)
      <3>1. ConnAt(fd) \in Conns
        BY <2>3, ConnAtType DEF TypeOK
      <3> QED BY <2>3, <3>1, RecvDrains DEF TypeOK
    <2>4. CASE HttpRecvEof(fd)
      BY <2>3, <2>4, AskQuiet DEF HttpRecvEof, Answering
    <2>5. CASE HttpRecvData(fd)
      <3> DEFINE c == ConnAt(fd)
      <3>1. PICK n \in Takes(c) :
              /\ IsOpen(fd) /\ Recv(c, n) /\ rxq[c] # <<>>
              /\ hfd' = fd /\ hpc' = "dispatch" /\ req' = {rxq[c][k] : k \in 1..n}
        BY <2>5 DEF HttpRecvData, RecvOutcome
      <3>2. c \in Conns
        BY <3>1, ConnAtType DEF TypeOK
      <3>3. sent[c] # "none" /\ ("ws" \in req' => sent[c] = "ws")
        <4>1. sent[c] # "none" /\ \A k \in 1..Len(rxq[c]) : rxq[c][k] = "ws" => sent[c] = "ws"
          BY <3>1, <3>2 DEF AskInv, QueuedWasSent
        <4>2. n \in Nat /\ n <= Len(rxq[c]) /\ Len(rxq[c]) \in Nat
          BY <3>1, <3>2, TakesType DEF TypeOK, LwipTypeOK
        <4>3. \A k \in 1..n : k \in 1..Len(rxq[c])
          BY <4>2
        <4> QED BY <3>1, <4>1, <4>3
      <3>4. UNCHANGED <<rcvd, sock>> /\ \A d \in Conns : Drained(d)
        BY <2>3, <3>1
      <3>5. ConnAt(hfd)' = c
        BY <3>1, <3>4 DEF ConnAt
      <3>6. HeldWasSent'
        BY <3>1, <3>3, <3>5 DEF HeldWasSent, clientVars
      <3>7. QueuedWasSent'
        BY <3>4, DrainedKeepsQueue DEF AskInv
      <3>8. AnswersWhoAsked'
        BY <3>4 DEF AskInv, AnswersWhoAsked, clientVars
      <3> QED BY <3>6, <3>7, <3>8 DEF AskInv
    <2> QED BY <2>1, <2>2, <2>4, <2>5
  <1>8. CASE HttpSwitch
    BY <1>8, AskAnswer DEF HttpSwitch, Asked, Goto, Answering
  <1>9. CASE HttpLedState
    BY <1>9, AskAnswer DEF HttpLedState, Asked, Goto, Answering
  <1>10. CASE HttpLedReply \/ (HttpFile /\ ~UNCHANGED lwipVars) \/ HttpNotFound
    BY <1>10, AskAnswer DEF HttpLedReply, HttpFile, HttpNotFound, Goto, Answering
  <1>11. CASE HttpBody
    <2>1. WriteOutcome(hfd) \in {"all", "part", "error"}
      BY <1>11 DEF HttpBody, WriteOutcome
    <2>2. hpc' \in {"close", "body", "notfound"}
      BY <1>11, <2>1 DEF HttpBody, Goto
    <2> QED BY <1>11, <2>2, AskAnswer DEF HttpBody, Goto, Answering
  <1>12. CASE HttpLedPin \/ HttpLedFlag \/ (HttpFile /\ UNCHANGED lwipVars)
    <2>1. /\ UNCHANGED <<hfd, rcvd, rxq, sock>>
          /\ hpc' # "dispatch" /\ (Answering' => Answering)
      BY <1>12 DEF HttpLedPin, HttpLedFlag, HttpFile, Asked, Goto, Answering, lwipVars
    <2>2. IsOpen(hfd)' = IsOpen(hfd) /\ ConnAt(hfd)' = ConnAt(hfd)
      BY <2>1 DEF IsOpen, ConnAt
    <2> QED BY <2>1, <2>2 DEF AskInv, AnswersWhoAsked, QueuedWasSent, HeldWasSent, clientVars
  <1> QED BY <1>2, <1>3, <1>4, <1>5, <1>6, <1>7, <1>8, <1>9, <1>10, <1>11, <1>12 DEF HttpNext

\* Every step of the system keeps the invariant.
LEMMA AskStep ==
  ASSUME TypeOK, AskInv, [Next]_vars
  PROVE  AskInv'
  <1>1. CASE HttpStep
    BY <1>1, AskHttp DEF HttpStep
  <1>2. CASE WsStep
    <2>1. WsReaches /\ UNCHANGED <<clientVars, httpVars>>
      BY <1>2, WsEffects DEF WsStep
    <2>2. AnswersWhoAsked'
      BY <2>1 DEF WsReaches, AskInv, AnswersWhoAsked, clientVars
    <2>3. QueuedWasSent'
      BY <2>1, DrainedKeepsQueue DEF WsReaches, AskInv
    <2>4. IsOpen(hfd)' => IsOpen(hfd) /\ ConnAt(hfd)' = ConnAt(hfd)
      BY <2>1 DEF WsReaches, IsOpen, ConnAt, httpVars
    <2>5. HeldWasSent'
      BY <2>1, <2>4 DEF AskInv, HeldWasSent, Answering, clientVars, httpVars
    <2> QED BY <2>2, <2>3, <2>5 DEF AskInv
  <1>3. CASE ClientStep
    <2>1. /\ QueuedWasSent' /\ UNCHANGED <<rcvd, sock, httpVars>>
          /\ \A c \in Conns : sent[c] # "none" => sent'[c] = sent[c]
      BY <1>3, ClientAsks DEF ClientStep
    <2>2. AnswersWhoAsked'
      BY <2>1 DEF AskInv, AnswersWhoAsked
    <2>3. IsOpen(hfd)' = IsOpen(hfd) /\ ConnAt(hfd)' = ConnAt(hfd)
      BY <2>1 DEF IsOpen, ConnAt, httpVars
    <2>4. IsOpen(hfd) => ConnAt(hfd) \in Conns
      BY ConnAtType DEF TypeOK
    <2>5. HeldWasSent'
      BY <2>1, <2>3, <2>4 DEF AskInv, HeldWasSent, Answering, httpVars
    <2> QED BY <2>1, <2>2, <2>5 DEF AskInv
  <1>4. CASE ButtonStep \/ StartStep \/ UNCHANGED vars
    <2>1. UNCHANGED <<lwipVars, httpVars, clientVars>>
      BY <1>4 DEF ButtonStep, StartStep, vars
    <2> QED BY <2>1 DEF lwipVars, httpVars, clientVars, AskInv, AnswersWhoAsked,
                      QueuedWasSent, HeldWasSent, Answering, IsOpen, ConnAt
  <1> QED BY <1>1, <1>2, <1>3, <1>4 DEF Next

\* Nobody is answered what it did not ask, although the descriptor in hand may be
\* closed under the HTTP thread: the WebSocket thread closes but never accepts.
THEOREM OnlyWhoAskedIsAnswered == Spec => []AnswersWhoAsked
  <1>1. Init => AskInv
    BY DEF Init, LwipInit, ClientsInit, HttpInit, AskInv, AnswersWhoAsked, QueuedWasSent,
           HeldWasSent, Answering
  <1>2. TypeOK /\ AskInv /\ [Next]_vars => AskInv'
    BY AskStep
  <1>3. AskInv => AnswersWhoAsked
    BY DEF AskInv
  <1> QED BY <1>1, <1>2, <1>3, TypeCorrect, PTL DEF Spec

----------------------------------------------------------------------------
(* Who can block the WebSocket thread.                                     *)

\* A connection that is open and blocking is the one the HTTP thread has in hand.
BlockingIsNew ==
    \A fd \in Fds :
        IsOpen(fd) /\ ~nonblock[ConnAt(fd)] => hpc = "track" /\ hfd = fd

\* The WebSocket thread opens nothing and makes nothing blocking.
LEMMA WsUnblocks ==
  ASSUME TypeOK, WsNext
  PROVE  /\ \A g \in Fds : IsOpen(g)' => IsOpen(g) /\ UNCHANGED ConnAt(g)
         /\ \A c \in Conns : nonblock[c] => nonblock'[c]
  <1>1. \A g \in Fds : sock'[g] = sock[g] \/ sock'[g] = NoConn
    BY WsEffects DEF WsReaches
  <1>2. \A g \in Fds : IsOpen(g)' => IsOpen(g) /\ UNCHANGED ConnAt(g)
    BY <1>1 DEF IsOpen, ConnAt
  <1>3. UNCHANGED nonblock \/ SetNonblock(new_sock)
    BY DEF WsNext, WsGet, WsGetNothing, WsAdmit, WsInitRead, WsReject, Write, WsRejectClose,
           Close, CloseListener, WsFlag, WsFlagTimeout, WsLedRead, WsBcastWrite,
           WsBcastClose, WsBcastPast,
           WsPastClose, WsBcastDone, WsRecv, Recv, WsRecvStale, WsRecvBlock, WsRecvWake,
           WsRecvGone, WsRecvClose, WsLoop, lwipVars
  <1>4. SetNonblock(new_sock) => \A c \in Conns : nonblock[c] => nonblock'[c]
    BY DEF SetNonblock, TypeOK, LwipTypeOK
  <1> QED BY <1>2, <1>3, <1>4

\* The HTTP thread gets a blocking descriptor from accept() and goes straight to
\* fcntl().
LEMMA HttpUnblocks ==
  ASSUME TypeOK, BlockingIsNew, HttpNext
  PROVE  BlockingIsNew'
  <1> USE DEF BlockingIsNew
  <1>0. sock \in [Fds -> Conns \cup {NoConn}] /\ nonblock \in [Conns -> BOOLEAN]
    BY DEF TypeOK, LwipTypeOK
  <1>1. CASE HttpAccept
    <2>1. hpc = "scan" /\ UNCHANGED nonblock
      BY <1>1 DEF HttpAccept, Scanning, Accept, AcceptFails, lwipVars
    <2>2. CASE \E fd \in Fds : Accept(fd) /\ hfd' = fd /\ hpc' = "track"
      <3>1. PICK fd \in Fds : Accept(fd) /\ hfd' = fd /\ hpc' = "track"
        BY <2>2
      <3>2. \A g \in Fds : g # fd => UNCHANGED ConnAt(g)
        BY <1>0, <3>1 DEF Accept, ConnAt
      <3> QED BY <2>1, <3>1, <3>2 DEF IsOpen
    <2>3. CASE AcceptFails \/ UNCHANGED lwipVars
      BY <2>1, <2>3 DEF AcceptFails, lwipVars, IsOpen, ConnAt
    <2> QED BY <1>1, <2>2, <2>3 DEF HttpAccept
  <1>2. CASE HttpTrack
    <2>1. hpc = "track" /\ UNCHANGED sock /\ SetNonblock(hfd)
      BY <1>2 DEF HttpTrack, SetNonblock
    <2>2. ASSUME NEW fd \in Fds, IsOpen(fd)
          PROVE  nonblock'[ConnAt(fd)]
      <3>1. ConnAt(fd) \in Conns
        BY <1>0, <2>2 DEF IsOpen, ConnAt
      <3>2. nonblock[ConnAt(fd)] \/ fd = hfd
        BY <2>2
      <3> QED BY <1>0, <2>1, <2>2, <3>1, <3>2 DEF SetNonblock
    <2> QED BY <2>1, <2>2 DEF IsOpen, ConnAt
  <1>3. ASSUME hpc # "track", UNCHANGED nonblock,
               \A g \in Fds : IsOpen(g)' => IsOpen(g) /\ UNCHANGED ConnAt(g)
        PROVE  BlockingIsNew'
    BY <1>3
  <1>4. CASE HttpSelect \/ HttpSelectError \/ HttpScanDone \/ HttpRecv \/ HttpPut
             \/ HttpPutTimeout \/ HttpLedPin \/ HttpLedFlag
    <2>1. hpc # "track" /\ UNCHANGED <<sock, nonblock>>
      BY <1>4 DEF HttpSelect, HttpSelectError, HttpScanDone, HttpRecv, HttpRecvData,
         HttpRecvEof, HttpRecvError, Scanning, Recv, HttpPut, HttpPutTimeout, HttpLedPin,
         HttpLedFlag, Asked, lwipVars
    <2> QED BY <1>3, <2>1 DEF IsOpen, ConnAt
  <1>5. CASE HttpBusy \/ HttpSwitch \/ HttpLedState \/ HttpLedReply \/ HttpFile
             \/ HttpBody \/ HttpNotFound
    <2>1. hpc # "track" /\ UNCHANGED <<sock, nonblock>>
      BY <1>5 DEF HttpBusy, HttpSwitch, HttpLedState, HttpLedReply, HttpFile, HttpBody,
         HttpNotFound, Asked, Write, lwipVars
    <2> QED BY <1>3, <2>1 DEF IsOpen, ConnAt
  <1>6. CASE HttpBusyClose \/ HttpClose
    <2>1. hpc # "track" /\ Close(hfd)
      BY <1>6 DEF HttpBusyClose, HttpClose
    <2> QED BY <1>0, <1>3, <2>1 DEF Close, IsOpen, ConnAt
  <1> QED BY <1>1, <1>2, <1>4, <1>5, <1>6 DEF HttpNext

\* No step of the system leaves a descriptor blocking behind.
LEMMA BlockingStep ==
  ASSUME TypeOK, BlockingIsNew, [Next]_vars
  PROVE  BlockingIsNew'
  <1>1. CASE HttpStep
    BY <1>1, HttpUnblocks DEF HttpStep
  <1>2. CASE WsStep
    <2>1. \A g \in Fds : ConnAt(g) \in Conns \cup {NoConn}
      BY DEF ConnAt, TypeOK, LwipTypeOK
    <2> QED BY <1>2, <2>1, WsUnblocks DEF WsStep, BlockingIsNew, httpVars, IsOpen
  <1>3. ASSUME UNCHANGED <<sock, nonblock, hpc, hfd>>
        PROVE  BlockingIsNew'
    BY <1>3 DEF BlockingIsNew, IsOpen, ConnAt
  <1>4. CASE ClientStep
    <2>1. UNCHANGED nonblock
      BY <1>4 DEF ClientStep, ClientNext, ClientConnect, ClientRequest, ClientPost,
         ClientPostHeaders, ClientPostBody, ClientFrame, ClientFrameHead,
         ClientFrameRest, ClientClose, ClientReset,
         ClientWindow, TcpConnect, TcpDeliver, TcpFin, TcpRst, TcpWindow
    <2> QED BY <1>3, <1>4, <2>1, ClientsOpenNone DEF ClientStep, httpVars
  <1>5. CASE ButtonStep \/ StartStep \/ UNCHANGED vars
    BY <1>3, <1>5 DEF ButtonStep, StartStep, vars, lwipVars, httpVars
  <1> QED BY <1>1, <1>2, <1>4, <1>5 DEF Next

\* recv() of the WebSocket thread blocks in one case only: a slot of it went stale, and
\* its number was just given by accept() to a connection that the HTTP thread has not
\* made non-blocking yet.
THEOREM OnlyNewcomerBlocks == Spec => BlocksOnlyOnNewcomer
  <1> DEFINE Blocks == wpc # "recv_blocked" /\ wpc' = "recv_blocked" =>
                          hpc = "track" /\ wconn' = ConnAt(hfd)
  <1>1. TypeOK /\ BlockingIsNew /\ [Next]_vars => [Blocks]_vars
    <2> SUFFICES ASSUME TypeOK, BlockingIsNew, [Next]_vars,
                        wpc # "recv_blocked", wpc' = "recv_blocked"
                 PROVE  hpc = "track" /\ wconn' = ConnAt(hfd)
      OBVIOUS
    <2>1. WsNext
      BY DEF Next, HttpStep, WsStep, ClientStep, ButtonStep, StartStep, vars, wsVars
    <2>2. WsRecvBlock
      BY <2>1 DEF WsNext, WsGet, WsGetNothing, WsAdmit, WsInitRead, WsReject,
         WsRejectClose, WsFlag, WsFlagTimeout, WsLedRead, WsBcastWrite, WsBcastClose,
         WsBcastPast,
         WsPastClose, WsBcastDone, WsRecv, WsRecvStale, WsRecvWake, WsRecvGone,
         WsRecvClose, WsLoop, AfterRecv, LookAtButton, Broadcast
    <2>3. PICK i \in WsSlots :
            /\ ConnAt(clients_sock[i]) # NoConn
            /\ ~nonblock[ConnAt(clients_sock[i])]
            /\ wconn' = ConnAt(clients_sock[i])
      BY <2>2 DEF WsRecvBlock
    <2>4. clients_sock[i] \in Fds
      BY <2>3 DEF ConnAt
    <2> QED BY <2>3, <2>4 DEF BlockingIsNew, IsOpen
  <1>2. Init => BlockingIsNew
    BY DEF Init, LwipInit, BlockingIsNew, IsOpen, ConnAt
  <1>3. TypeOK /\ BlockingIsNew /\ [Next]_vars => BlockingIsNew'
    BY BlockingStep
  <1> QED BY <1>1, <1>2, <1>3, TypeCorrect, PTL DEF Spec, BlocksOnlyOnNewcomer

----------------------------------------------------------------------------
(* Where an upgraded client is.                                            *)

\* The socket table and the backlog agree with what was done to each connection: what
\* waits for accept() waits once and was told nothing, and an open connection has one
\* descriptor.
TableMatches ==
    /\ \A k \in 1..Len(acceptmbox) : srv[acceptmbox[k]] = "backlog"
    /\ \A j, k \in 1..Len(acceptmbox) : acceptmbox[j] = acceptmbox[k] => j = k
    /\ \A c \in Conns : srv[c] \in {"new", "backlog"} => rcvd[c] = {}
    /\ \A fd \in Fds : IsOpen(fd) => srv[ConnAt(fd)] = "open"
    /\ \A f, g \in Fds : IsOpen(f) /\ ConnAt(f) = ConnAt(g) => f = g

\* accept() moves the oldest connection of the backlog to a free entry, or drops it.
LEMMA AcceptMatches ==
  ASSUME LwipTypeOK, TableMatches, AcceptFails \/ \E fd \in Fds : Accept(fd)
  PROVE  TableMatches'
  <1>1. acceptmbox # <<>> /\ acceptmbox' = Tail(acceptmbox) /\ acceptmbox \in Seq(Conns)
    BY DEF Accept, AcceptFails, LwipTypeOK
  <1>2. PICK c \in Conns : c = Head(acceptmbox)
    BY <1>1
  <1>3. /\ Len(acceptmbox) \in Nat \ {0} /\ c = acceptmbox[1]
        /\ Len(acceptmbox') = Len(acceptmbox) - 1
        /\ \A k \in 1..Len(acceptmbox') : acceptmbox'[k] = acceptmbox[k + 1]
                                         /\ acceptmbox[k + 1] \in Conns
    BY <1>1, <1>2
  <1>4. /\ UNCHANGED rcvd
        /\ \/ srv' = [srv EXCEPT ![c] = "open"]
           \/ srv' = [srv EXCEPT ![c] = "closed"]
    BY <1>2 DEF Accept, AcceptFails
  <1>5. srv[c] = "backlog" /\ srv \in [Conns -> {"new", "backlog", "open", "closed"}]
    BY <1>3 DEF TableMatches, LwipTypeOK
  <1>6. \A k \in 1..Len(acceptmbox') : k + 1 \in 1..Len(acceptmbox) /\ k + 1 # 1
    BY <1>3
  <1>7. \A k \in 1..Len(acceptmbox') :
          /\ acceptmbox'[k] \in Conns \ {c}
          /\ srv[acceptmbox'[k]] = "backlog"
    BY <1>3, <1>6 DEF TableMatches
  <1>8. \A k \in 1..Len(acceptmbox') : srv'[acceptmbox'[k]] = "backlog"
    BY <1>4, <1>5, <1>7
  <1>9. \A j, k \in 1..Len(acceptmbox') : acceptmbox'[j] = acceptmbox'[k] => j = k
    <2> SUFFICES ASSUME NEW j \in 1..Len(acceptmbox'), NEW k \in 1..Len(acceptmbox'),
                        acceptmbox'[j] = acceptmbox'[k]
                 PROVE  j = k
      OBVIOUS
    <2>1. j + 1 = k + 1
      BY <1>3, <1>6 DEF TableMatches
    <2> QED BY <2>1
  <1>10. \A d \in Conns : srv'[d] \in {"new", "backlog"} => rcvd'[d] = {}
    BY <1>4, <1>5 DEF TableMatches
  <1>11. /\ \A fd \in Fds : IsOpen(fd)' => srv'[ConnAt(fd)'] = "open"
         /\ \A f, g \in Fds : IsOpen(f)' /\ ConnAt(f)' = ConnAt(g)' => f = g
    <2>0. \A g \in Fds : ConnAt(g) \in Conns \cup {NoConn}
      BY DEF ConnAt, LwipTypeOK
    <2>1. CASE AcceptFails
      <3>1. UNCHANGED sock
        BY <2>1 DEF AcceptFails
      <3>2. \A d \in Conns : srv[d] = "open" => srv'[d] = "open"
        BY <1>4, <1>5
      <3> QED BY <2>0, <3>1, <3>2 DEF TableMatches, IsOpen, ConnAt
    <2>2. ASSUME NEW fd \in Fds, Accept(fd)
          PROVE  <1>11!:
      <3>1. /\ sock' = [sock EXCEPT ![fd] = c]
            /\ srv' = [srv EXCEPT ![c] = "open"]
        BY <1>2, <2>2 DEF Accept
      <3>2. c # NoConn
        BY LwipAssumption
      <3>3. \A g \in Fds : ConnAt(g) # c
        BY <1>5, <3>2 DEF TableMatches, IsOpen
      <3>4. \A g \in Fds : ConnAt(g)' = IF g = fd THEN c ELSE ConnAt(g)
        BY <3>1 DEF ConnAt, LwipTypeOK
      <3>5. \A g \in Fds : IsOpen(g)' => srv'[ConnAt(g)'] = "open"
        BY <1>5, <2>0, <3>1, <3>4 DEF TableMatches, IsOpen
      <3>6. \A f, g \in Fds : IsOpen(f)' /\ ConnAt(f)' = ConnAt(g)' => f = g
        BY <3>3, <3>4 DEF TableMatches, IsOpen
      <3> QED BY <3>5, <3>6
    <2> QED BY <2>1, <2>2
  <1> QED BY <1>8, <1>9, <1>10, <1>11 DEF TableMatches

\* close() ends the connection behind the descriptor and empties its only entry.
LEMMA CloseMatches ==
  ASSUME LwipTypeOK, TableMatches, NEW fd, Close(fd)
  PROVE  TableMatches'
  <1> USE DEF LwipTypeOK, TableMatches
  <1>1. CASE ~IsOpen(fd)
    BY <1>1 DEF Close, IsOpen, ConnAt
  <1>2. CASE IsOpen(fd)
    <2>1. /\ fd \in Fds /\ ConnAt(fd) \in Conns
          /\ sock' = [sock EXCEPT ![fd] = NoConn]
          /\ srv' = [srv EXCEPT ![ConnAt(fd)] = "closed"]
          /\ UNCHANGED <<acceptmbox, rcvd>>
      BY <1>2 DEF Close, IsOpen, ConnAt
    <2>2. srv[ConnAt(fd)] = "open"
      BY <1>2, <2>1
    <2>3. /\ \A k \in 1..Len(acceptmbox') : srv'[acceptmbox'[k]] = "backlog"
          /\ \A j, k \in 1..Len(acceptmbox') : acceptmbox'[j] = acceptmbox'[k] => j = k
          /\ \A c \in Conns : srv'[c] \in {"new", "backlog"} => rcvd'[c] = {}
      BY <2>1, <2>2
    <2>4. \A g \in Fds : IsOpen(g)' => g # fd /\ IsOpen(g) /\ ConnAt(g)' = ConnAt(g)
      BY <2>1 DEF IsOpen, ConnAt
    <2>5. \A g \in Fds : IsOpen(g)' => ConnAt(g) \in Conns /\ ConnAt(g) # ConnAt(fd)
      BY <1>2, <2>1, <2>4 DEF IsOpen, ConnAt
    <2>6. \A g \in Fds : IsOpen(g)' => srv'[ConnAt(g)'] = "open"
      BY <2>1, <2>4, <2>5
    <2>7. \A f, g \in Fds : IsOpen(f)' /\ ConnAt(f)' = ConnAt(g)' => f = g
      BY <2>4 DEF IsOpen
    <2> QED BY <2>3, <2>6, <2>7
  <1> QED BY <1>1, <1>2

\* close() of the listening socket empties the backlog.
LEMMA CloseListenerMatches ==
  ASSUME LwipTypeOK, TableMatches, CloseListener
  PROVE  TableMatches'
  <1> USE DEF LwipTypeOK, TableMatches
  <1>1. /\ Len(acceptmbox') = 0
        /\ \A c \in Conns : srv'[c] = IF srv[c] = "backlog" THEN "closed" ELSE srv[c]
        /\ UNCHANGED <<sock, rcvd>>
    BY DEF CloseListener
  <1>2. \A fd \in Fds : IsOpen(fd)' => IsOpen(fd) /\ ConnAt(fd)' = ConnAt(fd)
                                       /\ ConnAt(fd) \in Conns
    BY <1>1 DEF IsOpen, ConnAt
  <1>3. \A fd \in Fds : IsOpen(fd)' => srv'[ConnAt(fd)'] = "open"
    BY <1>1, <1>2
  <1>4. \A f, g \in Fds : IsOpen(f)' /\ ConnAt(f)' = ConnAt(g)' => f = g
    BY <1>1, <1>2 DEF IsOpen, ConnAt
  <1>5. \A k : k \notin 1..Len(acceptmbox')
    <2>1. \A k : k \notin 1..0
      OBVIOUS
    <2> QED BY <1>1, <2>1
  <1>6. \A c \in Conns : srv'[c] \in {"new", "backlog"} => rcvd'[c] = {}
    BY <1>1
  <1> QED BY <1>3, <1>4, <1>5, <1>6

\* write() reaches open connections only.
LEMMA WriteMatches ==
  ASSUME LwipTypeOK, TableMatches, NEW fd, NEW kind, Write(fd, kind)
  PROVE  TableMatches'
  <1>1. UNCHANGED <<sock, srv, acceptmbox>>
    BY DEF Write
  <1>2. ASSUME NEW c \in Conns, srv'[c] \in {"new", "backlog"}
        PROVE  rcvd'[c] = {}
    <2>1. IsOpen(fd) => fd \in Fds
      BY DEF IsOpen, ConnAt
    <2>2. rcvd'[c] = rcvd[c]
      BY <1>1, <1>2, <2>1, WriteReaches DEF TableMatches
    <2> QED BY <1>1, <1>2, <2>2 DEF TableMatches
  <1> QED BY <1>1, <1>2 DEF TableMatches, IsOpen, ConnAt

\* A new connection enters the backlog at its end.
LEMMA ConnectMatches ==
  ASSUME LwipTypeOK, TableMatches, NEW c \in Conns, TcpConnect(c)
  PROVE  TableMatches'
  <1> USE DEF LwipTypeOK, TableMatches
  <1>1. /\ srv[c] = "new" /\ srv' = [srv EXCEPT ![c] = "backlog"]
        /\ acceptmbox' = Append(acceptmbox, c)
        /\ UNCHANGED <<sock, rcvd>>
    BY DEF TcpConnect
  <1>2. /\ Len(acceptmbox') = Len(acceptmbox) + 1
        /\ \A k \in 1..Len(acceptmbox) : acceptmbox'[k] = acceptmbox[k]
        /\ acceptmbox'[Len(acceptmbox) + 1] = c
    <2>1. acceptmbox \in Seq(Conns)
      OBVIOUS
    <2> QED BY ONLY <1>1, <2>1
  <1>3. /\ \A k \in 1..Len(acceptmbox') : srv'[acceptmbox'[k]] = "backlog"
        /\ \A j, k \in 1..Len(acceptmbox') : acceptmbox'[j] = acceptmbox'[k] => j = k
    BY <1>1, <1>2
  <1>4. \A d \in Conns : srv'[d] \in {"new", "backlog"} => rcvd'[d] = {}
    BY <1>1
  <1>5. /\ \A fd \in Fds : IsOpen(fd)' => srv'[ConnAt(fd)'] = "open"
        /\ \A f, g \in Fds : IsOpen(f)' /\ ConnAt(f)' = ConnAt(g)' => f = g
    BY <1>1 DEF IsOpen, ConnAt
  <1> QED BY <1>3, <1>4, <1>5

\* What the two threads and the clients do to the table: these calls, or nothing.
LEMMA StepMatches ==
  ASSUME TypeOK, TableMatches, [Next]_vars
  PROVE  TableMatches'
  <1>0. LwipTypeOK
    BY DEF TypeOK
  <1>1. ASSUME UNCHANGED <<sock, acceptmbox, srv, rcvd>>
        PROVE  TableMatches'
    BY <1>1 DEF TableMatches, IsOpen, ConnAt
  <1>2. CASE HttpStep
    <2>1. CASE HttpAccept
      BY <1>0, <1>1, <2>1, AcceptMatches DEF HttpAccept, lwipVars
    <2>2. CASE HttpTrack
      BY <1>1, <2>2 DEF HttpTrack, SetNonblock
    <2>3. CASE HttpBusy \/ HttpSwitch \/ HttpLedState \/ HttpLedReply \/ HttpFile
               \/ HttpBody \/ HttpNotFound
      BY <1>0, <1>1, <2>3, WriteMatches DEF HttpBusy, HttpSwitch, HttpLedState,
         HttpLedReply, HttpFile, HttpBody, HttpNotFound, lwipVars
    <2>4. CASE HttpBusyClose \/ HttpClose
      BY <1>0, <2>4, CloseMatches DEF HttpBusyClose, HttpClose
    <2>5. CASE HttpSelect \/ HttpSelectError \/ HttpScanDone \/ HttpRecv \/ HttpPut
               \/ HttpPutTimeout \/ HttpLedPin \/ HttpLedFlag
      BY <1>1, <2>5 DEF HttpSelect, HttpSelectError, HttpScanDone, HttpRecv,
         HttpRecvData, HttpRecvEof, HttpRecvError, Recv, HttpPut, HttpPutTimeout,
         HttpLedPin, HttpLedFlag, lwipVars
    <2> QED BY <1>2, <2>1, <2>2, <2>3, <2>4, <2>5 DEF HttpStep, HttpNext
  <1>3. CASE WsStep
    <2>1. CASE WsReject \/ WsBcastWrite
      BY <1>0, <2>1, WriteMatches DEF WsReject, WsBcastWrite
    <2>2. CASE WsRejectClose \/ WsBcastClose \/ WsPastClose \/ WsRecvClose
      BY <1>0, <2>2, CloseMatches, CloseListenerMatches
         DEF WsRejectClose, WsBcastClose, WsPastClose, WsRecvClose
    <2>3. CASE WsBcastPast
      BY <1>0, <1>1, <2>3, WriteMatches DEF WsBcastPast, lwipVars
    <2>4. CASE WsGet \/ WsGetNothing \/ WsAdmit \/ WsInitRead \/ WsFlag \/ WsFlagTimeout
               \/ WsLedRead
               \/ WsBcastDone \/ WsRecv \/ WsRecvStale \/ WsRecvBlock \/ WsRecvWake
               \/ WsRecvGone \/ WsLoop
      BY <1>1, <2>4 DEF WsGet, WsGetNothing, WsAdmit, SetNonblock, WsInitRead,
         WsFlag, WsFlagTimeout, WsLedRead, WsBcastDone, WsRecv, Recv, WsRecvStale,
         WsRecvBlock,
         WsRecvWake, WsRecvGone, WsLoop, lwipVars
    <2> QED BY <1>3, <2>1, <2>2, <2>3, <2>4 DEF WsStep, WsNext
  <1>4. CASE ClientStep
    <2>1. \/ \E c \in Conns : TcpConnect(c)
          \/ UNCHANGED <<sock, acceptmbox, srv, rcvd>>
      <3>1. PICK c \in Conns :
              \/ TcpConnect(c)
              \/ \E segments : TcpDeliver(c, segments)
              \/ TcpFin(c) \/ TcpRst(c) \/ \E w : TcpWindow(c, w)
        BY <1>4 DEF ClientStep, ClientNext, ClientConnect, ClientRequest, ClientPost,
           ClientPostHeaders, ClientPostBody, ClientFrame, ClientFrameHead,
           ClientFrameRest, ClientClose, ClientReset, ClientWindow
      <3> QED BY <3>1 DEF TcpDeliver, TcpFin, TcpRst, TcpWindow
    <2> QED BY <1>0, <1>1, <2>1, ConnectMatches
  <1>5. CASE ButtonStep \/ StartStep \/ UNCHANGED vars
    BY <1>1, <1>5 DEF ButtonStep, StartStep, vars, lwipVars
  <1> QED BY <1>2, <1>3, <1>4, <1>5 DEF Next

\* Before anything happens the table and the backlog are empty.
LEMMA InitMatches == Init => TableMatches
  BY DEF Init, LwipInit, TableMatches, IsOpen, ConnAt

\* A step that upgrades nobody - it opens no descriptor, names no other connection by
\* one, and writes no 101 - and that takes nobody's place away.
Upgraded(fd) == IsOpen(fd) /\ "switch" \in rcvd[ConnAt(fd)]

UpgradesNone == \A fd \in Fds : Upgraded(fd)' => Upgraded(fd)

Kept(fd) ==
    \/ hpc \in {"put", "close"} /\ hfd = fd
    \/ \E k \in 1..Len(ws_queue) : ws_queue[k] = fd
    \/ wpc \in {"reject", "reject_close"} /\ new_sock = fd
    \/ \E i \in WsSlots : clients_sock[i] = fd

\* The property in these terms, now and after a step.
LEMMA KeptIs ==
  ASSUME TypeOK, TypeOK'
  PROVE  /\ UpgradedIsKept <=> \A fd \in Fds : Upgraded(fd) => Kept(fd)
         /\ UpgradedIsKept' <=> \A fd \in Fds : Upgraded(fd)' => Kept(fd)'
  <1>1. DOMAIN ws_queue = 1..Len(ws_queue) /\ DOMAIN ws_queue' = 1..Len(ws_queue')
    BY DEF TypeOK
  <1> QED BY <1>1 DEF UpgradedIsKept, Upgraded, Kept

\* recv() and fcntl() upgrade nobody ...
LEMMA QuietUpgradesNone ==
  ASSUME UNCHANGED <<sock, rcvd>>
  PROVE  UpgradesNone
  BY DEF UpgradesNone, Upgraded, IsOpen, ConnAt

\* ... nor does a write of anything but the 101 ...
LEMMA WriteUpgradesNone ==
  ASSUME LwipTypeOK, NEW fd,
         NEW kind \in {"busy", "led", "button", "reply", "notfound"}, Write(fd, kind)
  PROVE  UpgradesNone
  <1>1. UNCHANGED sock
    BY DEF Write
  <1>2. \A c \in Conns : "switch" \in rcvd'[c] => "switch" \in rcvd[c]
    BY WriteReaches
  <1>3. \A g \in Fds : IsOpen(g) => ConnAt(g) \in Conns
    BY DEF LwipTypeOK, IsOpen, ConnAt
  <1> QED BY <1>1, <1>2, <1>3 DEF UpgradesNone, Upgraded, IsOpen, ConnAt

\* ... nor close(), which ends who was behind the descriptor.
LEMMA CloseUpgradesNone ==
  ASSUME LwipTypeOK, NEW fd, Close(fd)
  PROVE  UpgradesNone /\ \A g \in Fds : Upgraded(g)' => g # fd
  <1>1. \A g \in Fds : IsOpen(g)' => g # fd /\ IsOpen(g) /\ ConnAt(g)' = ConnAt(g)
    BY DEF Close, IsOpen, ConnAt, LwipTypeOK
  <1> QED BY <1>1 DEF Close, UpgradesNone, Upgraded

\* The WebSocket thread takes the head of the queue into a slot that was vacant or to
\* refuse it, and gives up a place only when it closed the descriptor.
LEMMA WsKeeps ==
  ASSUME TypeOK, TypeOK', UpgradedIsKept, WsStep
  PROVE  UpgradedIsKept'
  <1>0. LwipTypeOK /\ LwipTypeOK' /\ UNCHANGED <<hpc, hfd>> /\ WsNext
    BY DEF TypeOK, WsStep, httpVars
  <1>1. ASSUME UpgradesNone, \A fd \in Fds : Upgraded(fd)' /\ Kept(fd) => Kept(fd)'
        PROVE  UpgradedIsKept'
    BY <1>1, KeptIs DEF UpgradesNone
  <1>2. CASE WsGet
    <2>1. UpgradesNone
      BY <1>2, QuietUpgradesNone DEF WsGet, lwipVars
    <2>2. /\ Len(ws_queue) > 0 /\ new_sock' = ws_queue[1]
          /\ \A k \in 1..Len(ws_queue) :
                \/ k = 1
                \/ k - 1 \in 1..Len(ws_queue') /\ ws_queue'[k - 1] = ws_queue[k]
      <3>1. /\ ws_queue # <<>> /\ ws_queue' = Tail(ws_queue) /\ new_sock' = Head(ws_queue)
            /\ ws_queue \in Seq(Fds)
        BY <1>2 DEF WsGet, QueueGet, TypeOK
      <3>2. /\ Len(ws_queue) \in Nat \ {0} /\ Len(ws_queue') = Len(ws_queue) - 1
            /\ \A k \in 1..Len(ws_queue') : ws_queue'[k] = ws_queue[k + 1]
            /\ new_sock' = ws_queue[1]
        BY <3>1
      <3>3. ASSUME NEW k \in 1..Len(ws_queue), k # 1
            PROVE  k - 1 \in 1..Len(ws_queue') /\ ws_queue'[k - 1] = ws_queue[k]
        <4>1. k - 1 \in 1..Len(ws_queue') /\ (k - 1) + 1 = k
          BY <3>2, <3>3
        <4>2. ws_queue'[k - 1] = ws_queue[(k - 1) + 1]
          BY <3>2, <4>1
        <4> QED BY <4>1, <4>2
      <3>4. /\ Len(ws_queue) > 0
            /\ new_sock' = ws_queue[1]
        BY ONLY <3>2
      <3>5. \A k \in 1..Len(ws_queue) :
               \/ k = 1
               \/ k - 1 \in 1..Len(ws_queue') /\ ws_queue'[k - 1] = ws_queue[k]
        BY ONLY <3>3
      <3> QED BY ONLY <3>4, <3>5
    <2>3. /\ wpc = "get"
          /\ \/ /\ wpc' = "reject" /\ UNCHANGED clients_sock
             \/ \E i \in WsSlots : /\ clients_sock[i] = NoFd
                                   /\ clients_sock' = [clients_sock EXCEPT ![i] = new_sock']
      BY <1>2 DEF WsGet, Vacant
    <2>4. ASSUME NEW fd \in Fds, Kept(fd)
          PROVE  Kept(fd)'
      <3>1. clients_sock \in [WsSlots -> Fds \cup {NoFd}] /\ fd # NoFd
        BY FdsPositive DEF TypeOK, WsTypeOK
      <3>2. CASE \E i \in WsSlots : clients_sock[i] = fd
        BY <2>3, <3>1, <3>2 DEF Kept
      <3>3. CASE ws_queue[1] = fd
        BY <2>2, <2>3, <3>1, <3>3 DEF Kept
      <3>4. CASE \E k \in 1..Len(ws_queue) : k # 1 /\ ws_queue[k] = fd
        BY <2>2, <3>4 DEF Kept
      <3>5. CASE hpc \in {"put", "close"} /\ hfd = fd
        BY <1>0, <3>5 DEF Kept
      <3> QED BY <2>3, <2>4, <3>2, <3>3, <3>4, <3>5 DEF Kept
    <2> QED BY <1>1, <2>1, <2>4
  <1>3. ASSUME UNCHANGED <<ws_queue, clients_sock>>, wpc \notin {"reject", "reject_close"}
        PROVE  \A fd \in Fds : Kept(fd) => Kept(fd)'
    BY <1>0, <1>3 DEF Kept
  <1>4. CASE WsGetNothing \/ WsAdmit \/ WsInitRead \/ WsFlag \/ WsFlagTimeout
             \/ WsLedRead \/ WsBcastDone
             \/ WsRecv \/ WsRecvStale \/ WsRecvBlock \/ WsRecvWake \/ WsRecvGone \/ WsLoop
    <2>1. /\ UNCHANGED <<sock, rcvd, ws_queue, clients_sock>>
          /\ wpc \notin {"reject", "reject_close"}
      BY <1>4 DEF WsGetNothing, WsAdmit, SetNonblock, WsInitRead, WsFlag, FlagTake,
         WsFlagTimeout, WsLedRead, WsBcastDone, WsRecv, Recv, WsRecvStale,
         WsRecvBlock, WsRecvWake,
         WsRecvGone, WsLoop, lwipVars, boardVars
    <2> QED BY <1>1, <1>3, <2>1, QuietUpgradesNone
  <1>5. CASE WsReject
    <2>1. UpgradesNone
      BY <1>0, <1>5, WriteUpgradesNone DEF WsReject
    <2>2. /\ UNCHANGED <<ws_queue, clients_sock, new_sock>>
          /\ wpc' = "reject_close"
      BY <1>5 DEF WsReject, boardVars
    <2> QED BY <1>0, <1>1, <2>1, <2>2 DEF Kept
  <1>6. CASE WsRejectClose
    <2>1. UpgradesNone /\ \A g \in Fds : Upgraded(g)' => g # new_sock
      BY <1>0, <1>6, CloseUpgradesNone DEF WsRejectClose
    <2>2. UNCHANGED <<ws_queue, clients_sock>>
      BY <1>6 DEF WsRejectClose, boardVars
    <2> QED BY <1>0, <1>1, <2>1, <2>2 DEF Kept
  <1>7. CASE WsBcastWrite
    <2>1. PICK i \in WsSlots : Write(clients_sock[i], IF IsLed(bmsg) THEN "led" ELSE "button")
      BY <1>7 DEF WsBcastWrite
    <2>2. UNCHANGED <<ws_queue, clients_sock>> /\ wpc = "bcast"
      BY <1>7 DEF WsBcastWrite, boardVars
    <2>3. UpgradesNone
      BY <1>0, <2>1, WriteUpgradesNone
    <2> QED BY <1>1, <1>3, <2>2, <2>3
  <1>8. CASE WsBcastPast \/ WsPastClose
    <2>1. \/ UNCHANGED <<sock, rcvd>>
          \/ \E fd : Write(fd, "led")
          \/ \E fd : Close(fd)
      BY <1>8 DEF WsBcastPast, WsPastClose, CloseListener, lwipVars
    <2>2. UNCHANGED <<ws_queue, clients_sock>> /\ wpc \in {"bcast", "past_close"}
      BY <1>8 DEF WsBcastPast, WsPastClose, PastArray, boardVars
    <2>3. UpgradesNone
      <3>1. ASSUME NEW fd, Write(fd, "led")
            PROVE  UpgradesNone
        BY <1>0, <3>1, WriteUpgradesNone
      <3>2. ASSUME NEW fd, Close(fd)
            PROVE  UpgradesNone
        BY <1>0, <3>2, CloseUpgradesNone
      <3> QED BY <2>1, <3>1, <3>2, QuietUpgradesNone
    <2> QED BY <1>1, <1>3, <2>2, <2>3
  <1>9. CASE WsBcastClose \/ WsRecvClose
    <2>1. PICK i \in WsSlots : /\ Close(clients_sock[i])
                               /\ clients_sock' = [clients_sock EXCEPT ![i] = NoFd]
      BY <1>9 DEF WsBcastClose, WsRecvClose, TypeOK, WsTypeOK
    <2>2. UNCHANGED ws_queue /\ wpc \in {"bcast_close", "recv_close"}
      BY <1>9 DEF WsBcastClose, WsRecvClose, boardVars
    <2>3. UpgradesNone /\ \A g \in Fds : Upgraded(g)' => g # clients_sock[i]
      BY <1>0, <2>1, CloseUpgradesNone
    <2>4. ASSUME NEW fd \in Fds, Upgraded(fd)', Kept(fd)
          PROVE  Kept(fd)'
      <3>1. clients_sock[i] # fd
        BY <2>3, <2>4
      <3>2. \A j \in WsSlots : clients_sock[j] = fd => clients_sock'[j] = fd
        BY <2>1, <3>1 DEF TypeOK, WsTypeOK
      <3> QED BY <1>0, <2>2, <2>4, <3>2 DEF Kept
    <2> QED BY <1>1, <2>3, <2>4
  <1> QED BY <1>0, <1>2, <1>4, <1>5, <1>6, <1>7, <1>8, <1>9 DEF WsNext

\* The HTTP thread upgrades the descriptor in its hand, puts it into the queue or
\* closes it, and accepts connections nobody has written to.
LEMMA HttpKeeps ==
  ASSUME TypeOK, TypeOK', TableMatches, UpgradedIsKept, HttpStep
  PROVE  UpgradedIsKept'
  <1>0. LwipTypeOK /\ LwipTypeOK' /\ UNCHANGED <<wpc, new_sock, clients_sock>> /\ HttpNext
    BY DEF TypeOK, HttpStep, wsVars
  <1>1. ASSUME UpgradesNone, \A fd \in Fds : Upgraded(fd)' /\ Kept(fd) => Kept(fd)'
        PROVE  UpgradedIsKept'
    BY <1>1, KeptIs DEF UpgradesNone
  <1>2. ASSUME UNCHANGED ws_queue, hpc \notin {"put", "close"}
        PROVE  \A fd \in Fds : Kept(fd) => Kept(fd)'
    BY <1>0, <1>2 DEF Kept
  <1>3. CASE HttpAccept
    <2>1. UNCHANGED ws_queue /\ hpc = "scan" /\ UNCHANGED rcvd
      BY <1>3 DEF HttpAccept, Scanning, boardVars, Accept, AcceptFails, lwipVars
    <2>2. CASE AcceptFails \/ UNCHANGED lwipVars
      <3>1. UNCHANGED sock
        BY <2>2 DEF AcceptFails, lwipVars
      <3> QED BY <1>1, <1>2, <2>1, <3>1, QuietUpgradesNone
    <2>3. ASSUME NEW fd \in Fds, Accept(fd)
          PROVE  UpgradedIsKept'
      <3>1. PICK c \in Conns : c = Head(acceptmbox) /\ sock' = [sock EXCEPT ![fd] = c]
        <4>1. /\ acceptmbox # <<>> /\ acceptmbox \in Seq(Conns)
              /\ sock' = [sock EXCEPT ![fd] = Head(acceptmbox)]
          BY <2>3 DEF Accept, TypeOK, LwipTypeOK
        <4>2. Head(acceptmbox) \in Conns
          BY <4>1
        <4> QED BY <4>1, <4>2
      <3>2. rcvd[c] = {}
        <4>1. acceptmbox # <<>> /\ acceptmbox \in Seq(Conns)
          BY <2>3 DEF Accept, TypeOK, LwipTypeOK
        <4>2. 1 \in 1..Len(acceptmbox) /\ c = acceptmbox[1]
          BY <3>1, <4>1
        <4> QED BY <4>2 DEF TableMatches
      <3>3. \A g \in Fds : ConnAt(g)' = IF g = fd THEN c ELSE ConnAt(g)
        BY <3>1 DEF ConnAt, TypeOK, LwipTypeOK
      <3>4. UpgradesNone
        BY <2>1, <3>2, <3>3 DEF UpgradesNone, Upgraded, IsOpen
      <3> QED BY <1>1, <1>2, <2>1, <3>4
    <2> QED BY <1>3, <2>2, <2>3 DEF HttpAccept
  <1>4. CASE HttpSwitch
    <2>1. /\ Write(hfd, "switch") /\ UNCHANGED <<sock, ws_queue, hfd>>
          /\ hpc = "dispatch" /\ hpc' = "put"
      BY <1>4 DEF HttpSwitch, Asked, Goto, boardVars, Write
    <2>2. ASSUME NEW fd \in Fds, Upgraded(fd)'
          PROVE  Kept(fd)'
      <3>1. ConnAt(fd)' = ConnAt(fd) /\ IsOpen(fd) /\ ConnAt(fd) \in Conns
        BY <2>1, <2>2 DEF Upgraded, IsOpen, ConnAt, TypeOK, LwipTypeOK
      <3>2. CASE rcvd'[ConnAt(fd)] = rcvd[ConnAt(fd)]
        <4>1. Kept(fd)
          BY <2>2, <3>1, <3>2, KeptIs DEF Upgraded
        <4> QED BY <1>0, <2>1, <4>1 DEF Kept
      <3>3. CASE rcvd'[ConnAt(fd)] # rcvd[ConnAt(fd)]
        <4>1. IsOpen(hfd) /\ ConnAt(fd) = ConnAt(hfd)
          BY <1>0, <2>1, <3>1, <3>3, WriteReaches
        <4>2. hfd \in Fds
          BY <4>1 DEF IsOpen, ConnAt
        <4>3. fd = hfd
          BY <3>1, <4>1, <4>2 DEF TableMatches
        <4> QED BY <2>1, <4>3 DEF Kept
      <3> QED BY <3>2, <3>3
    <2> QED BY <2>2, KeptIs
  <1>5. CASE HttpPut
    <2>1. UpgradesNone
      BY <1>5, QuietUpgradesNone DEF HttpPut, lwipVars
    <2>2. /\ hpc = "put" /\ ws_queue' = Append(ws_queue, hfd) /\ ws_queue \in Seq(Fds)
      BY <1>5 DEF HttpPut, QueuePut, TypeOK
    <2>3. /\ \A k \in 1..Len(ws_queue) : k \in 1..Len(ws_queue') /\ ws_queue'[k] = ws_queue[k]
          /\ Len(ws_queue) + 1 \in 1..Len(ws_queue')
          /\ ws_queue'[Len(ws_queue) + 1] = hfd
      BY <2>2
    <2>4. \A fd \in Fds : Kept(fd) => Kept(fd)'
      BY <1>0, <2>3 DEF Kept
    <2> QED BY <1>1, <2>1, <2>4
  <1>6. CASE HttpPutTimeout
    <2>1. UNCHANGED <<sock, rcvd, ws_queue, hfd>> /\ hpc' = "close"
      BY <1>6 DEF HttpPutTimeout, Goto, lwipVars, boardVars
    <2>2. UpgradesNone
      BY <2>1, QuietUpgradesNone
    <2> QED BY <1>0, <1>1, <2>1, <2>2 DEF Kept
  <1>7. CASE HttpClose
    <2>1. /\ UpgradesNone /\ UNCHANGED ws_queue
          /\ \A g \in Fds : Upgraded(g)' => g # hfd
      BY <1>0, <1>7, CloseUpgradesNone DEF HttpClose, boardVars
    <2> QED BY <1>0, <1>1, <2>1 DEF Kept
  <1>8. CASE HttpSelect \/ HttpSelectError \/ HttpScanDone \/ HttpTrack \/ HttpRecv
             \/ HttpLedPin \/ HttpLedFlag
    <2>1. UNCHANGED <<sock, rcvd, ws_queue>> /\ hpc \notin {"put", "close"}
      BY <1>8 DEF HttpSelect, HttpSelectError, HttpScanDone, HttpTrack, SetNonblock,
         HttpRecv, HttpRecvData, HttpRecvEof, HttpRecvError, Scanning, Recv, HttpLedPin,
         WritePin, HttpLedFlag, FlagSet, Asked, lwipVars, boardVars
    <2> QED BY <1>1, <1>2, <2>1, QuietUpgradesNone
  <1>9. CASE HttpBusy \/ HttpLedState \/ HttpLedReply \/ HttpFile \/ HttpBody \/ HttpNotFound
    <2>1. \/ \E kind \in {"busy", "reply", "notfound"} : Write(hfd, kind)
          \/ UNCHANGED <<sock, rcvd>>
      BY <1>9 DEF HttpBusy, HttpLedState, HttpLedReply, HttpFile, HttpBody, HttpNotFound,
         lwipVars
    <2>2. UNCHANGED ws_queue /\ hpc \notin {"put", "close"}
      BY <1>9 DEF HttpBusy, HttpLedState, HttpLedReply, HttpFile, HttpBody, HttpNotFound,
         Asked, boardVars
    <2>3. UpgradesNone
      BY <1>0, <2>1, WriteUpgradesNone, QuietUpgradesNone
    <2> QED BY <1>1, <1>2, <2>2, <2>3
  <1>10. CASE HttpBusyClose
    <2>1. UNCHANGED ws_queue /\ hpc = "busy_close" /\ Close(hfd)
      BY <1>10 DEF HttpBusyClose, boardVars
    <2>2. UpgradesNone
      BY <1>0, <2>1, CloseUpgradesNone
    <2> QED BY <1>1, <1>2, <2>1, <2>2
  <1> QED BY <1>0, <1>3, <1>4, <1>5, <1>6, <1>7, <1>8, <1>9, <1>10 DEF HttpNext

\* Nobody who got the 101 is orphaned, whichever of queue, slots and threads fails him:
\* until his connection is closed, somebody has his descriptor.
THEOREM NobodyOrphaned == Spec => []UpgradedIsKept
  <1>1. Init => UpgradedIsKept
    BY DEF Init, LwipInit, UpgradedIsKept, IsOpen, ConnAt
  <1>2. TypeOK /\ TypeOK' /\ TableMatches /\ UpgradedIsKept /\ [Next]_vars => UpgradedIsKept'
    <2> SUFFICES ASSUME TypeOK, TypeOK', TableMatches, UpgradedIsKept, [Next]_vars
                 PROVE  UpgradedIsKept'
      OBVIOUS
    <2>1. CASE UNCHANGED <<sock, rcvd, hpc, hfd, ws_queue, wpc, new_sock, clients_sock>>
      BY <2>1 DEF UpgradedIsKept, IsOpen, ConnAt
    <2>2. CASE ClientStep
      <3>1. UNCHANGED <<sock, rcvd>>
        BY <2>2, ClientsOpenNone DEF ClientStep, ClientNext, ClientConnect, ClientRequest,
           ClientPost, ClientPostHeaders, ClientPostBody, ClientFrame,
           ClientFrameHead, ClientFrameRest, ClientClose,
           ClientReset, ClientWindow, TcpConnect, TcpDeliver, TcpFin, TcpRst, TcpWindow
      <3> QED BY <2>1, <2>2, <3>1 DEF ClientStep, boardVars, httpVars, wsVars
    <2>3. ButtonStep \/ StartStep \/ UNCHANGED vars
            => UNCHANGED <<sock, rcvd, hpc, hfd, ws_queue, wpc, new_sock, clients_sock>>
      BY DEF ButtonStep, MoveButton, StartStep, MakeNext, Make, vars, lwipVars, httpVars,
             wsVars, boardVars
    <2> QED BY <2>1, <2>2, <2>3, HttpKeeps, WsKeeps DEF Next
  <1>3. TypeOK /\ TableMatches /\ [Next]_vars => TableMatches'
    BY StepMatches
  <1> QED BY <1>1, <1>2, <1>3, InitMatches, TypeCorrect, PTL DEF Spec
=============================================================================
