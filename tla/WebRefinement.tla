---------------------------- MODULE WebRefinement ----------------------------
(***************************************************************************)
(* The web server implements LedPromise, for any number of connections,    *)
(* descriptors and slots: the initial states map to initial states, and    *)
(* every step maps to a step of the promise or leaves it as it was.        *)
(***************************************************************************)
EXTENDS WebServerProofs

\* A step that changes neither the LED nor what clients were or will be told is
\* no step of the promise.
LEMMA PromiseStutter ==
  ASSUME UNCHANGED <<LD1, Told, Owed>>, LedPending' <=> LedPending
  PROVE  [Promise!Next]_Promise!vars
  <1>1. LedPending' = LedPending
    BY DEF LedPending
  <1> QED BY <1>1 DEF Promise!vars

\* What clients were told and are owed depends on the WebSocket thread alone.
LEMMA ToldUnchanged ==
  ASSUME UNCHANGED <<wpc, clients_sock, shown, widx, bidx, bmsg>>
  PROVE  UNCHANGED <<Told, Owed>>
  BY DEF Told, Owed, Vacant, BroadcastingLed

\* A step of the HTTP thread sets the LED, or does nothing to the promise; a flag
\* that cannot be set yet is an announcement to nobody.
LEMMA PromiseHttp ==
  ASSUME TypeOK, TypeOK', StartsEmpty, HttpStep
  PROVE  [Promise!Next]_Promise!vars
  <1>1. UNCHANGED <<Told, Owed, wpc>>
    BY ToldUnchanged DEF HttpStep, wsVars
  <1>2. HttpNext
    BY DEF HttpStep
  <1>3. CASE LedPending'
    <2>1. LedPending' = TRUE
      BY <1>3 DEF LedPending
    <2>2. LD1' \in PinStates
      BY DEF TypeOK, BoardTypeOK
    <2>3. Promise!Set(LD1')
      BY <1>1, <2>1 DEF Promise!Set
    <2> QED BY <2>2, <2>3 DEF Promise!Next
  <1>4. CASE ~LedPending' /\ ~LedPending
    <2>1. UNCHANGED LD1
      BY <1>2, <1>4, HttpLedSteps DEF LedPending
    <2> QED BY <1>1, <1>4, <2>1, PromiseStutter
  <1>5. CASE ~LedPending' /\ LedPending
    <2>1. UNCHANGED LD1 /\ ~WsKnown
      BY <1>1, <1>2, <1>5, HttpLedSteps DEF LedPending
    <2>2. \A i \in WsSlots : Vacant(i)
      BY <2>1 DEF StartsEmpty, WsKnown, QueueExists
    <2>3. Promise!Staying = {} /\ Owed = {}
      BY <2>2 DEF Promise!Staying, Told, Owed
    <2>4. LedPending' = FALSE
      BY <1>5 DEF LedPending
    <2>5. Promise!Announce
      BY <1>1, <1>5, <2>1, <2>3, <2>4 DEF Promise!Announce
    <2> QED BY <2>5 DEF Promise!Next
  <1> QED BY <1>3, <1>4, <1>5

\* Admitting, or not, and taking the flag: a client joins, the initial message
\* repeats what others know, or the announcement to all starts.
LEMMA PromiseBefore ==
  ASSUME TypeOK, UNCHANGED httpVars,
         \/ WsGet \/ WsGetNothing \/ WsAdmit \/ WsInitRead \/ WsReject \/ WsRejectClose
         \/ WsFlag \/ WsFlagTimeout \/ WsLedRead
  PROVE  [Promise!Next]_Promise!vars
  <1> USE DEF httpVars
  <1>1. CASE WsGet
    <2>1. CASE wpc' = "reject"
      <3>1. UNCHANGED <<Told, Owed, LD1>> /\ (LedPending' <=> LedPending)
        BY <1>1, <2>1 DEF WsGet, QueueGet, NotBroadcasting, Told, Owed, Vacant,
                          BroadcastingLed, LedPending
      <3> QED BY <3>1, PromiseStutter
    <2>2. CASE wpc' # "reject"
      <3>1. PICK i \in WsSlots :
              /\ Vacant(i)
              /\ new_sock' = Head(ws_queue)
              /\ clients_sock' = [clients_sock EXCEPT ![i] = new_sock']
              /\ shown' = [shown EXCEPT ![i] = "nothing"]
              /\ widx' = i
              /\ wpc' = "admit"
        BY <1>1, <2>2 DEF WsGet
      <3>2. UNCHANGED <<LD1, ws_flag>> /\ wpc = "get"
        BY <1>1 DEF WsGet, QueueGet
      <3>3. Owed = {}
        BY <3>2 DEF Owed, BroadcastingLed
      <3>4. new_sock' # NoFd
        <4>1. ws_queue \in Seq(Fds) /\ ws_queue # <<>>
          BY <1>1 DEF WsGet, QueueGet, TypeOK
        <4>2. Head(ws_queue) \in Fds
          BY <4>1
        <4> QED BY <3>1, <4>2, LwipAssumption DEF Fds, NoFd
      <3>5. clients_sock \in [WsSlots -> Fds \cup {NoFd}]
            /\ shown \in [WsSlots -> PinStates \cup {"nothing"}]
        BY DEF TypeOK, WsTypeOK
      <3>6. Owed' = {i}
        BY <3>1, <3>4, <3>5 DEF Owed, Vacant, BroadcastingLed
      <3>7. Told' = [Told EXCEPT ![i] = "nothing"] /\ Told[i] = "vacant"
        BY <3>1, <3>4, <3>5 DEF Told, Vacant
      <3>8. LedPending' = LedPending
        BY <3>1, <3>2 DEF LedPending
      <3>9. Promise!Join(i)
        BY <3>2, <3>3, <3>6, <3>7, <3>8 DEF Promise!Join, Promise!Staying
      <3> QED BY <3>9 DEF Promise!Next
    <2> QED BY <2>1, <2>2
  <1>2. CASE WsGetNothing \/ WsAdmit \/ WsReject \/ WsRejectClose \/ WsFlag \/ WsFlagTimeout
    <2>1. UNCHANGED <<Told, Owed, LD1>> /\ (LedPending' <=> LedPending)
      BY <1>2 DEF WsGetNothing, WsAdmit, WsReject, WsRejectClose, WsFlag, FlagTake,
                  WsFlagTimeout, NotBroadcasting, boardVars, Told, Owed, Vacant,
                  BroadcastingLed, LedPending
    <2> QED BY <2>1, PromiseStutter
  <1>3. CASE WsInitRead
    <2>1. Told' = Told /\ LD1' = LD1 /\ LedPending' = LedPending
      BY <1>3 DEF WsInitRead, Broadcast, boardVars, Told, Vacant, LedPending
    <2>2. Owed \subseteq Owed'
      <3>1. /\ wpc = "init_read" /\ wpc' = "bcast" /\ bidx' = widx /\ bmsg'.type = "init"
            /\ UNCHANGED clients_sock
        BY <1>3 DEF WsInitRead, Broadcast
      <3>2. widx \in Int /\ widx >= widx
        BY SlotNumbers DEF TypeOK, WsTypeOK
      <3> QED BY <3>1, <3>2 DEF Owed, Vacant, BroadcastingLed, IsLed
    <2>3. Owed' \subseteq Promise!Staying
      BY <1>3 DEF Owed, Vacant, Promise!Staying, Told, WsInitRead, TypeOK, WsTypeOK, PinStates
    <2>4. Promise!Repeat(Owed')
      BY <2>1, <2>2 DEF Promise!Repeat
    <2> QED BY <2>3, <2>4 DEF Promise!Next
  <1>4. CASE WsLedRead
    <2>1. /\ wpc = "led_read" /\ wpc' = "bcast" /\ bidx' = 1 /\ bmsg'.type = "led"
          /\ UNCHANGED <<clients_sock, shown, LD1, ws_flag>>
      BY <1>4 DEF WsLedRead, Broadcast, boardVars
    <2>2. Told' = Told
      BY <2>1 DEF Told, Vacant
    <2>3. shown \in [WsSlots -> PinStates \cup {"nothing"}]
      BY DEF TypeOK, WsTypeOK
    <2>4. Promise!Staying = {i \in WsSlots : ~Vacant(i)}
      BY <2>3 DEF Promise!Staying, Told, PinStates
    <2>5. Owed = {} /\ Owed' = Promise!Staying
      BY <2>1, <2>4, SlotNumbers DEF Owed, BroadcastingLed, IsLed, Vacant
    <2>6. CASE LedPending'
      <3>1. LedPending' = LedPending
        BY <2>1, <2>6 DEF LedPending
      <3>2. Promise!Repeat(Promise!Staying)
        BY <2>1, <2>2, <2>5, <3>1 DEF Promise!Repeat
      <3> QED BY <3>2 DEF Promise!Next
    <2>7. CASE ~LedPending'
      <3>1. LedPending' = FALSE /\ LedPending
        BY <2>1, <2>7 DEF LedPending
      <3>2. Promise!Announce
        BY <2>1, <2>2, <2>5, <3>1 DEF Promise!Announce
      <3> QED BY <3>2 DEF Promise!Next
    <2> QED BY <2>6, <2>7
  <1> QED BY <1>1, <1>2, <1>3, <1>4

\* A broadcast tells one client after another, and those whose write() fails
\* leave.  A state that is over is told only while a setting is still to be
\* announced, which is StaleIsFollowed.
LEMMA PromiseBroadcast ==
  ASSUME TypeOK, LedInv, UNCHANGED httpVars,
         \/ WsBcastWrite \/ WsBcastClose \/ WsBcastDone
         \/ WsBcastPast \/ WsPastClose
  PROVE  [Promise!Next]_Promise!vars
  <1> USE DEF httpVars
  <1>0. /\ clients_sock \in [WsSlots -> Fds \cup {NoFd}]
        /\ shown \in [WsSlots -> PinStates \cup {"nothing"}]
        /\ bidx \in Int
        /\ bmsg.state \in PinStates
    BY SlotNumbers DEF TypeOK, WsTypeOK, Message
  <1>1. CASE WsBcastWrite
    <2>1. PICK i \in WsSlots :
            /\ FirstClient(bidx, i)
            /\ \/ /\ shown' = IF IsLed(bmsg) THEN [shown EXCEPT ![i] = bmsg.state]
                                             ELSE shown
                  /\ bidx' = i + 1 /\ wpc' = "bcast"
               \/ bidx' = i /\ wpc' = "bcast_close" /\ shown' = shown
      BY <1>1 DEF WsBcastWrite
    <2>2. wpc = "bcast" /\ UNCHANGED <<clients_sock, widx, bmsg, LD1, ws_flag>>
      BY <1>1 DEF WsBcastWrite, boardVars
    <2>3. LedPending' = LedPending
      BY <2>1, <2>2 DEF LedPending
    <2>4. ~Vacant(i) /\ \A j \in WsSlots : j >= bidx /\ ~Vacant(j) => i <= j
      BY <2>1 DEF FirstClient
    <2>5. CASE ~IsLed(bmsg)
      <3>1. UNCHANGED <<Told, Owed>>
        BY <2>1, <2>2, <2>5 DEF Told, Owed, Vacant, BroadcastingLed
      <3> QED BY <2>2, <2>3, <3>1, PromiseStutter
    <2>6. CASE IsLed(bmsg) /\ wpc' = "bcast"
      <3>1. shown' = [shown EXCEPT ![i] = bmsg.state] /\ bidx' = i + 1
        BY <2>1, <2>6
      <3>2. Told' = [Told EXCEPT ![i] = bmsg.state]
        BY <1>0, <2>2, <2>4, <3>1 DEF Told, Vacant
      <3>3. ASSUME NEW j \in WsSlots, ~Vacant(j)
            PROVE  (j >= i + 1) <=> (j >= bidx /\ j # i)
        BY <1>0, <2>1, <2>4, <3>3, SlotNumbers DEF FirstClient
      <3>4. Owed' = Owed \ {i} /\ i \in Owed
        BY <2>1, <2>2, <2>4, <2>6, <3>1, <3>3 DEF Owed, Vacant, BroadcastingLed, FirstClient
      <3>5. LedPending \/ bmsg.state = LD1
        BY <2>2, <2>6 DEF LedInv, StaleIsFollowed, BroadcastingLed
      <3>6. Promise!Tell(i, bmsg.state)
        BY <2>2, <2>3, <3>2, <3>4, <3>5 DEF Promise!Tell
      <3> QED BY <1>0, <3>6 DEF Promise!Next
    <2>7. CASE IsLed(bmsg) /\ wpc' # "bcast"
      <3>1. bidx' = i /\ wpc' = "bcast_close" /\ shown' = shown
        BY <2>1, <2>7
      <3>2. ASSUME NEW j \in WsSlots, ~Vacant(j)
            PROVE  (j >= i) <=> (j >= bidx)
        BY <1>0, <2>1, <2>4, <3>2, SlotNumbers DEF FirstClient
      <3>3. Told' = Told
        BY <2>2, <3>1 DEF Told, Vacant
      <3>4. Owed' = Owed
        BY <2>2, <2>7, <3>1, <3>2 DEF Owed, Vacant, BroadcastingLed
      <3> QED BY <2>2, <2>3, <3>3, <3>4, PromiseStutter
    <2> QED BY <2>5, <2>6, <2>7
  <1>2. CASE WsBcastClose
    <2>1. /\ wpc = "bcast_close" /\ wpc' = "bcast" /\ bidx' = bidx + 1
          /\ clients_sock' = [clients_sock EXCEPT ![bidx] = NoFd]
          /\ UNCHANGED <<shown, widx, bmsg, LD1, ws_flag>>
      BY <1>2 DEF WsBcastClose, boardVars
    <2>2. bidx \in WsSlots
      BY <2>1 DEF TypeOK, WsTypeOK
    <2>3. LedPending' = LedPending
      BY <2>1 DEF LedPending
    <2>4. Told' = [Told EXCEPT ![bidx] = "vacant"]
      BY <1>0, <2>1, <2>2 DEF Told, Vacant
    <2>5. Owed' = Owed \ {bidx}
      <3>1. ASSUME NEW j \in WsSlots
            PROVE  (j >= bidx + 1) <=> (j >= bidx /\ j # bidx)
        BY <1>0, SlotNumbers
      <3> QED BY <1>0, <2>1, <2>2, <3>1 DEF Owed, Vacant, BroadcastingLed
    <2>6. CASE Vacant(bidx)
      <3>1. UNCHANGED <<Told, Owed>>
        BY <2>2, <2>4, <2>5, <2>6 DEF Told, Owed
      <3> QED BY <2>1, <2>3, <3>1, PromiseStutter
    <2>7. CASE ~Vacant(bidx)
      <3>1. bidx \in Promise!Staying
        BY <1>0, <2>2, <2>7 DEF Promise!Staying, Told, PinStates
      <3>2. Promise!Leave(bidx)
        BY <2>1, <2>3, <2>4, <2>5, <3>1 DEF Promise!Leave
      <3> QED BY <2>2, <3>2 DEF Promise!Next
    <2> QED BY <2>6, <2>7
  <1>3. CASE WsBcastDone
    <2>1. \A i \in WsSlots : i >= bidx => Vacant(i)
      BY <1>3 DEF WsBcastDone, NoClient
    <2>2. Owed = {} /\ Owed' = {}
      BY <1>3, <2>1 DEF WsBcastDone, Owed, BroadcastingLed
    <2>3. Told' = Told /\ LD1' = LD1 /\ (LedPending' <=> LedPending)
      BY <1>3 DEF WsBcastDone, boardVars, Told, Vacant, LedPending
    <2> QED BY <2>2, <2>3, PromiseStutter
  <1>4. CASE WsBcastPast
    <2>1. \A i \in WsSlots : i >= bidx => Vacant(i)
      BY <1>4 DEF WsBcastPast, PastArray, NoClient
    <2>2. /\ wpc = "bcast" /\ wpc' \in {"bcast", "past_close"}
          /\ bidx' = MaxWsClients + 1
          /\ UNCHANGED <<clients_sock, shown, widx, bmsg, LD1, ws_flag>>
      BY <1>4 DEF WsBcastPast, PastArray, boardVars
    <2>3. \A i \in WsSlots : ~(i >= bidx')
      BY <2>2, SlotNumbers
    <2>4. Owed = {} /\ Owed' = {}
      BY <2>1, <2>2, <2>3 DEF Owed, BroadcastingLed
    <2>5. Told' = Told /\ (LedPending' <=> LedPending)
      BY <2>2 DEF Told, Vacant, LedPending
    <2> QED BY <2>2, <2>4, <2>5, PromiseStutter
  <1>5. CASE WsPastClose
    <2>1. UNCHANGED <<Told, Owed, LD1>> /\ (LedPending' <=> LedPending)
      BY <1>5 DEF WsPastClose, boardVars, Told, Owed, Vacant, BroadcastingLed,
                  LedPending
    <2> QED BY <2>1, PromiseStutter
  <1> QED BY <1>1, <1>2, <1>3, <1>4, <1>5

\* The receive loop tells nothing; a client it closes leaves.
LEMMA PromiseReceive ==
  ASSUME TypeOK, UNCHANGED httpVars,
         \/ WsRecv \/ WsRecvStale \/ WsRecvBlock \/ WsRecvWake \/ WsRecvGone
         \/ WsRecvClose \/ WsLoop
  PROVE  [Promise!Next]_Promise!vars
  <1> USE DEF httpVars
  <1>1. ASSUME NEW i, NEW c, NEW n, AfterRecv(i, c, n)
        PROVE  \/ wpc' \in {"recv", "recv_close"}
               \/ wpc' = "bcast" /\ bmsg'.type = "button"
    BY <1>1 DEF AfterRecv, LookAtButton, Broadcast
  <1>2. CASE WsRecv \/ WsRecvWake
    <2>1. /\ wpc \in {"recv", "recv_blocked"}
          /\ \/ wpc' \in {"recv", "recv_close"}
             \/ wpc' = "bcast" /\ bmsg'.type = "button"
          /\ UNCHANGED <<clients_sock, shown, LD1, ws_flag>>
      BY <1>1, <1>2 DEF WsRecv, WsRecvWake, boardVars
    <2>2. UNCHANGED <<Told, Owed>> /\ (LedPending' <=> LedPending)
      BY <2>1 DEF Told, Owed, Vacant, BroadcastingLed, IsLed, LedPending
    <2> QED BY <2>1, <2>2, PromiseStutter
  <1>3. CASE WsRecvStale \/ WsRecvBlock \/ WsRecvGone \/ WsLoop
    <2>1. UNCHANGED <<Told, Owed, LD1>> /\ (LedPending' <=> LedPending)
      BY <1>3 DEF WsRecvStale, WsRecvBlock, WsRecvGone, WsLoop, boardVars,
                  Told, Owed, Vacant, BroadcastingLed, LedPending
    <2> QED BY <2>1, PromiseStutter
  <1>4. CASE WsRecvClose
    <2>1. /\ wpc = "recv_close" /\ wpc' = "recv"
          /\ clients_sock' = [clients_sock EXCEPT ![widx] = NoFd]
          /\ UNCHANGED <<shown, LD1, ws_flag>>
      BY <1>4 DEF WsRecvClose, boardVars
    <2>2. /\ widx \in WsSlots
          /\ clients_sock \in [WsSlots -> Fds \cup {NoFd}]
          /\ shown \in [WsSlots -> PinStates \cup {"nothing"}]
      BY <2>1 DEF TypeOK, WsTypeOK
    <2>3. Owed = {} /\ Owed' = {} /\ LedPending' = LedPending
      BY <2>1 DEF Owed, BroadcastingLed, LedPending
    <2>4. Told' = [Told EXCEPT ![widx] = "vacant"]
      BY <2>1, <2>2 DEF Told, Vacant
    <2>5. CASE Vacant(widx)
      <3>1. Told' = Told
        BY <2>2, <2>4, <2>5 DEF Told
      <3> QED BY <2>1, <2>3, <3>1, PromiseStutter
    <2>6. CASE ~Vacant(widx)
      <3>1. widx \in Promise!Staying
        BY <2>2, <2>6 DEF Promise!Staying, Told, PinStates
      <3>2. Promise!Leave(widx)
        BY <2>1, <2>3, <2>4, <3>1 DEF Promise!Leave
      <3> QED BY <2>2, <3>2 DEF Promise!Next
    <2> QED BY <2>5, <2>6
  <1> QED BY <1>2, <1>3, <1>4

\* Every step of the server is a step of the promise or none.
LEMMA PromiseStep ==
  ASSUME TypeOK, TypeOK', LedInv, StartsEmpty, [Next]_vars
  PROVE  [Promise!Next]_Promise!vars
  <1>1. CASE HttpStep
    BY <1>1, PromiseHttp
  <1>2. CASE WsStep
    BY <1>2, PromiseBefore, PromiseBroadcast, PromiseReceive DEF WsStep, WsNext
  <1>3. CASE ClientStep \/ ButtonStep \/ StartStep \/ UNCHANGED vars
    <2>1. UNCHANGED <<wsVars, hpc, LD1, ws_flag>>
      BY <1>3 DEF ClientStep, ButtonStep, MoveButton, StartStep, MakeNext, Make, vars,
                  httpVars, boardVars
    <2>2. UNCHANGED <<Told, Owed>> /\ (LedPending' <=> LedPending)
      BY <2>1, ToldUnchanged DEF wsVars, LedPending
    <2> QED BY <2>1, <2>2, PromiseStutter
  <1> QED BY <1>1, <1>2, <1>3 DEF Next

\* The server implements LedPromise: whatever the interleaving of the two
\* threads, of closed and reused descriptors and of failing write()s, each LED
\* setting made by http_server_thread() is announced by websocket_thread() to
\* every slot, and no client is told of a state that is over for the last time.
THEOREM PromiseImplemented == Spec => LedPromiseKept
  <1>1. Init => Promise!Init
    BY DEF Init, WsInit, BoardInit, HttpInit, Promise!Init, Told, Owed, Vacant,
           LedPending
  <1>2. TypeOK /\ TypeOK' /\ LedInv /\ StartsEmpty /\ [Next]_vars
            => [Promise!Next]_Promise!vars
    BY PromiseStep
  <1>3. Spec => []LedInv
    <2>1. Init => LedInv
      BY DEF Init, WsInit, LedInv, LedFresh, StaleIsFollowed, BroadcastingLed, Vacant
    <2>2. TypeOK /\ LedInv /\ StartsEmpty /\ [Next]_vars => LedInv'
      BY LedStep
    <2> QED BY <2>1, <2>2, TypeCorrect, NothingMissedAtStart, PTL DEF Spec
  <1> QED BY <1>1, <1>2, <1>3, TypeCorrect, NothingMissedAtStart, PTL
             DEF Spec, LedPromiseKept, Promise!Spec
=============================================================================
