----------------------------- MODULE WebServer -----------------------------
(***************************************************************************)
(* The web server of the board: the HTTP thread and the WebSocket thread   *)
(* over one socket table, with their clients and the user at the button.   *)
(***************************************************************************)
EXTENDS HttpServer, WsServer, Clients

vars == <<lwipVars, boardVars, httpVars, wsVars, clientVars>>

Init == LwipInit /\ BoardInit /\ HttpInit /\ WsInit /\ ClientsInit

HttpStep == HttpExists /\ HttpNext /\ UNCHANGED <<wsVars, clientVars>>
WsStep == WsExists /\ WsNext /\ UNCHANGED <<httpVars, clientVars>>
ButtonStep == MoveButton /\ UNCHANGED <<lwipVars, httpVars, wsVars, clientVars>>
StartStep == MakeNext /\ UNCHANGED <<lwipVars, httpVars, wsVars, clientVars>>

\* The HTTP thread, of a higher priority than the task that makes it, listens
\* before that task goes on.
ClientStep == HttpExists /\ ClientNext /\ UNCHANGED <<boardVars, httpVars, wsVars>>

Next == HttpStep \/ WsStep \/ ClientStep \/ ButtonStep \/ StartStep

Spec == Init /\ [][Next]_vars

\* The HTTP thread goes round its loop without ever blocking: select() fails on
\* a closed descriptor, which nothing takes out of the set.
Hogging == hpc = "select" /\ SelectFails

\* Each thread keeps running while it can.  The HTTP thread has the higher
\* priority, but sleeps in select() or for a tick in every round, so the
\* WebSocket thread and the default task get the processor again and again -
\* unless the HTTP thread hogs it.
FairSpec ==
    /\ Spec
    /\ WF_vars(HttpStep)
    /\ WF_vars(~Hogging /\ WsStep)
    /\ WF_vars(~Hogging /\ StartStep)

----------------------------------------------------------------------------
(* Safety.                                                                 *)

\* Every variable of the two threads, the stack and the clients keeps its type.
TypeOK ==
    /\ LwipTypeOK
    /\ BoardTypeOK
    /\ HttpTypeOK
    /\ WsTypeOK
    /\ ClientsTypeOK
    /\ ws_queue \in Seq(Fds)

\* The LED is being changed, or was, and the WebSocket thread has still to read
\* it for a broadcast to all.
LedPending ==
    \/ hpc \in {"led_reply", "led_flag"}
    \/ ws_flag
    \/ wpc = "led_read"

BroadcastingLed ==
    wpc \in {"bcast", "bcast_close", "past_close"} /\ IsLed(bmsg)

\* The WebSocket thread is about to tell slot i the LED's present state.
LedOnItsWay(i) ==
    \/ wpc \in {"admit", "init_read"} /\ i = widx
    \/ BroadcastingLed /\ i >= bidx /\ bmsg.state = LD1

\* No lost LED update: a WebSocket client slot was last sent the LED's present
\* state, unless the change or its broadcast is still under way.  The pin is
\* written before the flag is set, and read after the flag was cleared; an
\* initial message may race with both.
LedFresh ==
    \A i \in WsSlots :
        \/ Vacant(i)
        \/ shown[i] = LD1
        \/ LedPending
        \/ LedOnItsWay(i)

\* What makes LedFresh inductive: a broadcast that carries a state the LED has
\* left behind will be followed by another.
StaleIsFollowed ==
    BroadcastingLed /\ bmsg.state # LD1 => LedPending

\* While StartDefaultTask is not done, no connection was handed over, and until it
\* stored ws_thread_id, without which the LED's flag is not set and the setting
\* goes unannounced, there is nobody to announce it to and nothing under way.
StartsEmpty ==
    /\ ~QueueExists => ws_queue = <<>> /\ \A i \in WsSlots : Vacant(i)
    /\ ~WsKnown => ~ws_flag /\ wpc \in {"get", "wait", "recv"}

\* What each client slot was last told.
Told == [i \in WsSlots |-> IF Vacant(i) THEN "vacant" ELSE shown[i]]

\* The client slots that a broadcast of the LED, or the initial message, has still
\* to reach.
Owed ==
    {i \in WsSlots :
        /\ ~Vacant(i)
        /\ \/ wpc \in {"admit", "init_read"} /\ i = widx
           \/ BroadcastingLed /\ i >= bidx}

Promise == INSTANCE LedPromise WITH
    Slots <- WsSlots, States <- PinStates, Dark <- "reset",
    led <- LD1, told <- Told, due <- LedPending, owed <- Owed

\* The threads, the flag, the slots and broadcast_to_ws_clients() implement
\* LedPromise: every setting of the LED is announced to everybody, a newcomer is
\* told, and a state that is over is told only ahead of another announcement.
LedPromiseKept == Promise!Spec

\* Nothing leaks out of sight: a descriptor that is open is in the set that the
\* HTTP thread selects on, or in that thread's hands since accept().
OpenIsWatched ==
    \A fd \in Fds :
        IsOpen(fd) => \/ fd \in master_fds /\ fd <= max_fd
                      \/ hpc \in {"track", "busy", "busy_close"} /\ hfd = fd

\* The HTTP thread watches no connection without a slot for it, so it never
\* watches more than MAX_HTTP_CLIENTS of them, whatever was closed and reused
\* behind its back by the WebSocket thread.
WatchedHasSlot ==
    \A fd \in master_fds \ {HttpSock} :
        \E s \in HttpSlots : client_sockets[s] = fd

\* A connection is open that the HTTP thread has no slot for only while it is in that
\* thread's hands: its refusal gives the descriptor back, however the WebSocket
\* thread's closes and the reuse of numbers fall.  With more entries in the table than
\* MAX_HTTP_CLIENTS, accept() never finds it full.
OpenBounded ==
    Cardinality({fd \in Fds : IsOpen(fd)}) <=
        MaxHttpClients + IF hpc \in {"track", "busy", "busy_close"} THEN 1 ELSE 0

\* No upgraded client is orphaned: one that got its 101 and is not closed waits in the
\* queue, has a slot, or is in the hands of the thread that hands it over, refuses it
\* or closes it - though the queue may be full or missing, the slots may be taken or
\* stale, and both threads read and close the same descriptor.
UpgradedIsKept ==
    \A fd \in Fds :
        IsOpen(fd) /\ "switch" \in rcvd[ConnAt(fd)] =>
            \/ hpc \in {"put", "close"} /\ hfd = fd
            \/ \E k \in DOMAIN ws_queue : ws_queue[k] = fd
            \/ wpc \in {"reject", "reject_close"} /\ new_sock = fd
            \/ \E i \in WsSlots : clients_sock[i] = fd

\* A connection that asked for nothing is answered nothing, and only the one
\* that asked for a WebSocket gets the 101: between recv() and the write()s the
\* WebSocket thread may close the descriptor, but nobody can reuse it.
AnswersWhoAsked ==
    \A c \in Conns :
        /\ rcvd[c] \cap {"reply", "notfound"} # {} => sent[c] # "none"
        /\ "switch" \in rcvd[c] => sent[c] = "ws"

\* Hogging is a trap: no step of either thread, of a client or of the user at
\* the button leads out of it.
HoggingIsFinal == [][Hogging => Hogging']_vars

\* The WebSocket thread polls descriptors that fcntl() made non-blocking, with one
\* exception: a stale slot whose number the HTTP thread has just got from accept()
\* and not yet treated.
BlocksOnlyOnNewcomer ==
    [][wpc # "recv_blocked" /\ wpc' = "recv_blocked" =>
           hpc = "track" /\ wconn' = ConnAt(hfd)]_vars

----------------------------------------------------------------------------
(* Liveness.  Three things stop a thread for good, and every property says  *)
(* which of them it does not survive.                                      *)

\* The WebSocket thread waits in recv(), without a timeout, for a newcomer that
\* took a stale slot's number and stays silent.
Caught == wpc = "recv_blocked"

\* The HTTP thread tries again and again to send a file to a client that does not
\* read.
Stalled == hpc = "body"

\* A client that closes its end is closed by the server, whichever thread sees the
\* end of file first and whoever took the descriptor over, unless the HTTP thread
\* hogs or stalls for ever.
ClosedAfterFin ==
    \/ <>[]Stalled
    \/ \A c \in Conns :
           (srv[c] = "open" /\ peer[c] = "fin")
               ~> (srv[c] = "closed" \/ peer[c] = "rst" \/ Hogging)

\* An upgraded client is sent the LED's state, whole or cut short, or its connection
\* ends, unless the HTTP thread hogs or the WebSocket thread is caught for ever.
UpgradeIsServed ==
    \/ <>[]Caught
    \/ \A c \in Conns :
           ("switch" \in rcvd[c])
               ~> \/ rcvd[c] \cap {"led", "torn"} # {}
                  \/ srv[c] = "closed" \/ peer[c] = "rst" \/ Hogging

\* Every LED state that lasts is written, whole or cut short, to every client that
\* stays, unless the HTTP thread hogs or the WebSocket thread is caught for ever.
LedReachesClients ==
    \/ <>[]Caught
    \/ \A i \in WsSlots, v \in PinStates :
           (~Vacant(i) /\ LD1 = v)
               ~> (Vacant(i) \/ LD1 # v \/ shown[i] = v \/ Hogging)

\* While some client stays, a button state that lasts is noticed and broadcast,
\* unless the HTTP thread hogs or the WebSocket thread is caught for ever.
ButtonIsNoticed ==
    \/ <>[]Caught
    \/ \A v \in PinStates :
           (B1 = v /\ ~NoClient(1))
               ~> \/ B1 # v \/ NoClient(1) \/ is_button_rised = (v = "reset")
                  \/ Hogging

\* The WebSocket thread holds the number of c's descriptor, so that it may take what
\* c sends.
Polled(c) == \E i \in WsSlots : ConnAt(clients_sock[i]) = c

\* A request gets an answer, or its connection ends, unless the HTTP thread hogs or
\* stalls for ever, or the WebSocket thread polls the connection that asked: the
\* only ways for a request to be lost.
RequestIsServed ==
    \/ <>[]Stalled
    \/ \A c \in Conns :
           (sent[c] # "none")
               ~> \/ rcvd[c] # {} \/ srv[c] = "closed" \/ peer[c] = "rst"
                  \/ Polled(c) \/ Hogging

----------------------------------------------------------------------------
(* What comments and documents say, and the code does not do.              *)

\* "Prevent CPU hogging": every round of the HTTP loop blocks somewhere.
NeverHogging == ~Hogging

\* README.md: media resources are loaded "without losing any of them": a request
\* gets an answer, or its connection ends, unless the HTTP thread hogs.
RequestIsAnswered ==
    \A c \in Conns :
        (sent[c] # "none")
            ~> (rcvd[c] # {} \/ srv[c] = "closed" \/ peer[c] = "rst" \/ Hogging)

\* "Send success response": the LED was set as the POST says, so its body was
\* read before the answer.
PostReadBeforeAnswer ==
    hpc = "led_reply" /\ IsOpen(hfd) => todo[ConnAt(hfd)] = "none"
=============================================================================
