------------------------------- MODULE Board -------------------------------
(***************************************************************************)
(* What the HTTP thread and the WebSocket thread share besides the socket  *)
(* table: the LED output LD1, the button input B1, the thread flag that    *)
(* tells the WebSocket thread that the LED was set, and the message queue  *)
(* that hands it the descriptors of upgraded connections.  All but the     *)
(* pins are made by StartDefaultTask, one after the other, while the       *)
(* threads it made before already run.                                     *)
(***************************************************************************)
EXTENDS Integers, Sequences

CONSTANTS
    QueueLen,      \* capacity of ws_queue
    ButtonMoves    \* whether the button is ever pressed

ASSUME BoardAssumption == QueueLen \in Nat \ {0} /\ ButtonMoves \in BOOLEAN

VARIABLES
    LD1,         \* the LED pin, written by the HTTP thread
    B1,          \* the button pin, moved by the user
    ws_flag,     \* flag 0x01 of the WebSocket thread
    ws_queue,    \* descriptors on their way to the WebSocket thread
    made         \* the last thing that StartDefaultTask made

\* GPIO_PIN_SET and GPIO_PIN_RESET
PinStates == {"set", "reset"}

boardVars == <<LD1, B1, ws_flag, ws_queue, made>>

\* "ws_thread_id" is the assignment of what osThreadNew() returned, which the
\* WebSocket thread may run ahead of.
Things == {"lwip", "http_server", "websocket", "ws_thread_id", "ws_queue"}

\* What the queue carries is for its users to say.
BoardTypeOK ==
    /\ LD1 \in PinStates
    /\ B1 \in PinStates
    /\ ws_flag \in BOOLEAN
    /\ made \in Things

BoardInit ==
    /\ LD1 = "reset"
    /\ B1 = "reset"
    /\ ws_flag = FALSE
    /\ ws_queue = <<>>
    /\ made = "lwip"

----------------------------------------------------------------------------
(* StartDefaultTask(): the stack runs, then the threads, then the queue.   *)

HttpExists == made # "lwip"
WsExists == made \in {"websocket", "ws_thread_id", "ws_queue"}
WsKnown == made \in {"ws_thread_id", "ws_queue"}

\* Mutant of QueueExists: the queue is made ahead of the threads.
QueueExistsAhead == WsExists

QueueExists == made = "ws_queue"

Make(thing, after) ==
    /\ made = after
    /\ made' = thing
    /\ UNCHANGED <<LD1, B1, ws_flag, ws_queue>>

MakeNext ==
    \/ Make("http_server", "lwip")
    \/ Make("websocket", "http_server")
    \/ Make("ws_thread_id", "websocket")
    \/ Make("ws_queue", "ws_thread_id")

----------------------------------------------------------------------------

\* osMessageQueuePut() gives up on a queue that stays full, and at once on one
\* that is still NULL.
QueueRefuses == ~QueueExists \/ Len(ws_queue) >= QueueLen

\* osMessageQueuePut() that finds room.
QueuePut(fd) ==
    /\ ~QueueRefuses
    /\ ws_queue' = Append(ws_queue, fd)
    /\ UNCHANGED <<LD1, B1, ws_flag, made>>

\* osMessageQueueGet() that finds a message.
QueueGet ==
    /\ ws_queue # <<>>
    /\ ws_queue' = Tail(ws_queue)
    /\ UNCHANGED <<LD1, B1, ws_flag, made>>

\* osThreadFlagsSet(ws_thread_id, 0x01), which a NULL ws_thread_id makes an error
\* that nobody looks at.
FlagSet ==
    /\ ws_flag' = IF WsKnown THEN TRUE ELSE ws_flag
    /\ UNCHANGED <<LD1, B1, ws_queue, made>>

\* osThreadFlagsWait() that returns the flag, and clears it.
FlagTake == ws_flag /\ ws_flag' = FALSE /\ UNCHANGED <<LD1, B1, ws_queue, made>>

WritePin(v) == LD1' = v /\ UNCHANGED <<B1, ws_flag, ws_queue, made>>

\* The user presses or releases the button.
MoveButton ==
    /\ ButtonMoves
    /\ B1' = IF B1 = "set" THEN "reset" ELSE "set"
    /\ UNCHANGED <<LD1, ws_flag, ws_queue, made>>
=============================================================================
