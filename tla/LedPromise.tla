----------------------------- MODULE LedPromise -----------------------------
(***************************************************************************)
(* What the server promises its WebSocket clients about the LED, whatever  *)
(* threads, flags, slots and sockets it is made of: everybody who stays is *)
(* told of every change, a newcomer is told the state it finds, and nobody *)
(* is told of a state that is over unless he will be told again.           *)
(***************************************************************************)
CONSTANTS
    Slots,     \* places for clients
    States,    \* what the LED can show
    Dark       \* what it shows when the board starts

VARIABLES
    led,       \* what it shows
    told,      \* what each client was last told, "vacant" without a client
    due,       \* the LED was set, and its announcement to all has not begun
    owed       \* the clients an announcement under way has still to reach

vars == <<led, told, due, owed>>

Staying == {i \in Slots : told[i] # "vacant"}

Init ==
    /\ led = Dark
    /\ told = [i \in Slots |-> "vacant"]
    /\ due = FALSE
    /\ owed = {}

Set(state) ==
    /\ led' = state
    /\ due' = TRUE
    /\ UNCHANGED <<told, owed>>

\* The announcement of the last setting starts, and is for everybody.
Announce ==
    /\ due
    /\ due' = FALSE
    /\ owed' = Staying
    /\ UNCHANGED <<led, told>>

\* More clients than needed may be told.
Repeat(clients) ==
    /\ owed' = owed \cup clients
    /\ UNCHANGED <<led, told, due>>

\* A state that is over is told only ahead of another announcement.
Tell(i, state) ==
    /\ i \in owed
    /\ due \/ state = led
    /\ told' = [told EXCEPT ![i] = state]
    /\ owed' = owed \ {i}
    /\ UNCHANGED <<led, due>>

Join(i) ==
    /\ i \notin Staying
    /\ told' = [told EXCEPT ![i] = "nothing"]
    /\ owed' = owed \cup {i}
    /\ UNCHANGED <<led, due>>

Leave(i) ==
    /\ i \in Staying
    /\ told' = [told EXCEPT ![i] = "vacant"]
    /\ owed' = owed \ {i}
    /\ UNCHANGED <<led, due>>

Next ==
    \/ \E state \in States : Set(state)
    \/ Announce
    \/ \E clients \in SUBSET Staying : Repeat(clients)
    \/ \E i \in Slots :
           \/ Join(i)
           \/ Leave(i)
           \/ \E state \in States : Tell(i, state)

Spec == Init /\ [][Next]_vars
=============================================================================
