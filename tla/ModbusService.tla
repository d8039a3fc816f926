---------------------------- MODULE ModbusService ----------------------------
(***************************************************************************)
(* What the Modbus server promises its clients: each request is carried    *)
(* out once, as one step on the shared register, and its outcome is        *)
(* answered to the client that asked, or lost with its connection.         *)
(***************************************************************************)
CONSTANTS
    Clients,
    Values,        \* what the register holds
    First,         \* what it holds when the board starts
    Requests,
    NoRequest,
    NoAnswer

VARIABLES
    register,
    asked,         \* the request a client waits for, from asking to answering
    outcome,       \* what its answer will be, once it is carried out
    answer         \* what a client was answered last

vars == <<register, asked, outcome, answer>>

Init ==
    /\ register = First
    /\ asked = [c \in Clients |-> NoRequest]
    /\ outcome = [c \in Clients |-> NoAnswer]
    /\ answer = [c \in Clients |-> NoAnswer]

Effect(request) == IF request.op = "write" THEN request.value ELSE register

\* Another unit's registers hold any value.
Outcome(request, any) ==
    LET done(v) == [to |-> request.by, says |-> "done", value |-> v] IN
    CASE request.op = "read"  -> done(register)
      [] request.op = "write" -> done(request.value)
      [] request.op = "alien" -> done(any)
      [] OTHER -> [to |-> request.by, says |-> "exception", value |-> First]

Ask(c, request) ==
    /\ asked[c] = NoRequest
    /\ request.by = c
    /\ asked' = [asked EXCEPT ![c] = request]
    /\ answer' = [answer EXCEPT ![c] = NoAnswer]
    /\ UNCHANGED <<register, outcome>>

CarryOut(c) ==
    /\ asked[c] # NoRequest
    /\ outcome[c] = NoAnswer
    /\ register' = Effect(asked[c])
    /\ \E any \in Values : outcome' = [outcome EXCEPT ![c] = Outcome(asked[c], any)]
    /\ UNCHANGED <<asked, answer>>

Done(c) ==
    /\ outcome[c] # NoAnswer
    /\ asked' = [asked EXCEPT ![c] = NoRequest]
    /\ outcome' = [outcome EXCEPT ![c] = NoAnswer]
    /\ UNCHANGED register

Reply(c) == Done(c) /\ answer' = [answer EXCEPT ![c] = outcome[c]]

Lose(c) == Done(c) /\ UNCHANGED answer

Next ==
    \E c \in Clients :
        \/ \E request \in Requests : Ask(c, request)
        \/ CarryOut(c)
        \/ Reply(c)
        \/ Lose(c)

Spec == Init /\ [][Next]_vars
=============================================================================
