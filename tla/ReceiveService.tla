--------------------------- MODULE ReceiveService ---------------------------
(***************************************************************************)
(* What the receive path promises the stack, whatever ring, pool and        *)
(* threads it is made of: frames are passed up in the order they arrived,   *)
(* each once, and a buffer is not written again before the stack has freed  *)
(* the frame in it.                                                        *)
(***************************************************************************)
EXTENDS Sequences

CONSTANT Buffers

VARIABLES
    arrived,   \* buffers of the frames that wait to be passed up, oldest first
    lent       \* buffers of the frames the stack has and did not free

vars == <<arrived, lent>>

Waiting == {arrived[k] : k \in DOMAIN arrived}

Init == arrived = <<>> /\ lent = {}

Arrive(b) ==
    /\ b \notin lent \cup Waiting
    /\ arrived' = Append(arrived, b)
    /\ UNCHANGED lent

PassUp ==
    /\ arrived # <<>>
    /\ arrived' = Tail(arrived)
    /\ lent' = lent \cup {Head(arrived)}

Free(b) ==
    /\ b \in lent
    /\ lent' = lent \ {b}
    /\ UNCHANGED arrived

Next ==
    \/ \E b \in Buffers : Arrive(b) \/ Free(b)
    \/ PassUp

Spec == Init /\ [][Next]_vars
=============================================================================
