------------------------------ MODULE MCModbus ------------------------------
(* Instances of ModbusServer for TLC. *)
EXTENDS ModbusServer, TLC

CONSTANTS c1, c2, c3

Ask(c, op, v) == [by |-> c, op |-> op, value |-> v]

\* Who writes is not who reads, and somebody asks what is refused and what is
\* another unit's.
ThreeMasters ==
    {Ask(c1, "write", 1), Ask(c2, "read", 0),
     Ask(c3, "far", 0), Ask(c3, "alien", 0)}

\* A client that reads leaves as it should, those that write or ask for the
\* impossible reset their connection.
Leaving == {<<c1, "rst">>, <<c2, "fin">>, <<c3, "rst">>}

\* One master writes, a register or many coils; the other reads.
TwoMasters == {Ask(c1, "write", 1), Ask(c1, "many", 0), Ask(c1, "many", 1), Ask(c2, "read", 0)}
=============================================================================
