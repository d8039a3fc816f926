------------------------------- MODULE WsFrame -------------------------------
(***************************************************************************)
(* The WebSocket frame codec of Core/Src/freertos.c: create_ws_frame()      *)
(* builds what the server sends, parse_ws_frame() reads what recv() took    *)
(* in one call, which may be the first part of a frame only.               *)
(*                                                                         *)
(* A header is its first two bytes, the further bytes of the length, and   *)
(* how many bytes of masking key follow; of the payload only the number of *)
(* bytes matters.                                                          *)
(***************************************************************************)
EXTENDS Integers, Sequences

CONSTANT FrameLengths   \* lengths of payloads

\* Longer ones are never sent: the only buffers have 128 and 256 bytes.
ASSUME FrameAssumption == \A n \in FrameLengths : n \in Nat /\ n <= 65535

Opcodes == {1, 8}       \* text and close, those the thread tells apart

NoFrame == -1

----------------------------------------------------------------------------
(* create_ws_frame(): FIN and opcode, then the length in one, three or     *)
(* nine bytes, in network order.                                           *)

\* Mutant of Header: the two bytes of a longer length are swapped.
HeaderSwapped(n, opcode) ==
    [first  |-> 128 + opcode,
     second |-> IF n <= 125 THEN n ELSE IF n <= 65535 THEN 126 ELSE 127,
     more   |-> IF n <= 125 THEN <<>>
                ELSE IF n <= 65535 THEN <<n % 256, n \div 256>>
                ELSE <<0, 0, 0, 0, n \div 2^24, (n \div 2^16) % 256,
                       (n \div 256) % 256, n % 256>>,
     key    |-> 0]

Header(n, opcode) ==
    [first  |-> 128 + opcode,
     second |-> IF n <= 125 THEN n ELSE IF n <= 65535 THEN 126 ELSE 127,
     more   |-> IF n <= 125 THEN <<>>
                ELSE IF n <= 65535 THEN <<n \div 256, n % 256>>
                ELSE <<0, 0, 0, 0, n \div 2^24, (n \div 2^16) % 256,
                       (n \div 256) % 256, n % 256>>,
     key    |-> 0]

\* What a client sends has the mask bit set, and a key of four bytes.
MaskedHeader(n, opcode) == [Header(n, opcode) EXCEPT !.second = @ + 128, !.key = 4]

Headers(n, opcode) == {Header(n, opcode), MaskedHeader(n, opcode)}

Size(h) == 2 + Len(h.more) + h.key

----------------------------------------------------------------------------
(* parse_ws_frame()                                                        *)

Opcode(h) == h.first % 16

Short(h) == h.second % 128

\* How many bytes of length are looked for behind the first two.
Extended(h) == IF Short(h) = 126 THEN 2 ELSE IF Short(h) = 127 THEN 8 ELSE 0

\* Mutant of Offset: the masking key is not skipped.
OffsetUnmasked(h) == 2 + Extended(h)

\* Where the payload is taken to start.
Offset(h) == 2 + Extended(h) + (IF h.second >= 128 THEN 4 ELSE 0)

\* payload_len: of a length of 64 bits, the upper half, put together as an int.
PayloadLen(h) ==
    IF Short(h) < 126 THEN Short(h)
    ELSE IF Short(h) = 126 THEN h.more[1] * 256 + h.more[2]
    ELSE (IF h.more[1] < 128 THEN h.more[1] ELSE h.more[1] - 256) * 2^24
         + h.more[2] * 2^16 + h.more[3] * 256 + h.more[4]

\* len < x, where x is of 64 bits without a sign.
Below(len, x) == x < 0 \/ len < x

\* What is returned for the first len bytes of a frame.
Parse(h, len) ==
    IF \/ len < 2
       \/ len < 2 + Extended(h)
       \/ len < Offset(h)
       \/ Below(len, Offset(h) + PayloadLen(h))
    THEN NoFrame
    ELSE Offset(h) + PayloadLen(h)

----------------------------------------------------------------------------

\* The opcodes of which a frame received whole is read as what was sent,
\* whichever way its length is written and whether or not it is masked: length,
\* opcode and all of it.
ReadWhole ==
    {opcode \in Opcodes : \A n \in FrameLengths : \A h \in Headers(n, opcode) :
        /\ Parse(h, Size(h) + n) = Size(h) + n
        /\ Offset(h) = Size(h)
        /\ PayloadLen(h) = n
        /\ Opcode(h) = opcode}

\* The opcodes of which no first part of a frame is taken for a frame: recv() may
\* stop anywhere, in the length or the key too.
NeverReadFromHead ==
    {opcode \in Opcodes : \A n \in FrameLengths : \A h \in Headers(n, opcode) :
        \A len \in 0..(Size(h) + n - 1) : Parse(h, len) = NoFrame}
=============================================================================
