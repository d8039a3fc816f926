---------------------------- MODULE WsFrameProofs ----------------------------
(***************************************************************************)
(* The frame codec reads what was sent, for every length of up to 65535.    *)
(***************************************************************************)
EXTENDS WebFrames, TLAPS

\* A length of two bytes is put together again.
LEMMA TwoBytes ==
  ASSUME NEW n \in Nat
  PROVE  (n \div 256) * 256 + (n % 256) = n
  BY SMT

\* What a header says: how long it is, and what it is the header of.
Says(h, n, opcode) ==
    /\ Size(h) \in Nat
    /\ Opcode(h) = opcode
    /\ Extended(h) \in {0, 2} /\ 2 + Extended(h) <= Offset(h)
    /\ Offset(h) = Size(h)
    /\ PayloadLen(h) = n

\* A length of up to 125 is in the second byte.
LEMMA OneByteHeader ==
  ASSUME NEW n \in Nat, n <= 125, NEW opcode \in Opcodes, NEW h \in Headers(n, opcode)
  PROVE  Says(h, n, opcode)
<1> DEFINE plain == Header(n, opcode)
<1>1. /\ plain = [first |-> 128 + opcode, second |-> n, more |-> <<>>, key |-> 0]
  BY SMT DEF Header
<1>2. CASE h = plain
  <2>1. h.first = 128 + opcode /\ h.second = n /\ h.more = <<>> /\ h.key = 0
    BY <1>1, <1>2
  <2>2. Short(h) = n /\ Len(h.more) = 0 /\ Opcode(h) = opcode
    BY SMT, <2>1 DEF Short, Opcode, Opcodes
  <2> QED
    BY SMT, <2>1, <2>2 DEF Says, Size, Extended, Offset, PayloadLen
<1>3. CASE h = MaskedHeader(n, opcode)
  <2>1. h.first = 128 + opcode /\ h.second = n + 128 /\ h.more = <<>> /\ h.key = 4
    BY SMT, <1>1, <1>3 DEF MaskedHeader
  <2>2. Short(h) = n /\ Len(h.more) = 0 /\ Opcode(h) = opcode
    BY SMT, <2>1 DEF Short, Opcode, Opcodes
  <2> QED
    BY SMT, <2>1, <2>2 DEF Says, Size, Extended, Offset, PayloadLen
<1> QED
  BY <1>2, <1>3 DEF Headers

\* A longer one is in the two bytes after it.
LEMMA TwoByteHeader ==
  ASSUME NEW n \in Nat, n > 125, n <= 65535,
         NEW opcode \in Opcodes, NEW h \in Headers(n, opcode)
  PROVE  Says(h, n, opcode)
<1> DEFINE plain == Header(n, opcode)
           bytes == <<n \div 256, n % 256>>
<1>1. plain = [first |-> 128 + opcode, second |-> 126, more |-> bytes, key |-> 0]
  BY SMT DEF Header
<1>2. Len(bytes) = 2 /\ bytes[1] * 256 + bytes[2] = n
  BY SMT, TwoBytes
<1> HIDE DEF bytes
<1>3. CASE h = plain
  <2>1. h.first = 128 + opcode /\ h.second = 126 /\ h.more = bytes /\ h.key = 0
    BY SMT, <1>1, <1>3
  <2>2. Short(h) = 126 /\ Opcode(h) = opcode
    BY SMT, <2>1 DEF Short, Opcode, Opcodes
  <2>3. PayloadLen(h) = n
    BY SMT, <1>2, <2>1, <2>2 DEF PayloadLen
  <2>4. Len(h.more) = 2 /\ Extended(h) = 2
    BY SMT, <1>2, <2>1, <2>2 DEF Extended
  <2> QED
    BY SMT, <2>1, <2>2, <2>3, <2>4 DEF Says, Size, Offset
<1>4. CASE h = MaskedHeader(n, opcode)
  <2>1. h.first = 128 + opcode /\ h.second = 254 /\ h.more = bytes /\ h.key = 4
    BY SMT, <1>1, <1>4 DEF MaskedHeader
  <2>2. Short(h) = 126 /\ Opcode(h) = opcode
    BY SMT, <2>1 DEF Short, Opcode, Opcodes
  <2>3. PayloadLen(h) = n
    BY SMT, <1>2, <2>1, <2>2 DEF PayloadLen
  <2>4. Len(h.more) = 2 /\ Extended(h) = 2
    BY SMT, <1>2, <2>1, <2>2 DEF Extended
  <2> QED
    BY SMT, <2>1, <2>2, <2>3, <2>4 DEF Says, Size, Offset
<1> QED
  BY <1>3, <1>4 DEF Headers

\* What any header says.
LEMMA HeaderSays ==
  ASSUME NEW n \in FrameLengths, NEW opcode \in Opcodes, NEW h \in Headers(n, opcode)
  PROVE  n \in Nat /\ Says(h, n, opcode)
<1>1. n \in Nat /\ n <= 65535
  BY SMT, FrameAssumption
<1>2. CASE n <= 125
  BY SMT, <1>1, <1>2, OneByteHeader
<1>3. CASE n > 125
  BY SMT, <1>1, <1>3, TwoByteHeader
<1> QED
  BY SMT, <1>1, <1>2, <1>3

\* Every frame, text or close, is read as what was sent.
LEMMA AllReadWhole == ReadWhole = Opcodes
<1> SUFFICES ASSUME NEW n \in FrameLengths, NEW opcode \in Opcodes,
                    NEW h \in Headers(n, opcode)
             PROVE  /\ Parse(h, Size(h) + n) = Size(h) + n
                    /\ Offset(h) = Size(h)
                    /\ PayloadLen(h) = n
                    /\ Opcode(h) = opcode
  BY DEF ReadWhole
<1>1. n \in Nat /\ Says(h, n, opcode)
  BY HeaderSays
<1>2. Parse(h, Size(h) + n) = Size(h) + n
  BY SMT, <1>1 DEF Says, Parse, Below
<1> QED
  BY <1>1, <1>2 DEF Says

\* No first part of one is taken for a frame.
LEMMA NoneReadFromHead == NeverReadFromHead = Opcodes
<1> SUFFICES ASSUME NEW n \in FrameLengths, NEW opcode \in Opcodes,
                    NEW h \in Headers(n, opcode), NEW len \in 0..(Size(h) + n - 1)
             PROVE  Parse(h, len) = NoFrame
  BY DEF NeverReadFromHead
<1>1. n \in Nat /\ Says(h, n, opcode)
  BY HeaderSays
<1> QED
  BY SMT, <1>1 DEF Says, Parse, Below

\* The two kinds of frame have the opcodes the codec is about.
LEMMA FrameOpcodes ==
  ASSUME NEW f \in FramesQueued
  PROVE  OpcodeOf(f) \in Opcodes
  BY DEF OpcodeOf, Opcodes

\* A frame received whole is read as what was sent, for every length up to 65535
\* and both ways of writing it, masked or not.
THEOREM WholeFrames == Spec => []WholeFrameIsRead
<1>1. WholeFrameIsRead
  BY AllReadWhole, FrameOpcodes DEF WholeFrameIsRead
<1> QED
  BY <1>1, PTL

\* The first part of a frame is never taken for one, wherever recv() stopped; of the
\* rest nothing is said.
THEOREM Heads == Spec => []HeadIsNoFrame
<1>1. HeadIsNoFrame
  BY NoneReadFromHead DEF HeadIsNoFrame
<1> QED
  BY <1>1, PTL
=============================================================================
