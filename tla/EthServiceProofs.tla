-------------------------- MODULE EthServiceProofs --------------------------
(***************************************************************************)
(* What the driver does for the stack while the link stays up: the receive  *)
(* path implements ReceiveService, and the transmit path loses no wake-up   *)
(* of a sender and leaves nothing behind for the next.                      *)
(***************************************************************************)
EXTENDS EthRestartProofs, SequenceTheorems

USE EthRxAssumption, EthTxAssumption, EthDriverAssumption

----------------------------------------------------------------------------
(* The frames that wait, as the service sees them.                         *)

\* The number of frames in a ring that is given by its parts.
Count(r, owned, buffers) ==
    CHOOSE n \in 0..RxDescs :
        /\ \A k \in 0..(n - 1) : ~owned[(r + k) % RxDescs] /\ buffers[(r + k) % RxDescs] # NoBuf
        /\ n < RxDescs =>
             ~(~owned[(r + n) % RxDescs] /\ buffers[(r + n) % RxDescs] # NoBuf)

\* The first n of them, from r on.
Frames(n, r, buffers) == [k \in 1..n |-> buffers[Around(r, k - 1)]]

\* A ring in order holds as many frames as its first part has descriptors.
LEMMA CountIs ==
  ASSUME NEW n \in 0..RxDescs, NEW r \in Descs, NEW owned, NEW buffers,
         NEW b, NEW cnt \in 0..RxDescs, NEW d,
         Ordered(n, r, owned, buffers, b, cnt, d)
  PROVE  Count(r, owned, buffers) = n
<1> DEFINE U(k) == ~owned[(r + k) % RxDescs] /\ buffers[(r + k) % RxDescs] # NoBuf
           P(m) == (\A k \in 0..(m - 1) : U(k)) /\ (m < RxDescs => ~U(m))
<1>1. \A k \in 0..(RxDescs - 1) :
        /\ k < n => U(k)
        /\ k >= n => ~U(k)
  <2> SUFFICES ASSUME NEW k \in 0..(RxDescs - 1)
               PROVE  (k < n => U(k)) /\ (k >= n => ~U(k))
    OBVIOUS
  <2>1. (r + k) % RxDescs = Around(r, k)
    BY AroundIs
  <2>2. k >= n => k \in n..(RxDescs - cnt - 1) \/ k >= RxDescs - cnt
    OBVIOUS
  <2> QED
    BY <2>1, <2>2 DEF Ordered
<1> HIDE DEF U
<1>2. P(n)
  BY <1>1
<1>3. \A m \in 0..RxDescs : P(m) => m = n
  BY <1>1
<1>4. Count(r, owned, buffers) = CHOOSE m \in 0..RxDescs : P(m)
  BY DEF Count, U
<1> HIDE DEF P
<1> QED
  BY <1>2, <1>3, <1>4

\* So the frames that wait, before a step ...
LEMMA ArrivedIs ==
  ASSUME RxTypeOK, NEW n \in 0..RxDescs, RingOrdered(n)
  PROVE  Arrived = Frames(n, RxDescIdx, buf)
<1>1. Waiting = Count(RxDescIdx, own, buf)
  BY DEF Waiting, Count, Unread
<1>2. Waiting = n
  BY <1>1, CountIs DEF RxTypeOK, RingOrdered
<1>3. \A k \in 1..n : (RxDescIdx + k - 1) % RxDescs = Around(RxDescIdx, k - 1)
  <2> SUFFICES ASSUME NEW k \in 1..n
               PROVE  (RxDescIdx + k - 1) % RxDescs = Around(RxDescIdx, k - 1)
    OBVIOUS
  <2>1. k - 1 \in 0..RxDescs /\ RxDescIdx + k - 1 = RxDescIdx + (k - 1)
    BY DEF RxTypeOK, Descs
  <2> QED
    BY <2>1, AroundIs DEF RxTypeOK
<1> QED
  BY <1>2, <1>3 DEF Arrived, Frames

\* ... and after it.
LEMMA ArrivedIsNext ==
  ASSUME RxTypeOK', NEW n \in 0..RxDescs, RingOrdered(n)'
  PROVE  Arrived' = Frames(n, RxDescIdx', buf')
<1>1. Waiting' = Count(RxDescIdx', own', buf')
  BY DEF Waiting, Count, Unread
<1>2. Waiting' = n
  BY <1>1, CountIs DEF RxTypeOK, RingOrdered
<1>3. \A k \in 1..n : (RxDescIdx' + k - 1) % RxDescs = Around(RxDescIdx', k - 1)
  <2> SUFFICES ASSUME NEW k \in 1..n
               PROVE  (RxDescIdx' + k - 1) % RxDescs = Around(RxDescIdx', k - 1)
    OBVIOUS
  <2>1. k - 1 \in 0..RxDescs /\ RxDescIdx' + k - 1 = RxDescIdx' + (k - 1)
    BY DEF RxTypeOK, Descs
  <2> QED
    BY <2>1, AroundIs DEF RxTypeOK
<1> QED
  BY <1>2, <1>3 DEF Arrived, Frames

\* The frames are a sequence of what is attached.
LEMMA FramesSeq ==
  ASSUME NEW n \in 0..RxDescs, NEW r \in Descs,
         NEW buffers \in [Descs -> Buffers \cup {NoBuf}]
  PROVE  /\ Frames(n, r, buffers) \in Seq(Buffers \cup {NoBuf})
         /\ Len(Frames(n, r, buffers)) = n
         /\ \A k \in 1..n : Frames(n, r, buffers)[k] = buffers[Around(r, k - 1)]
<1>1. \A k \in 1..n : Around(r, k - 1) \in Descs
  BY DEF Around, Descs
<1>2. n \in Nat
  OBVIOUS
<1> QED
  BY <1>1, <1>2 DEF Frames

\* One more frame is appended; ...
LEMMA FramesAppend ==
  ASSUME NEW n \in 0..(RxDescs - 1), NEW r \in Descs,
         NEW buffers \in [Descs -> Buffers \cup {NoBuf}]
  PROVE  Frames(n + 1, r, buffers) = Append(Frames(n, r, buffers), buffers[Around(r, n)])
<1> DEFINE s == Frames(n, r, buffers)
           t == Frames(n + 1, r, buffers)
           S == Buffers \cup {NoBuf}
           e == buffers[Around(r, n)]
<1>1. /\ s \in Seq(S) /\ Len(s) = n
      /\ \A k \in 1..n : s[k] = buffers[Around(r, k - 1)]
  BY FramesSeq
<1>2. n + 1 \in 0..RxDescs
  OBVIOUS
<1>3. /\ t \in Seq(S) /\ Len(t) = n + 1
      /\ \A k \in 1..(n + 1) : t[k] = buffers[Around(r, k - 1)]
  BY <1>2, FramesSeq
<1>4. e \in S
  BY DEF Around, Descs
<1> HIDE DEF s, t, S
<1> DEFINE a == Append(s, e)
<1>5. /\ a \in Seq(S) /\ Len(a) = n + 1
      /\ \A k \in 1..n : a[k] = s[k]
      /\ a[n + 1] = e
  BY <1>1, <1>4
<1> HIDE DEF a
<1>6. \A k \in 1..(n + 1) : t[k] = a[k]
  <2> SUFFICES ASSUME NEW k \in 1..(n + 1) PROVE t[k] = a[k]
    OBVIOUS
  <2>1. t[k] = buffers[Around(r, k - 1)]
    BY <1>3
  <2>2. CASE k = n + 1
    BY <1>5, <2>1, <2>2
  <2>3. CASE k # n + 1
    <3>1. k \in 1..n
      BY <2>3
    <3> QED
      BY <1>1, <1>5, <2>1, <3>1
  <2> QED
    BY <2>2, <2>3
<1>7. t = a
  BY <1>3, <1>5, <1>6, SeqEqual
<1> QED
  BY <1>7 DEF s, t, a

\* ... taking the first one leaves the tail, wherever its buffer went.
LEMMA FramesTail ==
  ASSUME NEW n \in 1..RxDescs, NEW r \in Descs,
         NEW buffers \in [Descs -> Buffers \cup {NoBuf}],
         NEW left \in [Descs -> Buffers \cup {NoBuf}],
         \A k \in 1..(n - 1) : left[Around(r, k)] = buffers[Around(r, k)]
  PROVE  /\ Frames(n, r, buffers) # <<>>
         /\ Head(Frames(n, r, buffers)) = buffers[r]
         /\ Frames(n - 1, Next1(r), left) = Tail(Frames(n, r, buffers))
<1> DEFINE s == Frames(n, r, buffers)
           t == Frames(n - 1, Next1(r), left)
           S == Buffers \cup {NoBuf}
<1>1. /\ s \in Seq(S) /\ Len(s) = n
      /\ \A k \in 1..n : s[k] = buffers[Around(r, k - 1)]
  BY FramesSeq
<1>2. n - 1 \in 0..RxDescs /\ Next1(r) \in Descs /\ Next1(r) = Around(r, 1)
  BY NextInRing, AroundIs DEF Next1
<1>3. /\ t \in Seq(S) /\ Len(t) = n - 1
      /\ \A k \in 1..(n - 1) : t[k] = left[Around(Next1(r), k - 1)]
  BY <1>2, FramesSeq
<1>4. \A k \in 1..(n - 1) : Around(Next1(r), k - 1) = Around(r, k)
  BY <1>2 DEF Around, Descs
<1>5. Around(r, 0) = r
  BY DEF Around, Descs
<1> HIDE DEF s, t, S
<1>6. s # <<>> /\ Head(s) = buffers[r]
  <2>1. s # <<>>
    BY <1>1, EmptySeq
  <2>2. Head(s) = s[1] /\ 1 \in 1..n /\ 1 - 1 = 0
    BY <1>1
  <2>3. s[1] = buffers[Around(r, 1 - 1)]
    BY <1>1, <2>2
  <2> QED
    BY <1>5, <2>1, <2>2, <2>3
<1>7. /\ Tail(s) \in Seq(S) /\ Len(Tail(s)) = n - 1
      /\ \A k \in 1..(n - 1) : Tail(s)[k] = s[k + 1]
  BY <1>1, <1>6, HeadTailProperties
<1>8. \A k \in 1..(n - 1) : t[k] = Tail(s)[k]
  <2> SUFFICES ASSUME NEW k \in 1..(n - 1) PROVE t[k] = Tail(s)[k]
    OBVIOUS
  <2>1. k + 1 \in 1..n /\ k + 1 - 1 = k
    OBVIOUS
  <2>2. s[k + 1] = buffers[Around(r, k + 1 - 1)]
    BY <1>1, <2>1
  <2>3. t[k] = left[Around(r, k)]
    BY <1>3, <1>4
  <2> QED
    BY <1>7, <2>1, <2>2, <2>3
<1>9. t = Tail(s)
  BY <1>3, <1>7, <1>8, SeqEqual
<1> QED
  BY <1>6, <1>9 DEF s, t

----------------------------------------------------------------------------
(* The receive path implements ReceiveService.                             *)

\* A rebuild replaces no buffer that is attached.
LEMMA UpdateKeeps ==
  ASSUME NEW buffers \in [Descs -> Buffers \cup {NoBuf}], NEW count \in 0..RxDescs,
         UpdateDescriptor(buffers, count),
         NEW i \in Descs, buffers[i] # NoBuf
  PROVE  buf'[i] = buffers[i]
<1>1. PICK n \in 0..count : Attach(buffers, n)
  BY DEF UpdateDescriptor
<1>2. PICK new \in Injection(Bare(buffers, n), pool) :
        buf' = [d \in Descs |-> IF d \in DOMAIN new THEN new[d] ELSE buffers[d]]
  BY <1>1 DEF Attach
<1>3. DOMAIN new = Bare(buffers, n)
  BY <1>2 DEF Injection, IsInjective
<1> QED
  BY <1>2, <1>3 DEF Bare

\* HAL_ETH_ReadData() passes the oldest frame up, and a rebuild none.
LEMMA ReadServes ==
  ASSUME TypeOK, TypeOK', NEW n \in 0..RxDescs, RingOrdered(n)
  PROVE  /\ EthIfRead => Receive!PassUp
         /\ EthIfRebuild => UNCHANGED <<Arrived, held>>
<1>0. /\ RxTypeOK /\ RxTypeOK' /\ RxDescIdx \in Descs
      /\ buf \in [Descs -> Buffers \cup {NoBuf}]
      /\ buf' \in [Descs -> Buffers \cup {NoBuf}]
      /\ RxBuildDescCnt \in 0..RxDescs
  BY DEF TypeOK, RxTypeOK
<1>1. Arrived = Frames(n, RxDescIdx, buf)
  BY <1>0, ArrivedIs
<1>2. \A k \in 0..(n - 1) : /\ Around(RxDescIdx, k) \in Descs
                            /\ buf[Around(RxDescIdx, k)] # NoBuf
  BY <1>0, AroundIs DEF RingOrdered, Ordered
<1>3. ASSUME EthIfRead
      PROVE  Receive!PassUp
  <2> DEFINE left == [buf EXCEPT ![RxDescIdx] = NoBuf]
  <2>1. n - 1 \in 0..RxDescs /\ RingOrdered(n - 1)'
    BY <1>3, ReadOrdered
  <2>2. Arrived' = Frames(n - 1, RxDescIdx', buf')
    BY <1>0, <2>1, ArrivedIsNext
  <2>3. /\ UpdateDescriptor(left, RxBuildDescCnt + 1)
        /\ left \in [Descs -> Buffers \cup {NoBuf}]
        /\ RxBuildDescCnt + 1 \in 0..RxDescs
        /\ RxDescIdx' = Next1(RxDescIdx)
        /\ held' = held \cup {buf[RxDescIdx]}
    BY <1>0, <1>3 DEF EthIfRead, FrameReady
  <2>4. \A i \in Descs : i # RxDescIdx => left[i] = buf[i]
    BY <1>0
  <2> HIDE DEF left
  <2>5. ASSUME NEW k \in 1..(n - 1)
        PROVE  buf'[Around(RxDescIdx, k)] = buf[Around(RxDescIdx, k)]
    <3>1. Around(RxDescIdx, k) # RxDescIdx
      BY <1>0 DEF Around, Descs
    <3>2. /\ Around(RxDescIdx, k) \in Descs /\ buf[Around(RxDescIdx, k)] # NoBuf
          /\ left[Around(RxDescIdx, k)] = buf[Around(RxDescIdx, k)]
      BY <1>2, <2>4, <3>1
    <3> QED
      BY <2>3, <3>2, UpdateKeeps
  <2>6. n \in 1..RxDescs
    BY <2>1
  <2>7. /\ Frames(n, RxDescIdx, buf) # <<>>
        /\ Head(Frames(n, RxDescIdx, buf)) = buf[RxDescIdx]
        /\ Frames(n - 1, Next1(RxDescIdx), buf') = Tail(Frames(n, RxDescIdx, buf))
    <3>1. \A k \in 1..(n - 1) : buf'[Around(RxDescIdx, k)] = buf[Around(RxDescIdx, k)]
      BY <2>5
    <3> QED
      BY ONLY <1>0, <2>6, <3>1, FramesTail
  <2> QED
    BY <1>1, <2>2, <2>3, <2>7 DEF Receive!PassUp
<1>4. ASSUME EthIfRebuild
      PROVE  UNCHANGED <<Arrived, held>>
  <2>1. RingOrdered(n)'
    BY <1>4, ReadOrdered
  <2>2. Arrived' = Frames(n, RxDescIdx', buf')
    BY <1>0, <2>1, ArrivedIsNext
  <2>3. /\ UpdateDescriptor(buf, RxBuildDescCnt)
        /\ RxDescIdx' = RxDescIdx /\ held' = held
    BY <1>4 DEF EthIfRebuild
  <2>4. ASSUME NEW k \in 1..n
        PROVE  buf'[Around(RxDescIdx, k - 1)] = buf[Around(RxDescIdx, k - 1)]
    <3>1. k - 1 \in 0..(n - 1)
      OBVIOUS
    <3> QED
      BY <1>0, <1>2, <2>3, <3>1, UpdateKeeps
  <2>5. Frames(n, RxDescIdx, buf') = Frames(n, RxDescIdx, buf)
    BY <2>4 DEF Frames
  <2> QED
    BY <1>1, <2>2, <2>3, <2>5
<1> QED
  BY <1>3, <1>4

\* The DMA writes a frame into a buffer that nobody has: none the stack has still to
\* free, and none that waits in the ring.
LEMMA ReceiveServes ==
  ASSUME TypeOK, TypeOK', BuffersConserved, DmaHasBuffer,
         NEW n \in 0..RxDescs, RingOrdered(n), DmaReceive
  PROVE  \E b \in Buffers : Receive!Arrive(b)
<1> DEFINE b == buf[dmaIdx]
<1>0. /\ RxTypeOK /\ RxTypeOK' /\ RxDescIdx \in Descs /\ dmaIdx \in Descs
      /\ buf \in [Descs -> Buffers \cup {NoBuf}]
  BY DEF TypeOK, RxTypeOK
<1>1. n + 1 \in 0..RxDescs /\ RingOrdered(n + 1)' /\ n \in 0..(RxDescs - 1)
  BY <1>0, ReceiveOrdered
<1>2. Arrived = Frames(n, RxDescIdx, buf)
  BY <1>0, ArrivedIs
<1>3. Arrived' = Frames(n + 1, RxDescIdx', buf')
  BY <1>0, <1>1, ArrivedIsNext
<1>4. /\ UNCHANGED <<buf, RxDescIdx, held>> /\ dmaOn /\ own[dmaIdx]
      /\ dmaIdx = Around(RxDescIdx, n)
  BY DEF DmaReceive, RingOrdered, Ordered
<1>5. Arrived' = Append(Arrived, b)
  BY <1>0, <1>1, <1>2, <1>3, <1>4, FramesAppend
<1>6. b # NoBuf /\ b \in Buffers
  BY <1>0, <1>4 DEF DmaHasBuffer
<1>7. b \notin held
  <2>1. b \in Attached
    BY <1>0, <1>6 DEF Attached, Range
  <2> QED
    BY <2>1 DEF BuffersConserved
<1>8. b \notin Receive!Waiting
  <2> SUFFICES ASSUME NEW k \in DOMAIN Arrived, Arrived[k] = b
               PROVE  FALSE
    BY DEF Receive!Waiting
  <2>1. k \in 1..n /\ Arrived[k] = buf[Around(RxDescIdx, k - 1)]
    BY <1>2 DEF Frames
  <2>2. /\ k - 1 \in 0..(RxDescs - 1) /\ k - 1 # n
        /\ Around(RxDescIdx, k - 1) \in Descs
    BY <1>0, <1>1, <2>1, AroundIs
  <2>3. Around(RxDescIdx, k - 1) = dmaIdx
    BY <1>0, <1>6, <2>1, <2>2 DEF BuffersConserved
  <2> QED
    BY <1>0, <1>1, <1>4, <2>2, <2>3, AroundOnce
<1> QED
  BY <1>4, <1>5, <1>6, <1>7, <1>8 DEF Receive!Arrive

\* Every step of the receive path is one of the service, or none.
LEMMA RxServes ==
  ASSUME TypeOK, TypeOK', CopyInv, DmaHasBuffer, RingInOrder, RxStep
  PROVE  Receive!Next \/ UNCHANGED <<Arrived, held>>
<1>0. PICK n \in 0..RxDescs : RingOrdered(n)
  BY OrderedIsRing DEF TypeOK
<1>1. CASE EthIfRead
  BY <1>0, <1>1, ReadServes DEF Receive!Next
<1>2. CASE EthIfRebuild
  BY <1>0, <1>2, ReadServes
<1>3. CASE DmaReceive
  BY <1>0, <1>3, ReceiveServes DEF CopyInv, Receive!Next
<1>4. ASSUME UNCHANGED ring
      PROVE  Arrived' = Arrived
  BY <1>4 DEF ring, Arrived, Waiting, Unread
<1>5. CASE EthIfDrop
  <2>1. /\ post \in held /\ post \in Buffers /\ held' = held \ {post}
        /\ UNCHANGED ring
    BY <1>5 DEF EthIfDrop, CopyInv, PostIsHeld, TypeOK, RxTypeOK
  <2> QED
    BY <1>4, <2>1 DEF Receive!Next, Receive!Free
<1>6. ASSUME NEW f \in Freers, FreeNext(f)
      PROVE  Receive!Next \/ UNCHANGED <<Arrived, held>>
  <2>1. ASSUME NEW b \in Buffers, FreeBuffer(f, b)
        PROVE  Receive!Next
    BY <1>4, <2>1 DEF FreeBuffer, Receive!Next, Receive!Free
  <2>2. CASE FreeCheck(f) \/ FreeSet(f) \/ FreeSignal(f)
    BY <1>4, <2>2 DEF FreeCheck, FreeSet, FreeSignal
  <2> QED
    BY <1>6, <2>1, <2>2 DEF FreeNext
<1>7. CASE UNCHANGED <<ring, held>>
  BY <1>4, <1>7
<1>8. EthIfWake \/ EthIfReadAgain \/ EthIfPost \/ EthIfNothing \/ DmaNoDescriptor
        \/ RxInterrupt => UNCHANGED <<ring, held>>
  BY DEF EthIfWake, EthIfReadAgain, EthIfPost, EthIfNothing, DmaNoDescriptor,
     RxInterrupt, rxVars, ring
<1> QED
  BY <1>1, <1>2, <1>3, <1>5, <1>6, <1>7, <1>8 DEF RxStep, RxNext, EthIfNext, RxHardware

\* While the link stays up, nothing else touches the ring or what was passed up.
LEMMA NextServes ==
  ASSUME "down" \notin PhyStates, TypeOK, TypeOK', CopyInv, DmaHasBuffer,
         StaysUp, RingInOrder, [Next]_vars
  PROVE  Receive!Next \/ UNCHANGED <<Arrived, held>>
<1>1. CASE RxStep
  BY <1>1, RxServes
<1>2. CASE UNCHANGED rxVars
  BY <1>2 DEF rxVars, Arrived, Waiting, Unread
<1>3. CoreStep \/ TxStep \/ PhyMove \/ Hog \/ UNCHANGED vars => UNCHANGED rxVars
  BY DEF CoreStep, TxStep, PhyMove, Hog, vars
<1>4. LinkNext => UNCHANGED rxVars
  BY OnlyWaits DEF LinkWait
<1> QED
  BY <1>1, <1>2, <1>3, <1>4 DEF Next, LinkStep

\* At boot no frame waits and none was passed up.
LEMMA InitServes ==
  ASSUME Init, linkUp, TypeOK
  PROVE  Receive!Init
<1>0. RxTypeOK /\ RxDescIdx \in Descs /\ buf \in [Descs -> Buffers \cup {NoBuf}]
  BY DEF TypeOK, RxTypeOK
<1>1. PICK n \in 0..RxDescs : RingOrdered(n)
  BY <1>0, InitOrder, OrderedIsRing
<1>2. \A i \in Descs : own[i]
  BY DEF Init, RxInit
<1>3. n = 0
  BY <1>0, <1>1, <1>2, AllOwnedAligns
<1>4. Arrived = Frames(0, RxDescIdx, buf) /\ 0 \in 0..RxDescs
  BY <1>0, <1>1, <1>3, ArrivedIs
<1>5. Arrived \in Seq(Buffers \cup {NoBuf}) /\ Len(Arrived) = 0
  BY <1>0, <1>4, FramesSeq
<1>6. Arrived = <<>>
  BY <1>5, EmptySeq
<1> QED
  BY <1>6 DEF Receive!Init, Init, RxInit

\* While the link stays up the ring, the pool and the threads that free implement
\* ReceiveService, for any number of descriptors, buffers and threads: frames are
\* passed up in the order they came, each once, and the DMA writes into no buffer
\* that waits or that the stack has.
THEOREM ReceiveImplemented ==
  ASSUME "down" \notin PhyStates
  PROVE  Spec => ReceiveKept
<1>1. Init /\ TypeOK => Receive!Init
  BY InitServes DEF Init
<1>2. /\ TypeOK /\ TypeOK' /\ CopyInv /\ DmaHasBuffer /\ StaysUp /\ RingInOrder
      /\ [Next]_vars
      => [Receive!Next]_(Receive!vars)
  BY NextServes DEF Receive!vars
<1>3. Init => CopyInv
  BY InitConserves
<1>4. TypeOK /\ TypeOK' /\ CopyInv /\ [Next]_vars => CopyInv'
  BY NextConserves
<1> QED
  BY <1>1, <1>2, <1>3, <1>4, DriverTypeCorrect, DmaNeverBare, OrderWhileUp, PTL
     DEF Spec, ReceiveKept, Receive!Spec

----------------------------------------------------------------------------
(* One sender at a time, each woken by its own frame.                      *)

\* The MAC runs and the link thread sends nothing.
TxUp ==
    /\ StaysUp
    /\ gState = "started" /\ dmaOn /\ irqOn
    /\ tpc["link"] = "idle"

\* From idle to idle there is one frame at most, one interrupt for it, and one token
\* or a waiting sender for the interrupt.
OneAtATime ==
    \/ /\ tpc["core"] = "idle"
       /\ txRing = <<>> /\ ~txIrq /\ ~TxPktSemaphore
    \/ /\ tpc["core"] \in {"sent", "wait"}
       /\ txRing = <<FALSE>> /\ ~txIrq /\ ~TxPktSemaphore
    \/ /\ tpc["core"] \in {"sent", "wait"}
       /\ txRing = <<TRUE>> /\ txIrq /\ ~TxPktSemaphore
    \/ /\ tpc["core"] = "sent"
       /\ txRing = <<TRUE>> /\ ~txIrq /\ TxPktSemaphore
    \/ /\ tpc["core"] = "got"
       /\ txRing = <<TRUE>> /\ ~txIrq /\ ~TxPktSemaphore

TxInv == TxUp /\ OneAtATime

\* low_level_init() starts the MAC; nothing was sent.
LEMMA InitOneAtATime ==
  ASSUME "down" \notin PhyStates, Init
  PROVE  TxInv
<1>1. phy # "down" /\ linkUp /\ lpc = "poll" /\ MacInit(linkUp) /\ TxInit
  BY DEF Init
<1> QED
  BY <1>1 DEF MacInit, TxInit, TxInv, TxUp, OneAtATime, StaysUp, Senders

\* low_level_output() in the thread that holds the core lock.
LEMMA SendsOneAtATime ==
  ASSUME TxTypeOK, TxInv, CoreSends
  PROVE  OneAtATime' /\ UNCHANGED macVars /\ tpc'["link"] = tpc["link"]
<1> USE DEF TxInv, TxUp, TxTypeOK, Senders
<1>1. CASE Transmit("core")
  <2>1. txRing = <<>> /\ ~txIrq /\ ~TxPktSemaphore
    BY <1>1 DEF Transmit, OneAtATime
  <2>2. txRing' = <<FALSE>>
    BY <1>1, <2>1 DEF Transmit
  <2> QED
    BY <1>1, <2>1, <2>2 DEF Transmit, OneAtATime, macVars
<1>2. CASE TxAcquire("core")
  BY <1>2 DEF TxAcquire, OneAtATime, macVars
<1>3. CASE ReleaseTxPacket("core")
  <2>1. txRing = <<TRUE>> /\ ~txIrq /\ ~TxPktSemaphore
    BY <1>3 DEF ReleaseTxPacket, OneAtATime
  <2>2. PICK n \in 0..Len(txRing) :
          /\ n < Len(txRing) => ~txRing[n + 1]
          /\ txRing' = SubSeq(txRing, n + 1, Len(txRing))
    BY <1>3 DEF ReleaseTxPacket
  <2>3. Len(txRing) = 1 /\ txRing[1]
    BY ONLY <2>1
  <2>4. n = 1
    <3>1. n \in {0, 1}
      BY ONLY <2>3
    <3>2. CASE n = 0
      BY ONLY <2>2, <2>3, <3>2
    <3> QED
      BY ONLY <3>1, <3>2
  <2>5. txRing' = <<>>
    BY <2>2, <2>3, <2>4, SubSeqEmpty
  <2> QED
    BY <1>3, <2>1, <2>5 DEF ReleaseTxPacket, OneAtATime, macVars
<1> QED
  BY <1>1, <1>2, <1>3 DEF CoreSends

\* The DMA sends the frame, and its interrupt brings the token or wakes the sender.
LEMMA HardwareOneAtATime ==
  ASSUME TxTypeOK, TxInv, TxHardware
  PROVE  OneAtATime' /\ UNCHANGED <<gState, dmaOn, irqOn>> /\ tpc'["link"] = tpc["link"]
<1> USE DEF TxInv, TxUp, TxTypeOK, Senders
<1>1. CASE DmaTransmit
  <2>1. PICK i \in 1..Len(txRing) :
          ~txRing[i] /\ txRing' = [txRing EXCEPT ![i] = TRUE]
    BY <1>1 DEF DmaTransmit
  <2>2. txRing # <<>> /\ txRing # <<TRUE>>
    <3>1. CASE txRing = <<>>
      BY ONLY <2>1, <3>1
    <3>2. CASE txRing = <<TRUE>>
      <4>1. i = 1 /\ txRing[1]
        BY ONLY <3>2
      <4> QED
        BY ONLY <2>1, <4>1
    <3> QED
      BY <3>1, <3>2
  <2>3. /\ tpc["core"] \in {"sent", "wait"}
        /\ txRing = <<FALSE>> /\ ~TxPktSemaphore
    BY <2>2 DEF OneAtATime
  <2>4. txRing' = <<TRUE>>
    <3>1. /\ <<FALSE>> \in Seq(BOOLEAN) /\ Len(<<FALSE>>) = 1
          /\ <<TRUE>> \in Seq(BOOLEAN) /\ Len(<<TRUE>>) = 1
      OBVIOUS
    <3>2. i = 1
      BY ONLY <2>3
    <3>3. txRing' = [<<FALSE>> EXCEPT ![1] = TRUE]
      BY ONLY <2>1, <2>3, <3>2, Zenon
    <3>4. /\ txRing' \in Seq(BOOLEAN) /\ Len(txRing') = 1
          /\ txRing'[1] = <<TRUE>>[1]
      BY ONLY <3>1, <3>3, ExceptSeq
    <3>5. \A j \in 1..Len(txRing') : txRing'[j] = <<TRUE>>[j]
      <4>1. \A j \in 1..1 : j = 1
        OBVIOUS
      <4> QED
        BY ONLY <3>4, <4>1, Zenon
    <3>6. Len(txRing') = Len(<<TRUE>>)
      BY ONLY <3>1, <3>4, Zenon
    <3> QED
      BY ONLY <3>1, <3>4, <3>5, <3>6, SeqEqual, Zenon
  <2> QED
    BY <1>1, <2>3, <2>4 DEF DmaTransmit, OneAtATime
<1>2. CASE TxInterrupt
  <2>1. /\ tpc["core"] \in {"sent", "wait"}
        /\ txRing = <<TRUE>> /\ ~TxPktSemaphore
    BY <1>2 DEF TxInterrupt, OneAtATime
  <2>2. ~TokenTo("link")
    BY DEF TokenTo
  <2>3. CASE tpc["core"] = "wait"
    <3>1. TokenTo("core")
      BY <1>2, <2>2, <2>3 DEF TxInterrupt
    <3> QED
      BY <1>2, <2>1, <3>1 DEF TxInterrupt, TokenTo, OneAtATime
  <2>4. CASE tpc["core"] = "sent"
    <3>1. TxPktSemaphore' = TRUE /\ UNCHANGED tpc
      BY <1>2, <2>2, <2>4 DEF TxInterrupt, TokenTo
    <3> QED
      BY <1>2, <2>1, <2>4, <3>1 DEF TxInterrupt, OneAtATime
  <2> QED
    BY <2>1, <2>3, <2>4
<1> QED
  BY <1>1, <1>2 DEF TxHardware

\* The receive path leaves the transmit side alone, and the link thread, which has
\* nothing to announce, waits for no token.
LEMMA NextOneAtATime ==
  ASSUME "down" \notin PhyStates, TypeOK, TypeOK', TxInv, [Next]_vars
  PROVE  TxInv'
<1>1. ASSUME UNCHANGED <<txVars, linkUp, lpc, gState, dmaOn, irqOn, txIrq>>
      PROVE  TxInv'
  BY <1>1 DEF txVars, TxInv, TxUp, OneAtATime, StaysUp
<1>2. CASE RxStep
  <2>1. UNCHANGED <<gState, dmaOn, irqOn, txIrq>>
    BY <1>2 DEF RxStep, RxNext, EthIfNext, RxHardware, EthIfWake, EthIfRead,
       EthIfReadAgain, EthIfPost, EthIfDrop, EthIfRebuild, EthIfNothing, DmaReceive,
       DmaNoDescriptor, RxInterrupt, FreeNext, FreeBuffer, FreeCheck, FreeSet,
       FreeSignal, macVars
  <2> QED
    BY <1>1, <1>2, <2>1 DEF RxStep, linkVars
<1>3. CASE CoreStep
  <2>1. OneAtATime' /\ UNCHANGED macVars /\ tpc'["link"] = tpc["link"]
    BY <1>3, SendsOneAtATime DEF CoreStep, TypeOK
  <2> QED
    BY <1>3, <2>1 DEF CoreStep, linkVars, macVars, TxInv, TxUp, StaysUp
<1>4. CASE TxStep
  <2>1. OneAtATime' /\ UNCHANGED <<gState, dmaOn, irqOn>> /\ tpc'["link"] = tpc["link"]
    BY <1>4, HardwareOneAtATime DEF TxStep, TypeOK
  <2> QED
    BY <1>4, <2>1 DEF TxStep, linkVars, TxInv, TxUp, StaysUp
<1>5. CASE PhyMove \/ Hog \/ UNCHANGED vars
  BY <1>1, <1>5 DEF PhyMove, Hog, vars, macVars, linkVars
<1>6. CASE LinkNext
  <2>1. LinkWait
    BY <1>6, OnlyWaits DEF TxInv, TxUp
  <2> QED
    BY <2>1 DEF LinkWait, TxAcquire, TxInv, TxUp
<1> QED
  BY <1>2, <1>3, <1>4, <1>5, <1>6 DEF Next, LinkStep

\* The transmit side, and with it both properties, while the link stays up.
LEMMA OneAtATimeWhileUp ==
  ASSUME "down" \notin PhyStates
  PROVE  Spec => []TxInv
<1>1. Init => TxInv
  BY InitOneAtATime
<1>2. TypeOK /\ TypeOK' /\ TxInv /\ [Next]_vars => TxInv'
  BY NextOneAtATime
<1> QED
  BY <1>1, <1>2, DriverTypeCorrect, PTL DEF Spec

\* While the link stays up a sender is woken by its own frame, and by nothing else: its
\* wake-up is not lost while it waits, and it leaves none behind for the next.
THEOREM SenderWokenByOwnFrame ==
  ASSUME "down" \notin PhyStates
  PROVE  Spec => []WokenByOwnFrame
<1>1. ASSUME TxInv, tpc["core"] \in {"sent", "wait"}, ~TxPktSemaphore, ~txIrq
      PROVE  \E i \in DOMAIN txRing : ~txRing[i]
  <2>1. txRing = <<FALSE>>
    BY <1>1 DEF TxInv, OneAtATime
  <2>2. 1 \in DOMAIN txRing /\ ~txRing[1]
    BY <2>1
  <2> QED
    BY <2>2
<1>2. TxInv /\ tpc["core"] = "idle" => txRing = <<>> /\ ~txIrq /\ ~TxPktSemaphore
  BY DEF TxInv, OneAtATime
<1>3. TxInv => WokenByOwnFrame
  BY <1>1, <1>2 DEF WokenByOwnFrame
<1> QED
  BY <1>3, OneAtATimeWhileUp, PTL

----------------------------------------------------------------------------
(* EthIf and the frames in the ring.                                       *)

\* HAL_ETH_Stop_IT() has silenced no descriptor.
NoneSilent == \A i \in Descs : ~dic[i]

\* While the MAC runs in interrupt mode nobody does.
LEMMA NextLoud ==
  ASSUME "down" \notin PhyStates, TypeOK, TxInv, NoneSilent, [Next]_vars
  PROVE  NoneSilent'
<1>1. TxUp /\ StaysUp /\ ItMode
  BY DEF TxInv, TxUp, ItMode
<1>2. ASSUME NEW buffers, NEW count, UpdateDescriptor(buffers, count)
      PROVE  NoneSilent'
  <2>1. PICK n \in 0..count :
          dic' = [i \in Descs |-> IF i \in Built(n) THEN ~ItMode ELSE dic[i]]
    BY <1>2 DEF UpdateDescriptor
  <2> QED
    BY <1>1, <2>1 DEF NoneSilent
<1>3. CASE RxStep
  <2>1. CASE EthIfRead \/ EthIfRebuild
    BY <1>2, <2>1 DEF EthIfRead, EthIfRebuild
  <2>2. CASE ~EthIfRead /\ ~EthIfRebuild
    <3>1. UNCHANGED dic
      BY <1>3, <2>2 DEF RxStep, RxNext, EthIfNext, RxHardware, EthIfWake, EthIfReadAgain,
         EthIfPost, EthIfDrop, EthIfNothing, DmaReceive, DmaNoDescriptor, RxInterrupt,
         FreeNext, FreeBuffer, FreeCheck, FreeSet, FreeSignal, rxVars
    <3> QED
      BY <3>1 DEF NoneSilent
  <2> QED
    BY <2>1, <2>2
<1>4. CASE LinkNext
  BY <1>1, <1>4, OnlyWaits DEF LinkWait, rxVars, NoneSilent
<1>5. CASE CoreStep \/ TxStep \/ PhyMove \/ Hog \/ UNCHANGED vars
  BY <1>5 DEF CoreStep, TxStep, PhyMove, Hog, vars, rxVars, NoneSilent
<1> QED
  BY <1>3, <1>4, <1>5 DEF Next, LinkStep

\* While the link stays up EthIf never sleeps over a frame it is to read, with nothing
\* under way to wake it: not the semaphore, not the interrupt, and no free of a buffer
\* to come.
THEOREM NoFrameOverlooked ==
  ASSUME "down" \notin PhyStates
  PROVE  Spec => []FrameIsAnnounced
<1>1. Init => FrameIsAnnounced
  BY DEF Init, RxInit, FrameIsAnnounced, Unread, Descs
<1>2. Init => NoneSilent /\ DicInv
  BY InitOwes DEF Init, RxInit, NoneSilent
<1>3. TypeOK /\ TxInv /\ NoneSilent /\ DicInv /\ [Next]_vars => NoneSilent' /\ DicInv'
  BY NextLoud, NextOwes
<1>4. TypeOK /\ TypeOK' /\ TxInv /\ NoneSilent /\ DicInv /\ FrameIsAnnounced /\ [Next]_vars
        => FrameIsAnnounced'
  <2> SUFFICES ASSUME TypeOK, TypeOK', TxInv, NoneSilent, DicInv, FrameIsAnnounced,
                      [Next]_vars
               PROVE  FrameIsAnnounced'
    OBVIOUS
  <2>1. FrameIsAnnounced' \/ gState # "started" \/ FilledInSilence
    BY AnnouncesOrNotStarted
  <2>2. ~FilledInSilence
    BY DEF FilledInSilence, NoneSilent, TypeOK, RxTypeOK
  <2> QED
    BY <2>1, <2>2 DEF TxInv, TxUp
<1> QED
  BY <1>1, <1>2, <1>3, <1>4, DriverTypeCorrect, OneAtATimeWhileUp, PTL DEF Spec
=============================================================================
