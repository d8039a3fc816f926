-------------------------- MODULE EthRestartProofs --------------------------
(***************************************************************************)
(* The receive path through every restart of the link, when nothing can be  *)
(* assumed of the ring it finds: what a restart can break and what nothing  *)
(* else can.  EthIf's index and the rebuild's lose each other only when a   *)
(* restart interrupts a rebuild that ran out of buffers, and no frame is    *)
(* passed up twice before; a ring in order gets out of it only when frames  *)
(* were left unread; a dry pool goes unsignalled only by the link thread.   *)
(***************************************************************************)
EXTENDS EthDriverProofs

USE EthRxAssumption, EthTxAssumption, EthDriverAssumption

----------------------------------------------------------------------------
(* What ETH_UpdateDescriptor() leaves to give back.                        *)

\* Going on round the ring from where a first walk ended.
LEMMA AroundAdd ==
  ASSUME NEW r \in Descs, NEW j \in 0..RxDescs, NEW k \in 0..RxDescs,
         j + k <= RxDescs
  PROVE  Around(Around(r, j), k) = Around(r, j + k)
  BY DEF Around, Descs

\* However many it gives back, what is left ends where it would have ended.
LEMMA UpdateEnds ==
  ASSUME RxBuildDescIdx \in Descs, NEW buffers, NEW count \in 0..RxDescs,
         UpdateDescriptor(buffers, count)
  PROVE  /\ RxBuildDescCnt' \in 0..count
         /\ RxBuildDescIdx' = Around(RxBuildDescIdx, count - RxBuildDescCnt')
         /\ Around(RxBuildDescIdx', RxBuildDescCnt') = Around(RxBuildDescIdx, count)
<1>1. PICK n \in 0..count : RxBuildDescIdx' = ToBuild(n) /\ RxBuildDescCnt' = count - n
  BY DEF UpdateDescriptor
<1>2. /\ n \in 0..RxDescs /\ count - n \in 0..RxDescs /\ n + (count - n) = count
      /\ count - (count - n) = n
  BY <1>1
<1>3. RxBuildDescIdx' = Around(RxBuildDescIdx, n)
  BY <1>1, <1>2, AroundIs DEF ToBuild
<1>4. Around(Around(RxBuildDescIdx, n), count - n) = Around(RxBuildDescIdx, count)
  <2>1. n + (count - n) <= RxDescs
    BY <1>2
  <2>2. Around(Around(RxBuildDescIdx, n), count - n) = Around(RxBuildDescIdx, n + (count - n))
    BY <1>2, <2>1, AroundAdd
  <2> QED
    BY <1>2, <2>2
<1> QED
  BY <1>1, <1>2, <1>3, <1>4

\* A descriptor that has no buffer afterwards had none before and, if it was among
\* those to give back, still is.
LEMMA UpdateLeavesBare ==
  ASSUME RxBuildDescIdx \in Descs, pool \subseteq Buffers,
         own \in [Descs -> BOOLEAN],
         NEW buffers \in [Descs -> Buffers \cup {NoBuf}], NEW count \in 0..RxDescs,
         UpdateDescriptor(buffers, count),
         NEW i \in Descs, ~own'[i], buf'[i] = NoBuf
  PROVE  /\ ~own[i] /\ buffers[i] = NoBuf
         /\ \A k \in 0..(count - 1) : i = Around(RxBuildDescIdx, k) =>
               \E j \in 0..(RxBuildDescCnt' - 1) : i = Around(RxBuildDescIdx', j)
<1>1. PICK n \in 0..count :
        /\ Attach(buffers, n)
        /\ own' = [d \in Descs |-> own[d] \/ d \in Built(n)]
        /\ RxBuildDescIdx' = ToBuild(n)
        /\ RxBuildDescCnt' = count - n
  BY DEF UpdateDescriptor
<1>2. PICK new \in Injection(Bare(buffers, n), pool) :
        buf' = [d \in Descs |-> IF d \in DOMAIN new THEN new[d] ELSE buffers[d]]
  BY <1>1 DEF Attach
<1>3. new \in [Bare(buffers, n) -> pool]
  BY <1>2 DEF Injection, IsInjective
<1>4. ~own[i] /\ i \notin Built(n)
  BY <1>1
<1>5. buffers[i] = NoBuf
  BY <1>2, <1>3, <1>4 DEF Bare
<1>6. ASSUME NEW k \in 0..(count - 1), i = Around(RxBuildDescIdx, k)
      PROVE  \E j \in 0..(RxBuildDescCnt' - 1) : i = Around(RxBuildDescIdx', j)
  <2>1. i = ToBuild(k)
    BY <1>6, AroundIs DEF ToBuild
  <2>2. k \notin 0..(n - 1)
    BY <1>4, <2>1 DEF Built
  <2>3. k - n \in 0..(RxBuildDescCnt' - 1) /\ k - n \in 0..RxDescs
    BY <1>1, <2>2
  <2>4. RxBuildDescIdx' = Around(RxBuildDescIdx, n)
    BY <1>1, AroundIs DEF ToBuild
  <2>5. Around(Around(RxBuildDescIdx, n), k - n) = Around(RxBuildDescIdx, n + (k - n))
    BY <2>3, AroundAdd
  <2>6. n + (k - n) = k
    OBVIOUS
  <2> QED
    BY <1>6, <2>3, <2>4, <2>5, <2>6
<1> QED
  BY <1>4, <1>5, <1>6

----------------------------------------------------------------------------
(* EthIf's index and the rebuild's.                                        *)

\* Aligned without the remainder.
LEMMA AlignedIs ==
  ASSUME RxTypeOK
  PROVE  Aligned <=> Around(RxBuildDescIdx, RxBuildDescCnt) = RxDescIdx
  BY AroundIs DEF Aligned, RxTypeOK

\* The same after a step.
LEMMA AlignedIsNext ==
  ASSUME RxTypeOK'
  PROVE  Aligned' <=> Around(RxBuildDescIdx', RxBuildDescCnt') = RxDescIdx'
  BY AroundIs DEF Aligned, RxTypeOK

\* A frame is taken: both move on by one; nothing is: the rebuild ends where it did.
LEMMA ReadAligned ==
  ASSUME TypeOK, TypeOK', EthIfRead \/ EthIfRebuild
  PROVE  Aligned' <=> Aligned
<1> USE DEF TypeOK, RxTypeOK
<1>0. RxTypeOK /\ RxTypeOK'
  OBVIOUS
<1>1. CASE EthIfRead
  <2>1. /\ RxBuildDescCnt + 1 \in 0..RxDescs
        /\ UpdateDescriptor([buf EXCEPT ![RxDescIdx] = NoBuf], RxBuildDescCnt + 1)
        /\ RxDescIdx' = Next1(RxDescIdx)
    BY <1>1 DEF EthIfRead, FrameReady
  <2>2. Around(RxBuildDescIdx', RxBuildDescCnt') = Around(RxBuildDescIdx, RxBuildDescCnt + 1)
    BY <2>1, UpdateEnds
  <2>3. RxDescIdx' = Around(RxDescIdx, 1)
    BY <2>1, AroundIs DEF Next1
  <2>4. Around(RxBuildDescIdx, RxBuildDescCnt + 1) = Around(RxDescIdx, 1)
          <=> Around(RxBuildDescIdx, RxBuildDescCnt) = RxDescIdx
    BY <2>1 DEF Around, Descs
  <2> QED
    BY <1>0, <2>2, <2>3, <2>4, AlignedIs, AlignedIsNext
<1>2. CASE EthIfRebuild
  <2>1. UpdateDescriptor(buf, RxBuildDescCnt) /\ RxDescIdx' = RxDescIdx
    BY <1>2 DEF EthIfRebuild
  <2>2. Around(RxBuildDescIdx', RxBuildDescCnt') = Around(RxBuildDescIdx, RxBuildDescCnt)
    BY <2>1, UpdateEnds
  <2> QED
    BY <1>0, <2>1, <2>2, AlignedIs, AlignedIsNext
<1> QED
  BY <1>1, <1>2

\* Only the two rebuilds of EthIf and the restart move one of the two indices.
LEMMA OthersAligned ==
  ASSUME [Next]_vars, ~EthIfRead, ~EthIfRebuild, ~LinkBuild
  PROVE  UNCHANGED <<RxDescIdx, RxBuildDescIdx, RxBuildDescCnt, buf>>
<1>1. CASE RxStep
  BY <1>1 DEF RxStep, RxNext, EthIfNext, RxHardware, EthIfWake, EthIfReadAgain, EthIfPost,
     EthIfDrop, EthIfNothing, DmaReceive, DmaNoDescriptor, RxInterrupt, FreeNext,
     FreeBuffer, FreeCheck, FreeSet, FreeSignal, rxVars, ring
<1>2. CASE CoreStep \/ TxStep \/ PhyMove \/ Hog \/ UNCHANGED vars
  BY <1>2 DEF CoreStep, TxStep, PhyMove, Hog, vars, rxVars
<1>3. CASE LinkNext
  BY <1>3 DEF LinkNext, LinkLost, LinkFound, LinkStop, LinkStopIrq, LinkStopDma,
     LinkDown, LinkStart, LinkNoBuf, LinkEnable, LinkIrq, LinkStarted, LinkUp,
     LinkWait, LinkAnnounced, rxVars, ring
<1> QED
  BY <1>1, <1>2, <1>3 DEF Next, LinkStep

\* EthIf's index and the rebuild's lose each other only in a restart that finds some
\* descriptors, but not all, waiting for a buffer: HAL_ETH_Start_IT() counts all of
\* them over again from where ETH_UpdateDescriptor() had run out.
THEOREM OnlyRestartMisaligns == Spec => AlignmentKept
<1> DEFINE Kept == Aligned => Aligned' \/ (Restarts /\ RxBuildDescCnt \notin {0, RxDescs})
<1>1. TypeOK /\ TypeOK' /\ [Next]_vars => Kept
  <2> SUFFICES ASSUME TypeOK, TypeOK', [Next]_vars, Aligned, ~Aligned'
               PROVE  Restarts /\ RxBuildDescCnt \notin {0, RxDescs}
    OBVIOUS
  <2>1. ~EthIfRead /\ ~EthIfRebuild
    BY ReadAligned
  <2>2. LinkBuild
    BY <2>1, OthersAligned DEF Aligned
  <2>3. Restarts
    BY <2>2 DEF LinkBuild, Restarts
  <2>4. RxBuildDescIdx # RxDescIdx
    <3>1. /\ UpdateDescriptor(buf, RxDescs) /\ RxDescIdx' = RxDescIdx
          /\ RxBuildDescIdx \in Descs /\ RxDescs \in 0..RxDescs
      BY <2>2 DEF LinkBuild, TypeOK, RxTypeOK
    <3>2. Around(RxBuildDescIdx', RxBuildDescCnt') = Around(RxBuildDescIdx, RxDescs)
      BY <3>1, UpdateEnds
    <3>3. Around(RxBuildDescIdx, RxDescs) = RxBuildDescIdx
      BY <3>1 DEF Around, Descs
    <3> QED
      BY <3>1, <3>2, <3>3, AlignedIsNext DEF TypeOK
  <2>5. Around(RxBuildDescIdx, RxBuildDescCnt) = RxDescIdx
    BY AlignedIs DEF TypeOK
  <2>6. RxBuildDescCnt \notin {0, RxDescs}
    BY <2>4, <2>5 DEF Around, TypeOK, RxTypeOK, Descs
  <2> QED
    BY <2>3, <2>6
<1>2. TypeOK /\ TypeOK' /\ [Next]_vars => [Kept]_vars
  BY <1>1
<1> QED
  BY <1>2, DriverTypeCorrect, PTL DEF Spec, AlignmentKept

----------------------------------------------------------------------------
(* No frame twice while the indices are aligned.                           *)

\* While they are, a descriptor whose frame was taken out and not replaced is one of
\* those to give back.
BareIsCounted ==
    Aligned =>
        \A i \in Descs : ~own[i] /\ buf[i] = NoBuf =>
            \E k \in 0..(RxBuildDescCnt - 1) : i = Around(RxBuildDescIdx, k)

ReadInv == BareIsCounted /\ AlignedReadsOnce

\* low_level_init() leaves no such descriptor.
LEMMA InitReads ==
  ASSUME Init
  PROVE  ReadInv
  BY DEF Init, RxInit, ReadInv, BareIsCounted, AlignedReadsOnce

\* EthIf's rebuilds: the descriptor it takes a frame from is the last to give back.
LEMMA ReadCounts ==
  ASSUME TypeOK, TypeOK', BareIsCounted, EthIfRead \/ EthIfRebuild
  PROVE  BareIsCounted'
<1> SUFFICES ASSUME Aligned', NEW i \in Descs, ~own'[i], buf'[i] = NoBuf
             PROVE  \E k \in 0..(RxBuildDescCnt' - 1) : i = Around(RxBuildDescIdx', k)
  BY DEF BareIsCounted
<1>0. Aligned
  BY ReadAligned
<1>00. /\ RxBuildDescIdx \in Descs /\ pool \subseteq Buffers
      /\ own \in [Descs -> BOOLEAN]
      /\ buf \in [Descs -> Buffers \cup {NoBuf}]
      /\ RxDescIdx \in Descs /\ RxBuildDescCnt \in 0..RxDescs
  BY DEF TypeOK, RxTypeOK
<1>1. CASE EthIfRead
  <2> DEFINE left == [buf EXCEPT ![RxDescIdx] = NoBuf]
             c == RxBuildDescCnt
  <2>1. /\ c + 1 \in 0..RxDescs /\ UpdateDescriptor(left, c + 1)
        /\ left \in [Descs -> Buffers \cup {NoBuf}] /\ c + 1 - 1 = c
    BY <1>1, <1>00 DEF EthIfRead, FrameReady
  <2>2. \A d \in Descs : left[d] = IF d = RxDescIdx THEN NoBuf ELSE buf[d]
    BY <1>00
  <2> HIDE DEF left
  <2>3. /\ ~own[i] /\ left[i] = NoBuf
        /\ \A k \in 0..(c + 1 - 1) : i = Around(RxBuildDescIdx, k) =>
             \E j \in 0..(RxBuildDescCnt' - 1) : i = Around(RxBuildDescIdx', j)
    BY <1>00, <2>1, UpdateLeavesBare
  <2>4. Around(RxBuildDescIdx, c) = RxDescIdx
    BY <1>0, AlignedIs DEF TypeOK
  <2>5. \E k \in 0..(c + 1 - 1) : i = Around(RxBuildDescIdx, k)
    BY <1>0, <1>00, <2>1, <2>2, <2>3, <2>4 DEF BareIsCounted
  <2> QED
    BY <2>3, <2>5
<1>2. CASE EthIfRebuild
  <2>1. UpdateDescriptor(buf, RxBuildDescCnt)
    BY <1>2 DEF EthIfRebuild
  <2>2. /\ ~own[i] /\ buf[i] = NoBuf
        /\ \A k \in 0..(RxBuildDescCnt - 1) : i = Around(RxBuildDescIdx, k) =>
             \E j \in 0..(RxBuildDescCnt' - 1) : i = Around(RxBuildDescIdx', j)
    BY <1>00, <2>1, UpdateLeavesBare
  <2> QED
    BY <1>0, <2>2 DEF BareIsCounted
<1> QED
  BY <1>1, <1>2

\* A restart counts the whole ring, so that what it leaves over is what has no buffer.
LEMMA BuildCounts ==
  ASSUME TypeOK, LinkBuild
  PROVE  BareIsCounted'
<1> SUFFICES ASSUME NEW i \in Descs, ~own'[i], buf'[i] = NoBuf
             PROVE  \E k \in 0..(RxBuildDescCnt' - 1) : i = Around(RxBuildDescIdx', k)
  BY DEF BareIsCounted
<1> USE DEF TypeOK, RxTypeOK
<1>1. UpdateDescriptor(buf, RxDescs) /\ RxDescs \in 0..RxDescs
  BY DEF LinkBuild
<1>2. \A k \in 0..(RxDescs - 1) : i = Around(RxBuildDescIdx, k) =>
         \E j \in 0..(RxBuildDescCnt' - 1) : i = Around(RxBuildDescIdx', j)
  BY <1>1, UpdateLeavesBare
<1>3. \E k \in 0..(RxDescs - 1) : i = Around(RxBuildDescIdx, k)
  BY AroundOnce
<1> QED
  BY <1>2, <1>3

\* Where EthIf reads there is a buffer, while the indices are aligned.
LEMMA AlignedNotAgain ==
  ASSUME TypeOK, BareIsCounted, Aligned
  PROVE  ~EthIfReadAgain
<1> SUFFICES ASSUME EthIfReadAgain PROVE FALSE
  OBVIOUS
<1> USE DEF TypeOK, RxTypeOK
<1>1. /\ ~own[RxDescIdx] /\ buf[RxDescIdx] = NoBuf
      /\ RxBuildDescCnt \in 0..(RxDescs - 1)
  BY DEF EthIfReadAgain, FrameReady
<1>2. PICK k \in 0..(RxBuildDescCnt - 1) : RxDescIdx = Around(RxBuildDescIdx, k)
  BY <1>1 DEF BareIsCounted
<1>3. RxDescIdx = Around(RxBuildDescIdx, RxBuildDescCnt)
  BY AlignedIs
<1>4. k \in 0..(RxDescs - 1) /\ k # RxBuildDescCnt
  BY <1>1
<1> QED
  BY <1>1, <1>2, <1>3, <1>4, AroundOnce

\* The DMA writes through descriptors that have a buffer; nobody else touches the ring.
LEMMA NextCounts ==
  ASSUME TypeOK, TypeOK', DmaHasBuffer, BareIsCounted, [Next]_vars
  PROVE  BareIsCounted'
<1>1. CASE EthIfRead \/ EthIfRebuild
  BY <1>1, ReadCounts
<1>2. CASE LinkBuild
  BY <1>2, BuildCounts
<1>3. CASE ~EthIfRead /\ ~EthIfRebuild /\ ~LinkBuild
  <2>1. UNCHANGED <<RxDescIdx, RxBuildDescIdx, RxBuildDescCnt, buf>>
    BY <1>3, OthersAligned
  <2>2. \A i \in Descs : ~own'[i] /\ buf[i] = NoBuf => ~own[i]
    <3>1. CASE DmaReceive
      BY <3>1 DEF DmaReceive, DmaHasBuffer, TypeOK, RxTypeOK
    <3>2. CASE ~DmaReceive
      <4>1. CASE RxStep
        BY <1>3, <3>2, <4>1 DEF RxStep, RxNext, EthIfNext, RxHardware, EthIfWake,
           EthIfReadAgain, EthIfPost, EthIfDrop, EthIfNothing, DmaNoDescriptor,
           RxInterrupt, FreeNext, FreeBuffer, FreeCheck, FreeSet, FreeSignal, rxVars, ring
      <4>2. CASE CoreStep \/ TxStep \/ PhyMove \/ Hog \/ UNCHANGED vars
        BY <4>2 DEF CoreStep, TxStep, PhyMove, Hog, vars, rxVars
      <4>3. CASE LinkNext
        BY <1>3, <4>3 DEF LinkNext, LinkLost, LinkFound, LinkStop, LinkStopIrq,
           LinkStopDma, LinkDown, LinkStart, LinkNoBuf, LinkEnable, LinkIrq,
           LinkStarted, LinkUp, LinkWait, LinkAnnounced, rxVars, ring
      <4> QED
        BY <4>1, <4>2, <4>3 DEF Next, LinkStep
    <3> QED
      BY <3>1, <3>2
  <2> QED
    BY <2>1, <2>2 DEF BareIsCounted, Aligned
<1> QED
  BY <1>1, <1>2, <1>3

\* Only EthIfReadAgain goes wrong, and nothing aligns the indices again afterwards:
\* EthIf does not come back, and the link thread waits for it.
LEMMA NextReads ==
  ASSUME TypeOK, TypeOK', ReadInv, [Next]_vars
  PROVE  AlignedReadsOnce'
<1> SUFFICES ASSUME Aligned', epc' = "corrupt" PROVE FALSE
  BY DEF AlignedReadsOnce
<1> USE DEF ReadInv
<1>1. ~EthIfRead /\ ~EthIfRebuild /\ ~LinkBuild
  BY DEF EthIfRead, EthIfRebuild, LinkBuild, LinkRuns, EthIfSleeps
<1>2. UNCHANGED <<RxDescIdx, RxBuildDescIdx, RxBuildDescCnt>>
  BY <1>1, OthersAligned
<1>3. Aligned
  BY <1>2 DEF Aligned
<1>4. ~EthIfReadAgain /\ epc # "corrupt"
  BY <1>3, AlignedNotAgain DEF AlignedReadsOnce
<1>5. CASE RxStep
  BY <1>1, <1>4, <1>5 DEF RxStep, RxNext, EthIfNext, RxHardware, EthIfWake, EthIfPost,
     EthIfDrop, EthIfNothing, DmaReceive, DmaNoDescriptor, RxInterrupt, FreeNext,
     FreeBuffer, FreeCheck, FreeSet, FreeSignal, rxVars
<1>6. CASE CoreStep \/ TxStep \/ PhyMove \/ Hog \/ UNCHANGED vars
  BY <1>4, <1>6 DEF CoreStep, TxStep, PhyMove, Hog, vars, rxVars
<1>7. CASE LinkNext
  BY <1>1, <1>4, <1>7 DEF LinkNext, LinkLost, LinkFound, LinkStop, LinkStopIrq,
     LinkStopDma, LinkDown, LinkStart, LinkNoBuf, LinkEnable, LinkIrq, LinkStarted,
     LinkUp, LinkWait, LinkAnnounced, rxVars
<1> QED
  BY <1>5, <1>6, <1>7 DEF Next, LinkStep

\* Through every restart of the link: while EthIf's index and the rebuild's are
\* aligned, HAL_ETH_ReadData() has passed no frame up twice.
THEOREM AlignedReadsNothingTwice == Spec => []AlignedReadsOnce
<1>1. Init => ReadInv
  BY InitReads
<1>2. TypeOK /\ TypeOK' /\ DmaHasBuffer /\ ReadInv /\ [Next]_vars => ReadInv'
  BY NextCounts, NextReads DEF ReadInv
<1>3. ReadInv => AlignedReadsOnce
  BY DEF ReadInv
<1> QED
  BY <1>1, <1>2, <1>3, DriverTypeCorrect, DmaNeverBare, PTL DEF Spec

----------------------------------------------------------------------------
(* The order of the ring, through a restart.                               *)

\* Of a ring in order that is the DMA's alone nothing waits to be given back, and
\* all three indices are the same.
LEMMA AllOwnedAligns ==
  ASSUME RxTypeOK, NEW n \in 0..RxDescs, RingOrdered(n), \A i \in Descs : own[i]
  PROVE  /\ n = 0 /\ RxBuildDescCnt = 0
         /\ RxBuildDescIdx = RxDescIdx /\ dmaIdx = RxDescIdx
<1> USE DEF RxTypeOK
<1>1. ASSUME NEW k \in 0..(RxDescs - 1)
      PROVE  ~(k < n) /\ ~(k >= RxDescs - RxBuildDescCnt)
  <2>1. own[Around(RxDescIdx, k)]
    BY AroundIs
  <2> QED
    BY <2>1 DEF RingOrdered, Ordered
<1>2. 0 \in 0..(RxDescs - 1) /\ RxDescs - 1 \in 0..(RxDescs - 1)
  OBVIOUS
<1>3. n = 0 /\ RxBuildDescCnt = 0
  BY <1>1, <1>2
<1>4. dmaIdx = Around(RxDescIdx, 0) /\ RxDescIdx = Around(RxBuildDescIdx, 0)
  BY <1>3 DEF RingOrdered, Ordered
<1> QED
  BY <1>3, <1>4 DEF Around, Descs

\* If besides each descriptor has a buffer, or the pool has one for each, the restart
\* leaves it that way.
LEMMA BuildsAll ==
  ASSUME TypeOK, DmaInv, \A i \in Descs : own[i], LinkBuild
  PROVE  /\ RxBuildDescCnt' = 0 /\ RxBuildDescIdx' = RxBuildDescIdx
         /\ \A i \in Descs : own'[i]
<1>1. PICK n \in 0..RxDescs :
        /\ n < RxDescs => RunsDry(buf, n)
        /\ own' = [i \in Descs |-> own[i] \/ i \in Built(n)]
        /\ RxBuildDescCnt' = RxDescs - n
  BY DEF LinkBuild, UpdateDescriptor
<1>2. UpdateDescriptor(buf, RxDescs) /\ RxBuildDescIdx \in Descs
  BY DEF LinkBuild, TypeOK, RxTypeOK
<1>3. RxBuildDescCnt' = 0
  <2>1. CASE Backed
    <3>1. n < RxDescs => buf[ToBuild(n)] = NoBuf /\ ToBuild(n) \in Descs
      BY <1>1, <1>2, BuildInRing DEF RunsDry
    <3>2. ~(n < RxDescs)
      BY <2>1, <3>1 DEF Backed
    <3> QED
      BY <1>1, <3>2
  <2>2. CASE Fresh
    BY <1>2, <2>2, FreshBuild DEF Fresh
  <2> QED
    BY <2>1, <2>2 DEF DmaInv
<1>4. RxBuildDescIdx' = Around(RxBuildDescIdx, RxDescs)
  <2>1. RxDescs \in 0..RxDescs /\ RxDescs - 0 = RxDescs
    OBVIOUS
  <2> QED
    BY <1>2, <1>3, <2>1, UpdateEnds
<1>5. Around(RxBuildDescIdx, RxDescs) = RxBuildDescIdx
  BY <1>2 DEF Around, Descs
<1> QED
  BY <1>1, <1>3, <1>4, <1>5

\* A ring that is the DMA's alone comes out of a restart in order.
LEMMA RestartOrder ==
  ASSUME TypeOK, TypeOK', DmaInv, RingInOrder, \A i \in Descs : own[i], LinkBuild
  PROVE  RingInOrder'
<1>0. RxTypeOK /\ RxTypeOK'
  BY DEF TypeOK
<1>1. PICK n \in 0..RxDescs : RingOrdered(n)
  BY <1>0, OrderedIsRing
<1>2. /\ n = 0 /\ RxBuildDescCnt = 0
      /\ RxBuildDescIdx = RxDescIdx /\ dmaIdx = RxDescIdx
  BY <1>0, <1>1, AllOwnedAligns
<1>3. /\ RxBuildDescCnt' = 0 /\ RxBuildDescIdx' = RxBuildDescIdx
      /\ \A i \in Descs : own'[i]
      /\ UNCHANGED <<dmaIdx, RxDescIdx>>
  BY BuildsAll DEF LinkBuild
<1>4. RxDescIdx \in Descs /\ Around(RxDescIdx, 0) = RxDescIdx
  BY <1>0 DEF RxTypeOK, Around, Descs
<1>5. \A k \in 0..(RxDescs - 1) : own'[Around(RxDescIdx, k)]
  BY <1>3, <1>4, AroundIs
<1>6. Ordered(0, RxDescIdx, own', buf', RxDescIdx, 0, RxDescIdx)
  BY <1>4, <1>5 DEF Ordered
<1>7. RingOrdered(0)'
  BY <1>2, <1>3, <1>6 DEF RingOrdered
<1>8. 0 \in 0..RxDescs
  OBVIOUS
<1> QED
  BY <1>0, <1>7, <1>8, OrderedIsRingNext

\* Only a restart puts the ring out of order, and only one that finds descriptors
\* which are not the DMA's: frames nobody read, or a rebuild that ran out of buffers.
\* HAL_ETH_Start_IT() leaves the DMA and EthIf where they were in the ring.
THEOREM OnlyRestartDisorders == Spec => OrderKept
<1> DEFINE Kept == RingInOrder => RingInOrder' \/ (Restarts /\ \E i \in Descs : ~own[i])
<1>1. TypeOK /\ TypeOK' /\ DmaInv /\ [Next]_vars => Kept
  <2> SUFFICES ASSUME TypeOK, TypeOK', DmaInv, [Next]_vars, RingInOrder
               PROVE  RingInOrder' \/ (Restarts /\ \E i \in Descs : ~own[i])
    OBVIOUS
  <2>1. CASE RxStep
    <3>1. DmaHasBuffer
      BY DEF DmaInv, Backed, Fresh, DmaHasBuffer
    <3> QED
      BY <2>1, <3>1, RxOrder
  <2>2. CASE LinkBuild
    <3>1. Restarts
      BY <2>2 DEF LinkBuild, Restarts
    <3> QED
      BY <2>2, <3>1, RestartOrder
  <2>3. CASE UNCHANGED ring
    BY <2>3 DEF ring, RingInOrder, Unread
  <2>4. CoreStep \/ TxStep \/ PhyMove \/ Hog \/ UNCHANGED vars => UNCHANGED ring
    BY DEF CoreStep, TxStep, PhyMove, Hog, vars, rxVars, ring
  <2>5. LinkNext => LinkBuild \/ UNCHANGED ring
    BY DEF LinkNext, LinkLost, LinkFound, LinkStop, LinkStopIrq, LinkStopDma,
       LinkDown, LinkStart, LinkNoBuf, LinkEnable, LinkIrq, LinkStarted, LinkUp,
       LinkWait, LinkAnnounced, rxVars, ring
  <2> QED
    BY <2>1, <2>2, <2>3, <2>4, <2>5 DEF Next, LinkStep
<1>2. TypeOK /\ TypeOK' /\ DmaInv /\ [Next]_vars => [Kept]_vars
  BY <1>1
<1>3. Init => DmaInv
  BY InitBacked
<1>4. TypeOK /\ DmaInv /\ [Next]_vars => DmaInv'
  BY NextBacked
<1> QED
  BY <1>2, <1>3, <1>4, DriverTypeCorrect, PTL DEF Spec, OrderKept

----------------------------------------------------------------------------
(* A dry pool, through a restart.                                          *)

\* A dry pool goes unsignalled in one step only: the link thread, whose rebuild found
\* the pool empty, sets RX_ALLOC_ERROR after the buffer it waits for was freed.
THEOREM OnlyRestartLosesSignal == Spec => SignalKept
<1> DEFINE Kept == ExhaustionIsSignalled =>
                     ExhaustionIsSignalled' \/ (lpc = "nobuf" /\ lpc' # "nobuf")
<1>1. TypeOK /\ TypeOK' /\ BuffersConserved' /\ [Next]_vars => Kept
  <2> SUFFICES ASSUME TypeOK, TypeOK', BuffersConserved', [Next]_vars,
                      ExhaustionIsSignalled
               PROVE  ExhaustionIsSignalled' \/ (lpc = "nobuf" /\ lpc' # "nobuf")
    OBVIOUS
  <2>1. CASE RxStep
    BY <2>1, RxSignals
  <2>2. CASE LinkNoBuf
    BY <2>2 DEF LinkNoBuf, LinkAt
  <2>3. CASE UNCHANGED <<RxAllocStatus, held, fpc>>
    BY <2>3 DEF ExhaustionIsSignalled
  <2>4. CoreStep \/ TxStep \/ PhyMove \/ Hog \/ UNCHANGED vars
          => UNCHANGED <<RxAllocStatus, held, fpc>>
    BY DEF CoreStep, TxStep, PhyMove, Hog, vars, rxVars
  <2>5. LinkNext => LinkNoBuf \/ UNCHANGED <<RxAllocStatus, held, fpc>>
    BY DEF LinkNext, LinkLost, LinkFound, LinkStop, LinkStopIrq, LinkStopDma,
       LinkDown, LinkStart, LinkBuild, LinkEnable, LinkIrq, LinkStarted, LinkUp,
       LinkWait, LinkAnnounced, rxVars
  <2> QED
    BY <2>1, <2>2, <2>3, <2>4, <2>5 DEF Next, LinkStep
<1>2. TypeOK /\ TypeOK' /\ BuffersConserved' /\ [Next]_vars => [Kept]_vars
  BY <1>1
<1> QED
  BY <1>2, DriverTypeCorrect, NoBufferLostOrShared, PTL DEF Spec, SignalKept

----------------------------------------------------------------------------
(* A frame to read, through a restart.                                     *)

\* The frame EthIf would read next, if its descriptors were these.
Due(owned, buffers) == ~owned[RxDescIdx] /\ buffers[RxDescIdx] # NoBuf

\* ETH_UpdateDescriptor() adds nothing to what EthIf has to read, and when it leaves
\* nothing over of a whole round there is nothing.
LEMMA UpdateAddsNone ==
  ASSUME RxBuildDescIdx \in Descs, RxDescIdx \in Descs,
         NEW buffers \in [Descs -> Buffers \cup {NoBuf}],
         NEW count \in 0..RxDescs, UpdateDescriptor(buffers, count), Due(own', buf')
  PROVE  /\ Due(own, buffers)
         /\ RxBuildDescCnt' = 0 => count # RxDescs
<1>1. PICK n \in 0..count :
        /\ Attach(buffers, n)
        /\ own' = [i \in Descs |-> own[i] \/ i \in Built(n)]
        /\ RxBuildDescCnt' = count - n
  BY DEF UpdateDescriptor
<1>2. PICK new \in Injection(Bare(buffers, n), pool) :
        buf' = [i \in Descs |-> IF i \in DOMAIN new THEN new[i] ELSE buffers[i]]
  BY <1>1 DEF Attach
<1>3. DOMAIN new = Bare(buffers, n)
  BY <1>2 DEF Injection, IsInjective
<1>4. ~own[RxDescIdx] /\ RxDescIdx \notin Built(n)
  BY <1>1 DEF Due
<1>5. buffers[RxDescIdx] # NoBuf
  BY <1>2, <1>3, <1>4 DEF Due, Bare
<1>6. RxBuildDescCnt' = 0 => n = count
  BY <1>1
<1> QED
  BY <1>4, <1>5, <1>6, BuildAll DEF Due

\* A descriptor whose DIC bit is set is one that a rebuild has still to come to.
SilentAreOwed == \A i \in Descs : dic[i] => i \in Built(RxBuildDescCnt)

\* So it is from the restart's rebuild until the DMA is stopped.
DicInv ==
    /\ lpc = "build" => ItMode
    /\ dmaOn \/ lpc \in {"nobuf", "enable"} => SilentAreOwed

\* low_level_init() lets every descriptor raise the interrupt.
LEMMA InitOwes ==
  ASSUME Init
  PROVE  DicInv
  BY DEF Init, RxInit, DicInv, SilentAreOwed

\* What ETH_UpdateDescriptor() does not come to is left to give back.
LEMMA UpdateOwes ==
  ASSUME TypeOK, ItMode, NEW buffers, NEW count \in 0..RxDescs,
         UpdateDescriptor(buffers, count),
         \A i \in Descs : dic[i] => i \in Built(count)
  PROVE  SilentAreOwed'
<1> USE DEF TypeOK, RxTypeOK
<1> SUFFICES ASSUME NEW i \in Descs, dic'[i]
             PROVE  i \in Built(RxBuildDescCnt)'
  BY DEF SilentAreOwed
<1>1. PICK n \in 0..count :
        /\ dic' = [d \in Descs |-> IF d \in Built(n) THEN ~ItMode ELSE dic[d]]
        /\ RxBuildDescIdx' = ToBuild(n)
        /\ RxBuildDescCnt' = count - n
  BY DEF UpdateDescriptor
<1>2. i \notin Built(n) /\ dic[i]
  BY <1>1
<1>3. PICK k \in 0..(count - 1) : i = ToBuild(k)
  BY <1>2 DEF Built
<1>4. k \notin 0..(n - 1)
  BY <1>2, <1>3 DEF Built
<1>5. /\ k - n \in 0..(RxBuildDescCnt' - 1) /\ k - n \in 0..RxDescs
      /\ k \in 0..RxDescs /\ n \in 0..RxDescs /\ n + (k - n) = k
  BY <1>1, <1>4
<1>6. i = Around(RxBuildDescIdx, k) /\ RxBuildDescIdx' = Around(RxBuildDescIdx, n)
  BY <1>1, <1>3, <1>5, AroundIs DEF ToBuild
<1>7. i = Around(RxBuildDescIdx', k - n)
  BY <1>5, <1>6, AroundAdd
<1>8. RxBuildDescIdx' \in Descs
  BY <1>1, <1>5, BuildInRing
<1>9. i = (RxBuildDescIdx' + (k - n)) % RxDescs
  BY <1>5, <1>7, <1>8, AroundIs
<1> QED
  BY <1>5, <1>9 DEF Built, ToBuild

\* EthIf rebuilds in interrupt mode: what was owed is given back or still owed.
LEMMA ReadOwes ==
  ASSUME TypeOK, SilentAreOwed, EthIfRead \/ EthIfRebuild
  PROVE  SilentAreOwed'
<1> USE DEF TypeOK, RxTypeOK
<1>1. CASE EthIfRead
  <2>1. /\ UpdateDescriptor([buf EXCEPT ![RxDescIdx] = NoBuf], RxBuildDescCnt + 1)
        /\ RxBuildDescCnt + 1 \in 0..RxDescs /\ ItMode
    BY <1>1 DEF EthIfRead, FrameReady, MayRead, ItMode
  <2>2. Built(RxBuildDescCnt) \subseteq Built(RxBuildDescCnt + 1)
    BY <2>1 DEF Built
  <2> QED
    BY <2>1, <2>2, UpdateOwes DEF SilentAreOwed
<1>2. CASE EthIfRebuild
  <2>1. UpdateDescriptor(buf, RxBuildDescCnt) /\ ItMode
    BY <1>2 DEF EthIfRebuild, MayRead, ItMode
  <2> QED
    BY <2>1, UpdateOwes DEF SilentAreOwed
<1> QED
  BY <1>1, <1>2

\* The restart owes the whole ring.
LEMMA BuildOwes ==
  ASSUME TypeOK, DicInv, LinkBuild
  PROVE  SilentAreOwed'
<1>1. /\ UpdateDescriptor(buf, RxDescs) /\ ItMode
      /\ RxBuildDescIdx \in Descs /\ RxDescs \in 0..RxDescs
  BY DEF LinkBuild, DicInv, TypeOK, RxTypeOK
<1>2. Built(RxDescs) = Descs
  BY <1>1, BuildAll
<1> QED
  BY <1>1, <1>2, UpdateOwes

\* No step of the driver leaves a descriptor silent that is not owed while the MAC
\* runs: the DMA is off when HAL_ETH_Stop_IT() silences them.
LEMMA NextOwes ==
  ASSUME TypeOK, DicInv, [Next]_vars
  PROVE  DicInv'
<1> USE DEF DicInv
<1>0. ASSUME UNCHANGED <<dic, RxBuildDescIdx, RxBuildDescCnt>>
      PROVE  SilentAreOwed' <=> SilentAreOwed
  BY <1>0 DEF SilentAreOwed, Built, ToBuild
<1>1. CASE RxStep
  <2>1. UNCHANGED lpc
    BY <1>1 DEF RxStep, linkVars
  <2>2. CASE EthIfRead \/ EthIfRebuild
    <3>1. UNCHANGED <<gState, dmaOn>>
      BY <2>2 DEF EthIfRead, EthIfRebuild, macVars
    <3> QED
      BY <2>1, <2>2, <3>1, ReadOwes DEF ItMode
  <2>3. CASE ~EthIfRead /\ ~EthIfRebuild
    <3>1. UNCHANGED <<dic, RxBuildDescIdx, RxBuildDescCnt, gState, dmaOn>>
      BY <1>1, <2>3 DEF RxStep, RxNext, EthIfNext, RxHardware, EthIfWake, EthIfReadAgain,
         EthIfPost, EthIfDrop, EthIfNothing, DmaReceive, DmaNoDescriptor, RxInterrupt,
         FreeNext, FreeBuffer, FreeCheck, FreeSet, FreeSignal, rxVars, ring, macVars
    <3> QED
      BY <1>0, <2>1, <3>1 DEF ItMode
  <2> QED
    BY <2>2, <2>3
<1>2. CASE LinkBuild
  <2>1. UNCHANGED dmaOn /\ lpc' \in {"nobuf", "enable"}
    BY <1>2 DEF LinkBuild, macVars
  <2> QED
    BY <1>2, <2>1, BuildOwes
<1>3. CASE LinkStopDma
  BY <1>3 DEF LinkStopDma, LinkAt, MacStopDma
<1>4. CASE LinkStart
  BY <1>0, <1>4 DEF LinkStart, LinkAt, MacStart, ItMode, rxVars
<1>5. CASE \/ LinkLost \/ LinkFound \/ LinkStop \/ LinkStopIrq \/ LinkDown
           \/ LinkNoBuf \/ LinkEnable \/ LinkIrq \/ LinkStarted
  <2>1. UNCHANGED <<dic, RxBuildDescIdx, RxBuildDescCnt>> /\ lpc' # "build"
    BY <1>5 DEF LinkLost, LinkFound, LinkStop, LinkStopIrq, LinkDown, LinkNoBuf,
       LinkEnable, LinkIrq, LinkStarted, LinkAt, rxVars, ring
  <2>2. dmaOn' \/ lpc' \in {"nobuf", "enable"} => dmaOn \/ lpc \in {"nobuf", "enable"}
    BY <1>5 DEF LinkLost, LinkFound, LinkStop, LinkStopIrq, LinkDown, LinkNoBuf,
       LinkEnable, LinkIrq, LinkStarted, LinkAt, MacStop, MacStopIrq, MacEnableDma,
       MacEnableIrq, MacStarted, macVars
  <2> QED
    BY <1>0, <2>1, <2>2
<1>6. CASE LinkUp \/ LinkWait \/ LinkAnnounced
  <2>1. UNCHANGED <<dic, RxBuildDescIdx, RxBuildDescCnt, gState, dmaOn>>
    BY <1>6 DEF LinkUp, LinkWait, LinkAnnounced, Transmit, TxAcquire, ReleaseTxPacket,
       rxVars, macVars
  <2>2. lpc' = lpc \/ lpc' \in {"announce", "poll"}
    BY <1>6 DEF LinkUp, LinkWait, LinkAnnounced, LinkAt, linkVars
  <2> QED
    BY <1>0, <2>1, <2>2 DEF ItMode
<1>7. CASE CoreStep \/ TxStep \/ PhyMove \/ Hog \/ UNCHANGED vars
  <2>1. UNCHANGED <<dic, RxBuildDescIdx, RxBuildDescCnt, lpc, gState, dmaOn>>
    BY <1>7 DEF CoreStep, CoreSends, Transmit, TxAcquire, ReleaseTxPacket, TxStep,
       TxHardware, DmaTransmit, TxInterrupt, PhyMove, Hog, vars, rxVars, macVars, linkVars
  <2> QED
    BY <1>0, <2>1 DEF ItMode
<1> QED
  BY <1>1, <1>2, <1>3, <1>4, <1>5, <1>6, <1>7 DEF Next, LinkStep, LinkNext

\* EthIf goes to sleep with no frame to read, with the pool dry, or because the
\* handle is not started; whoever takes a cause of waking away leaves another, and
\* so does a frame, unless its descriptor keeps silent.
LEMMA RxAnnounces ==
  ASSUME TypeOK, TypeOK', FrameIsAnnounced, DicInv, RxStep,
         ~(EthIfNothing /\ gState # "started"), ~FilledInSilence
  PROVE  FrameIsAnnounced'
<1> USE DEF FrameIsAnnounced, TypeOK, RxTypeOK
<1>1. CASE EthIfRebuild
  <2> SUFFICES ASSUME Unread(RxDescIdx)', RxAllocStatus' # "RX_ALLOC_ERROR"
               PROVE  FALSE
    OBVIOUS
  <2>1. /\ UpdateDescriptor(buf, RxBuildDescCnt) /\ ~FrameReady
        /\ AllocStatusAfter(RxBuildDescCnt') /\ UNCHANGED RxDescIdx
    BY <1>1 DEF EthIfRebuild
  <2>2. Due(own', buf')
    BY <2>1 DEF Unread, Due
  <2>3. RxBuildDescCnt' = 0
    BY <2>1 DEF AllocStatusAfter
  <2>4. Due(own, buf) /\ RxBuildDescCnt # RxDescs
    BY <2>1, <2>2, <2>3, UpdateAddsNone
  <2> QED
    BY <2>1, <2>4 DEF Due, FrameReady
<1>2. CASE EthIfNothing
  BY <1>2 DEF EthIfNothing, MayRead
<1>3. CASE EthIfWake \/ EthIfRead \/ EthIfReadAgain \/ EthIfPost \/ EthIfDrop
  BY <1>3 DEF EthIfWake, EthIfRead, EthIfReadAgain, EthIfPost, EthIfDrop
<1>4. CASE DmaReceive
  <2>1. CASE dmaIdx = RxDescIdx /\ dic[dmaIdx]
    <3>1. own[RxDescIdx] /\ ~own'[RxDescIdx] /\ dmaOn
      BY <1>4, <2>1 DEF DmaReceive
    <3> QED
      BY <2>1, <3>1 DEF FilledInSilence, DicInv, SilentAreOwed
  <2>2. CASE ~(dmaIdx = RxDescIdx /\ dic[dmaIdx])
    <3>1. UNCHANGED <<buf, RxDescIdx, epc, RxPktSemaphore, RxAllocStatus, fpc>>
      BY <1>4 DEF DmaReceive
    <3>2. CASE dmaIdx = RxDescIdx
      BY <1>4, <2>2, <3>1, <3>2 DEF DmaReceive
    <3>3. CASE dmaIdx # RxDescIdx
      <4>1. own'[RxDescIdx] = own[RxDescIdx] /\ (rxIrq => rxIrq')
        BY <1>4, <3>3 DEF DmaReceive
      <4> QED
        BY <3>1, <4>1 DEF Unread
    <3> QED
      BY <3>2, <3>3
  <2> QED
    BY <2>1, <2>2
<1>6. CASE DmaNoDescriptor \/ RxInterrupt
  BY <1>6 DEF DmaNoDescriptor, RxInterrupt
<1>5. ASSUME NEW f \in Freers, FreeNext(f)
      PROVE  FrameIsAnnounced'
  <2>1. UNCHANGED <<ring, epc, rxIrq>>
    BY <1>5 DEF FreeNext, FreeBuffer, FreeCheck, FreeSet, FreeSignal, macVars
  <2>2. Unread(RxDescIdx)' <=> Unread(RxDescIdx)
    BY <2>1 DEF ring, Unread
  <2>3. CASE FreeSet(f)
    BY <2>3 DEF FreeSet
  <2>4. CASE FreeSignal(f)
    BY <2>4 DEF FreeSignal
  <2>5. CASE FreeCheck(f) \/ \E b \in Buffers : FreeBuffer(f, b)
    BY <2>1, <2>2, <2>5 DEF FreeCheck, FreeBuffer
  <2> QED
    BY <1>5, <2>3, <2>4, <2>5 DEF FreeNext
<1> QED
  BY <1>1, <1>2, <1>3, <1>4, <1>5, <1>6 DEF RxStep, RxNext, EthIfNext, RxHardware

\* The link thread takes no cause of waking away, and its rebuild adds no frame.
LEMMA LinkAnnounces ==
  ASSUME TypeOK, TypeOK', FrameIsAnnounced, LinkNext
  PROVE  FrameIsAnnounced'
<1>1. CASE LinkBuild
  <2>1. /\ UpdateDescriptor(buf, RxDescs)
        /\ UNCHANGED <<RxDescIdx, epc, RxPktSemaphore, RxAllocStatus, fpc, rxIrq>>
    BY <1>1 DEF LinkBuild, macVars
  <2>2. Unread(RxDescIdx)' => Unread(RxDescIdx)
    <3>1. RxDescs \in 0..RxDescs
      OBVIOUS
    <3> QED
      BY <2>1, <3>1, UpdateAddsNone DEF Unread, Due, TypeOK, RxTypeOK
  <2> QED
    BY <2>1, <2>2 DEF FrameIsAnnounced
<1>2. CASE LinkNoBuf
  BY <1>2 DEF LinkNoBuf, FrameIsAnnounced, Unread, ring, macVars
<1>3. CASE UNCHANGED <<rxVars, rxIrq>>
  BY <1>3 DEF FrameIsAnnounced, Unread, rxVars, ring
<1>5. CASE LinkStopDma
  BY <1>5 DEF LinkStopDma, MacStopDma, FrameIsAnnounced, Unread, ring
<1>4. LinkNext => LinkBuild \/ LinkNoBuf \/ LinkStopDma \/ UNCHANGED <<rxVars, rxIrq>>
  BY DEF LinkNext, LinkLost, LinkFound, LinkStop, LinkStopIrq, LinkDown,
         LinkStart, LinkEnable, LinkIrq, LinkStarted, LinkUp, LinkWait, LinkAnnounced,
         MacStop, MacStopIrq, MacStart, MacEnableDma, MacEnableIrq,
         MacStarted, Transmit, TxAcquire, ReleaseTxPacket, macVars
<1> QED
  BY <1>1, <1>2, <1>3, <1>4, <1>5

\* Every step of the driver but two keeps a frame announced.
LEMMA AnnouncesOrNotStarted ==
  ASSUME TypeOK, TypeOK', FrameIsAnnounced, DicInv, [Next]_vars
  PROVE  \/ FrameIsAnnounced'
         \/ epc = "read" /\ epc' = "wait" /\ gState # "started"
         \/ FilledInSilence
<1>1. CASE RxStep
  BY <1>1, RxAnnounces DEF EthIfNothing
<1>2. CASE LinkNext
  BY <1>2, LinkAnnounces
<1>3. CASE UNCHANGED <<rxVars, rxIrq>>
  BY <1>3 DEF FrameIsAnnounced, Unread, rxVars, ring
<1>4. CoreStep \/ TxStep \/ PhyMove \/ Hog \/ UNCHANGED vars => UNCHANGED <<rxVars, rxIrq>>
  BY DEF CoreStep, CoreSends, Transmit, TxAcquire, ReleaseTxPacket, TxStep,
         TxHardware, DmaTransmit, TxInterrupt, PhyMove, Hog, vars, macVars
<1> QED
  BY <1>1, <1>2, <1>3, <1>4 DEF Next, LinkStep

\* A wake-up for a frame is lost in two steps only: EthIf, woken while gState does not
\* say started, is told HAL_ERROR and goes back to sleep; and the DMA fills the
\* descriptor EthIf is to read next, of which a restart's rebuild that ran out of
\* buffers has not come to clear the bit that keeps it silent.
THEOREM OnlyRestartLosesFrame == Spec => AnnouncementKept
<1> DEFINE Kept == FrameIsAnnounced =>
                     \/ FrameIsAnnounced'
                     \/ epc = "read" /\ epc' = "wait" /\ gState # "started"
                     \/ FilledInSilence
<1>1. TypeOK /\ TypeOK' /\ DicInv /\ [Next]_vars => [Kept]_vars
  BY AnnouncesOrNotStarted
<1>2. Init => DicInv
  BY InitOwes
<1>3. TypeOK /\ DicInv /\ [Next]_vars => DicInv'
  BY NextOwes
<1> QED
  BY <1>1, <1>2, <1>3, DriverTypeCorrect, PTL DEF Spec, AnnouncementKept
=============================================================================
