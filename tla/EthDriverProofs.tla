-------------------------- MODULE EthDriverProofs --------------------------
(***************************************************************************)
(* The receive ring, for every number of descriptors, buffers and threads,  *)
(* and through every restart of the link: zero copy, and a DMA that never   *)
(* writes through a descriptor without a buffer.  While the link stays up,  *)
(* a pool that ran dry is not forgotten, and the ring stays in order, so    *)
(* that no frame is passed up twice.                                       *)
(***************************************************************************)
EXTENDS EthDriver, FiniteSetTheorems, TLAPS

USE EthRxAssumption, EthTxAssumption, EthDriverAssumption

----------------------------------------------------------------------------
(* Indices and descriptors.                                                *)

\* INCR_RX_DESC_INDEX() stays in the ring.
LEMMA IndexInRing ==
  ASSUME NEW i \in Nat
  PROVE  i % RxDescs \in Descs
  BY DEF Descs

\* The index after one of the ring's is one of the ring's.
LEMMA NextInRing ==
  ASSUME NEW i \in Descs
  PROVE  Next1(i) \in Descs
  BY IndexInRing DEF Next1, Descs

\* The descriptors ETH_UpdateDescriptor() gives back are in the ring.
LEMMA BuildInRing ==
  ASSUME RxBuildDescIdx \in Descs, NEW k \in Nat
  PROVE  ToBuild(k) \in Descs
  BY IndexInRing DEF ToBuild, Descs

\* The buffers attached to the ring, each to one descriptor.
Once(buffers) ==
    \A i, j \in Descs : buffers[i] = buffers[j] /\ buffers[i] # NoBuf => i = j

AttachedTo(buffers) == {buffers[i] : i \in Descs} \ {NoBuf}

\* ETH_UpdateDescriptor() keeps the types of what it writes.
LEMMA UpdateTypes ==
  ASSUME own \in [Descs -> BOOLEAN], dic \in [Descs -> BOOLEAN],
         RxBuildDescIdx \in Descs, pool \subseteq Buffers,
         NEW buffers \in [Descs -> Buffers \cup {NoBuf}],
         NEW count \in 0..RxDescs,
         UpdateDescriptor(buffers, count)
  PROVE  /\ own' \in [Descs -> BOOLEAN]
         /\ dic' \in [Descs -> BOOLEAN]
         /\ buf' \in [Descs -> Buffers \cup {NoBuf}]
         /\ RxBuildDescIdx' \in Descs
         /\ RxBuildDescCnt' \in 0..RxDescs
         /\ pool' \subseteq Buffers
<1>1. PICK n \in 0..count :
        /\ Attach(buffers, n)
        /\ own' = [i \in Descs |-> own[i] \/ i \in Built(n)]
        /\ dic' = [i \in Descs |-> IF i \in Built(n) THEN ~ItMode ELSE dic[i]]
        /\ RxBuildDescIdx' = ToBuild(n)
        /\ RxBuildDescCnt' = count - n
  BY DEF UpdateDescriptor
<1>2. PICK new \in Injection(Bare(buffers, n), pool) :
        /\ buf' = [i \in Descs |-> IF i \in DOMAIN new THEN new[i] ELSE buffers[i]]
        /\ pool' = pool \ Range(new)
  BY <1>1 DEF Attach
<1>3. new \in [Bare(buffers, n) -> pool]
  BY <1>2 DEF Injection, IsInjective
<1>4. buf' \in [Descs -> Buffers \cup {NoBuf}]
  BY <1>2, <1>3
<1>5. RxBuildDescIdx' \in Descs
  BY <1>1, BuildInRing
<1>6. own' \in [Descs -> BOOLEAN]
  BY <1>1
<1>7. dic' \in [Descs -> BOOLEAN]
  BY <1>1 DEF ItMode
<1> QED
  BY <1>1, <1>2, <1>4, <1>5, <1>6, <1>7

\* It moves buffers from the pool to descriptors, and makes and shares none.
LEMMA UpdateConserves ==
  ASSUME RxBuildDescIdx \in Descs, pool \subseteq Buffers,
         NEW buffers \in [Descs -> Buffers \cup {NoBuf}],
         NEW count \in 0..RxDescs,
         UpdateDescriptor(buffers, count),
         Once(buffers), AttachedTo(buffers) \cap pool = {}
  PROVE  /\ Once(buf')
         /\ AttachedTo(buf') \cap pool' = {}
         /\ AttachedTo(buf') \cup pool' = AttachedTo(buffers) \cup pool
<1>1. PICK n \in 0..count : Attach(buffers, n)
  BY DEF UpdateDescriptor
<1>2. PICK new \in Injection(Bare(buffers, n), pool) :
        /\ buf' = [i \in Descs |-> IF i \in DOMAIN new THEN new[i] ELSE buffers[i]]
        /\ pool' = pool \ Range(new)
  BY <1>1 DEF Attach
<1> DEFINE B == Bare(buffers, n)
<1>3. /\ new \in [B -> pool]
      /\ \A i, j \in B : new[i] = new[j] => i = j
  BY <1>2 DEF Injection, IsInjective
<1>4. B \subseteq Descs /\ \A i \in B : buffers[i] = NoBuf
  BY <1>1, BuildInRing DEF Bare, Built
<1>5. Range(new) = {new[i] : i \in B}
  BY <1>3 DEF Range
<1> HIDE DEF B
<1>6. \A i \in Descs : buf'[i] = IF i \in B THEN new[i] ELSE buffers[i]
  BY <1>2, <1>3
<1>7. \A i \in B : new[i] \in pool /\ new[i] # NoBuf /\ new[i] \notin AttachedTo(buffers)
  BY <1>3
<1>8. Once(buf')
  <2> SUFFICES ASSUME NEW i \in Descs, NEW j \in Descs,
                      buf'[i] = buf'[j], buf'[i] # NoBuf
               PROVE  i = j
    BY DEF Once
  <2>1. CASE i \in B /\ j \in B
    BY <2>1, <1>3, <1>6
  <2>2. CASE i \notin B /\ j \notin B
    BY <2>2, <1>6 DEF Once
  <2>3. CASE i \in B /\ j \notin B
    BY <2>3, <1>6, <1>7 DEF AttachedTo
  <2>4. CASE i \notin B /\ j \in B
    BY <2>4, <1>6, <1>7 DEF AttachedTo
  <2> QED
    BY <2>1, <2>2, <2>3, <2>4
<1>9. AttachedTo(buf') = AttachedTo(buffers) \cup {new[i] : i \in B}
  <2>1. ASSUME NEW b \in AttachedTo(buf')
        PROVE  b \in AttachedTo(buffers) \cup {new[i] : i \in B}
    BY <2>1, <1>6 DEF AttachedTo
  <2>2. ASSUME NEW b \in AttachedTo(buffers)
        PROVE  b \in AttachedTo(buf')
    BY <2>2, <1>4, <1>6 DEF AttachedTo
  <2>3. ASSUME NEW i \in B
        PROVE  new[i] \in AttachedTo(buf')
    BY <2>3, <1>4, <1>6, <1>7 DEF AttachedTo
  <2> QED
    BY <2>1, <2>2, <2>3
<1> QED
  BY <1>2, <1>5, <1>7, <1>8, <1>9

----------------------------------------------------------------------------
(* Types.                                                                  *)

\* low_level_init() sets every variable to a value of its type.
LEMMA InitTypes == Init => TypeOK
<1> SUFFICES ASSUME Init PROVE TypeOK
  OBVIOUS
<1>0. linkUp \in BOOLEAN
  BY DEF Init
<1>1. MacTypeOK
  BY <1>0 DEF Init, MacInit, MacTypeOK
<1>2. TxTypeOK
  <2>1. TxInit
    BY DEF Init
  <2>2. txRing \in Seq(BOOLEAN)
    BY <2>1 DEF TxInit
  <2> QED
    BY <2>1, <2>2 DEF TxInit, TxTypeOK
<1>3. LinkTypeOK
  <2>1. /\ phy \in PhyStates
        /\ lpc = "poll" /\ speed = "slow" /\ linkchanged = FALSE
        /\ mode \in {"fast", "slow"}
    BY DEF Init
  <2> QED
    BY <1>0, <2>1 DEF LinkTypeOK, LinkPcs, Speeds
<1>4. buf \in [Descs -> Buffers \cup {NoBuf}]
  BY DEF Init, RxInit, Injection, IsInjective
<1>5. pool \subseteq Buffers /\ 0 \in Descs
  BY DEF Init, RxInit, Descs
<1>6. /\ own \in [Descs -> BOOLEAN] /\ dic \in [Descs -> BOOLEAN]
      /\ fpc \in [Freers -> {"idle", "check", "set", "signal"}]
  BY DEF Init, RxInit
<1>7. /\ RxBuildDescCnt \in 0..RxDescs
      /\ epc = "wait" /\ post = NoBuf
  BY DEF Init, RxInit
<1>9. hogged \in BOOLEAN
  BY DEF Init
<1>8. RxTypeOK
  BY <1>4, <1>5, <1>6, <1>7 DEF Init, RxInit, RxTypeOK
<1> QED
  BY <1>1, <1>2, <1>3, <1>8, <1>9 DEF TypeOK

\* HAL_ETH_ReadData() keeps the types, whether it finds a frame or rebuilds.
LEMMA ReadTypes ==
  ASSUME TypeOK, EthIfRead \/ EthIfRebuild
  PROVE  RxTypeOK' /\ UNCHANGED macVars
<1>1. CASE EthIfRead
  <2> DEFINE left == [buf EXCEPT ![RxDescIdx] = NoBuf]
  <2>1. /\ left \in [Descs -> Buffers \cup {NoBuf}]
        /\ RxBuildDescCnt + 1 \in 0..RxDescs
    BY <1>1 DEF EthIfRead, FrameReady, TypeOK, RxTypeOK
  <2>2. UpdateDescriptor(left, RxBuildDescCnt + 1)
    BY <1>1 DEF EthIfRead
  <2> HIDE DEF left
  <2>3. /\ own' \in [Descs -> BOOLEAN] /\ dic' \in [Descs -> BOOLEAN]
        /\ buf' \in [Descs -> Buffers \cup {NoBuf}]
        /\ RxBuildDescIdx' \in Descs
        /\ RxBuildDescCnt' \in 0..RxDescs
        /\ pool' \subseteq Buffers
    BY <2>1, <2>2, UpdateTypes DEF TypeOK, RxTypeOK
  <2>4. buf[RxDescIdx] \in Buffers
    BY <1>1 DEF EthIfRead, TypeOK, RxTypeOK
  <2>5. RxDescIdx' \in Descs
    BY <1>1, NextInRing DEF EthIfRead, TypeOK, RxTypeOK
  <2> QED
    BY <1>1, <2>3, <2>4, <2>5 DEF EthIfRead, AllocStatusAfter, TypeOK, RxTypeOK
<1>2. CASE EthIfRebuild
  <2>1. /\ own' \in [Descs -> BOOLEAN] /\ dic' \in [Descs -> BOOLEAN]
        /\ buf' \in [Descs -> Buffers \cup {NoBuf}]
        /\ RxBuildDescIdx' \in Descs
        /\ RxBuildDescCnt' \in 0..RxDescs
        /\ pool' \subseteq Buffers
    BY <1>2, UpdateTypes DEF EthIfRebuild, TypeOK, RxTypeOK
  <2> QED
    BY <1>2, <2>1 DEF EthIfRebuild, AllocStatusAfter, TypeOK, RxTypeOK
<1> QED
  BY <1>1, <1>2

\* Every step of the receive path keeps the types.
LEMMA RxTypes ==
  ASSUME TypeOK, RxStep
  PROVE  TypeOK'
<1>1. TxTypeOK' /\ LinkTypeOK' /\ hogged' \in BOOLEAN
  BY DEF RxStep, TypeOK, TxTypeOK, LinkTypeOK, txVars, linkVars
<1>2. RxTypeOK' /\ MacTypeOK'
  <2> USE DEF TypeOK
  <2>1. CASE EthIfRead \/ EthIfRebuild
    BY <2>1, ReadTypes DEF MacTypeOK, macVars
  <2>2. CASE EthIfWake
    BY <2>2 DEF EthIfWake, RxTypeOK, MacTypeOK, macVars, ring
  <2>3. CASE EthIfReadAgain
    BY <2>3 DEF EthIfReadAgain, RxTypeOK, MacTypeOK, macVars, ring
  <2>4. CASE EthIfPost
    BY <2>4 DEF EthIfPost, RxTypeOK, MacTypeOK, macVars, ring
  <2>5. CASE EthIfDrop
    BY <2>5 DEF EthIfDrop, RxTypeOK, MacTypeOK, macVars, ring
  <2>6. CASE EthIfNothing
    BY <2>6 DEF EthIfNothing, RxTypeOK, MacTypeOK, macVars, ring
  <2>7. CASE DmaReceive
    <3>1. dmaIdx' \in Descs
      BY <2>7, NextInRing DEF DmaReceive, RxTypeOK
    <3> QED
      BY <2>7, <3>1 DEF DmaReceive, RxTypeOK, MacTypeOK
  <2>8. CASE DmaNoDescriptor
    BY <2>8 DEF DmaNoDescriptor, RxTypeOK, MacTypeOK, rxVars
  <2>9. CASE RxInterrupt
    BY <2>9 DEF RxInterrupt, RxTypeOK, MacTypeOK, ring
  <2>10. ASSUME NEW f \in Freers, FreeNext(f)
         PROVE  RxTypeOK' /\ MacTypeOK'
    <3>1. ASSUME NEW b \in Buffers, FreeBuffer(f, b)
          PROVE  RxTypeOK' /\ MacTypeOK'
      BY <3>1 DEF FreeBuffer, RxTypeOK, MacTypeOK, macVars, ring
    <3>2. CASE FreeCheck(f)
      BY <3>2 DEF FreeCheck, RxTypeOK, MacTypeOK, macVars, ring
    <3>3. CASE FreeSet(f)
      BY <3>3 DEF FreeSet, RxTypeOK, MacTypeOK, macVars, ring
    <3>4. CASE FreeSignal(f)
      BY <3>4 DEF FreeSignal, RxTypeOK, MacTypeOK, macVars, ring
    <3> QED
      BY <2>10, <3>1, <3>2, <3>3, <3>4 DEF FreeNext
  <2> QED
    BY <2>1, <2>2, <2>3, <2>4, <2>5, <2>6, <2>7, <2>8, <2>9, <2>10
       DEF RxStep, RxNext, EthIfNext, RxHardware
<1> QED
  BY <1>1, <1>2 DEF TypeOK

\* Both senders, and the transmit side of the hardware.
LEMMA TxTypes ==
  ASSUME TxTypeOK, MacTypeOK, NEW s \in Senders,
         \/ Transmit(s) \/ TxAcquire(s) \/ ReleaseTxPacket(s)
         \/ DmaTransmit \/ TxInterrupt
  PROVE  TxTypeOK' /\ MacTypeOK'
<1>1. CASE Transmit(s)
  BY <1>1 DEF Transmit, TxTypeOK, MacTypeOK, macVars
<1>2. CASE TxAcquire(s)
  BY <1>2 DEF TxAcquire, TxTypeOK, MacTypeOK, macVars
<1>3. CASE ReleaseTxPacket(s)
  <2>1. PICK n \in 0..Len(txRing) : txRing' = SubSeq(txRing, n + 1, Len(txRing))
    BY <1>3 DEF ReleaseTxPacket
  <2>2. txRing' \in Seq(BOOLEAN)
    BY <2>1 DEF TxTypeOK
  <2> QED
    BY <1>3, <2>2 DEF ReleaseTxPacket, TxTypeOK, MacTypeOK, macVars
<1>4. CASE DmaTransmit
  <2>1. PICK i \in 1..Len(txRing) : txRing' = [txRing EXCEPT ![i] = TRUE]
    BY <1>4 DEF DmaTransmit
  <2>2. txRing' \in Seq(BOOLEAN)
    BY <2>1 DEF TxTypeOK
  <2> QED
    BY <1>4, <2>2 DEF DmaTransmit, TxTypeOK, MacTypeOK
<1>5. CASE TxInterrupt
  <2>1. CASE \E t \in Senders : TokenTo(t)
    BY <1>5, <2>1 DEF TxInterrupt, TokenTo, TxTypeOK, MacTypeOK
  <2>2. CASE TxPktSemaphore' = TRUE /\ UNCHANGED tpc
    BY <1>5, <2>2 DEF TxInterrupt, TxTypeOK, MacTypeOK
  <2> QED
    BY <1>5, <2>1, <2>2 DEF TxInterrupt
<1> QED
  BY <1>1, <1>2, <1>3, <1>4, <1>5

\* Every step of the link thread keeps the types.
LEMMA LinkTypes ==
  ASSUME TypeOK, LinkNext, UNCHANGED hogged
  PROVE  TypeOK'
<1> USE DEF TypeOK
<1>0. ASSUME UNCHANGED rxVars PROVE RxTypeOK'
  BY <1>0 DEF rxVars, RxTypeOK
<1>1. ASSUME UNCHANGED txVars PROVE TxTypeOK'
  BY <1>1 DEF txVars, TxTypeOK
<1>2. CASE LinkLost
  BY <1>0, <1>1, <1>2 DEF LinkLost, LinkAt, LinkTypeOK, LinkPcs, MacTypeOK, macVars
<1>3. CASE LinkFound
  BY <1>0, <1>1, <1>3 DEF LinkFound, LinkAt, LinkTypeOK, LinkPcs, MacTypeOK, macVars
<1>4. CASE LinkStop
  BY <1>0, <1>1, <1>4 DEF LinkStop, LinkAt, LinkTypeOK, LinkPcs, MacTypeOK, MacStop
<1>5. CASE LinkStopIrq
  BY <1>0, <1>1, <1>5 DEF LinkStopIrq, LinkAt, LinkTypeOK, LinkPcs, MacTypeOK, MacStopIrq
<1>6. CASE LinkStopDma
  <2>1. RxTypeOK'
    BY <1>6 DEF LinkStopDma, RxTypeOK, ring
  <2> QED
    BY <1>1, <1>6, <2>1 DEF LinkStopDma, LinkAt, LinkTypeOK, LinkPcs, MacTypeOK, MacStopDma
<1>7. CASE LinkDown
  BY <1>0, <1>1, <1>7 DEF LinkDown, LinkAt, LinkTypeOK, LinkPcs, MacTypeOK, macVars
<1>8. CASE LinkStart
  BY <1>0, <1>1, <1>8 DEF LinkStart, LinkAt, LinkTypeOK, LinkPcs, MacTypeOK, MacStart
<1>9. CASE LinkBuild
  <2>1. /\ own' \in [Descs -> BOOLEAN] /\ dic' \in [Descs -> BOOLEAN]
        /\ buf' \in [Descs -> Buffers \cup {NoBuf}]
        /\ RxBuildDescIdx' \in Descs
        /\ RxBuildDescCnt' \in 0..RxDescs
        /\ pool' \subseteq Buffers
    BY <1>9, UpdateTypes DEF LinkBuild, RxTypeOK
  <2>2. RxTypeOK'
    BY <1>9, <2>1 DEF LinkBuild, RxTypeOK
  <2> QED
    BY <1>1, <1>9, <2>2 DEF LinkBuild, LinkTypeOK, LinkPcs, MacTypeOK, macVars
<1>10. CASE LinkNoBuf
  <2>1. RxTypeOK'
    BY <1>10 DEF LinkNoBuf, RxTypeOK, ring
  <2> QED
    BY <1>1, <1>10, <2>1 DEF LinkNoBuf, LinkAt, LinkTypeOK, LinkPcs, MacTypeOK, macVars
<1>11. CASE LinkEnable
  BY <1>0, <1>1, <1>11 DEF LinkEnable, LinkAt, LinkTypeOK, LinkPcs, MacTypeOK, MacEnableDma
<1>12. CASE LinkIrq
  BY <1>0, <1>1, <1>12 DEF LinkIrq, LinkAt, LinkTypeOK, LinkPcs, MacTypeOK, MacEnableIrq
<1>13. CASE LinkStarted
  BY <1>0, <1>1, <1>13 DEF LinkStarted, LinkAt, LinkTypeOK, LinkPcs, MacTypeOK, MacStarted
<1>14. CASE LinkUp \/ LinkWait \/ LinkAnnounced
  <2>1. TxTypeOK' /\ MacTypeOK'
    BY <1>14, TxTypes DEF LinkUp, LinkWait, LinkAnnounced, Senders
  <2>2. RxTypeOK'
    BY <1>0, <1>14 DEF LinkUp, LinkWait, LinkAnnounced
  <2>3. LinkTypeOK'
    BY <1>14 DEF LinkUp, LinkWait, LinkAnnounced, LinkAt, LinkTypeOK, LinkPcs, linkVars
  <2> QED
    BY <2>1, <2>2, <2>3
<1> QED
  BY <1>2, <1>3, <1>4, <1>5, <1>6, <1>7, <1>8, <1>9, <1>10, <1>11, <1>12, <1>13, <1>14
     DEF LinkNext

\* So does every step of the driver.
LEMMA NextTypes == TypeOK /\ [Next]_vars => TypeOK'
<1> SUFFICES ASSUME TypeOK, [Next]_vars PROVE TypeOK'
  OBVIOUS
<1>0. ASSUME UNCHANGED <<rxVars, linkVars>> PROVE RxTypeOK' /\ LinkTypeOK'
  BY <1>0 DEF rxVars, linkVars, TypeOK, RxTypeOK, LinkTypeOK
<1>1. CASE RxStep
  BY <1>1, RxTypes
<1>2. CASE CoreStep
  <2>1. TxTypeOK' /\ MacTypeOK'
    BY <1>2, TxTypes DEF CoreStep, CoreSends, Senders, TypeOK
  <2> QED
    BY <1>0, <1>2, <2>1 DEF CoreStep, TypeOK
<1>3. CASE TxStep
  <2>1. TxTypeOK' /\ MacTypeOK'
    BY <1>3, TxTypes DEF TxStep, TxHardware, Senders, TypeOK
  <2> QED
    BY <1>0, <1>3, <2>1 DEF TxStep, TypeOK
<1>4. CASE LinkStep
  BY <1>4, LinkTypes DEF LinkStep
<1>5. CASE PhyMove \/ Hog
  <2>1. LinkTypeOK' /\ hogged' \in BOOLEAN
    BY <1>5 DEF PhyMove, Hog, TypeOK, LinkTypeOK, linkVars
  <2>2. MacTypeOK' /\ RxTypeOK' /\ TxTypeOK'
    BY <1>5 DEF PhyMove, Hog, TypeOK, MacTypeOK, RxTypeOK, TxTypeOK,
       macVars, rxVars, txVars
  <2> QED
    BY <2>1, <2>2 DEF TypeOK
<1>6. CASE UNCHANGED vars
  BY <1>6 DEF vars, TypeOK, MacTypeOK, RxTypeOK, TxTypeOK, LinkTypeOK,
              macVars, rxVars, txVars, linkVars
<1> QED
  BY <1>1, <1>2, <1>3, <1>4, <1>5, <1>6 DEF Next

\* Every variable of the driver keeps its type: the indices stay in the ring, and
\* no more descriptors are to be given back than there are.
THEOREM DriverTypeCorrect == Spec => []TypeOK
  BY InitTypes, NextTypes, PTL DEF Spec

----------------------------------------------------------------------------
(* Zero copy.                                                              *)

\* What EthIf is posting is its own to drop.
PostIsHeld == epc = "post" => post \in held

CopyInv == BuffersConserved /\ PostIsHeld

\* The attached buffers of the specification are those of the lemmas here.
LEMMA AttachedBuffers ==
  ASSUME buf \in [Descs -> Buffers \cup {NoBuf}]
  PROVE  Attached = AttachedTo(buf)
  BY DEF Attached, AttachedTo, Range

\* Steps that rebuild the ring without taking anything out of it.
LEMMA RebuildConserves ==
  ASSUME TypeOK, TypeOK', BuffersConserved, held' = held,
         NEW count \in 0..RxDescs, UpdateDescriptor(buf, count)
  PROVE  BuffersConserved'
<1>1. /\ Attached = AttachedTo(buf)
      /\ Attached' = AttachedTo(buf')
  BY AttachedBuffers DEF TypeOK, RxTypeOK, Attached, AttachedTo, Range
<1>2. Once(buf) /\ AttachedTo(buf) \cap pool = {}
  BY <1>1 DEF BuffersConserved, Once
<1>3. /\ Once(buf')
      /\ AttachedTo(buf') \cap pool' = {}
      /\ AttachedTo(buf') \cup pool' = AttachedTo(buf) \cup pool
  BY <1>2, UpdateConserves DEF TypeOK, RxTypeOK
<1> QED
  BY <1>1, <1>3 DEF BuffersConserved, Once

\* EthIf takes a buffer out of the ring and holds it.
LEMMA ReadConserves ==
  ASSUME TypeOK, TypeOK', BuffersConserved, EthIfRead
  PROVE  BuffersConserved' /\ PostIsHeld'
<1> DEFINE left == [buf EXCEPT ![RxDescIdx] = NoBuf]
           b == buf[RxDescIdx]
<1>1. /\ Attached = AttachedTo(buf)
      /\ Attached' = AttachedTo(buf')
  BY AttachedBuffers DEF TypeOK, RxTypeOK, Attached, AttachedTo, Range
<1>2. /\ RxDescIdx \in Descs /\ b # NoBuf
      /\ held' = held \cup {b} /\ post' = b
      /\ UpdateDescriptor(left, RxBuildDescCnt + 1)
  BY DEF EthIfRead, TypeOK, RxTypeOK
<1>3. /\ left \in [Descs -> Buffers \cup {NoBuf}]
      /\ \A i \in Descs : left[i] = IF i = RxDescIdx THEN NoBuf ELSE buf[i]
      /\ RxBuildDescCnt + 1 \in 0..RxDescs
  BY DEF EthIfRead, FrameReady, TypeOK, RxTypeOK
<1> HIDE DEF left
<1>4. Once(left)
  BY <1>3 DEF Once, BuffersConserved
<1>5. AttachedTo(left) = Attached \ {b}
  BY <1>1, <1>2, <1>3 DEF AttachedTo, BuffersConserved
<1>6. /\ Once(buf')
      /\ AttachedTo(buf') \cap pool' = {}
      /\ AttachedTo(buf') \cup pool' = AttachedTo(left) \cup pool
  BY <1>2, <1>3, <1>4, <1>5, UpdateConserves DEF TypeOK, RxTypeOK, BuffersConserved
<1>7. b \in Attached
  BY <1>1, <1>2 DEF AttachedTo
<1>8. BuffersConserved'
  BY <1>1, <1>2, <1>5, <1>6, <1>7 DEF BuffersConserved, Once
<1> QED
  BY <1>2, <1>8 DEF PostIsHeld

\* A buffer goes back to the pool.
LEMMA ReleaseConserves ==
  ASSUME BuffersConserved, NEW b \in held, UNCHANGED buf,
         held' = held \ {b}, pool' = pool \cup {b}
  PROVE  BuffersConserved'
<1>1. Attached' = Attached
  BY DEF Attached, Range
<1> QED
  BY <1>1 DEF BuffersConserved

\* A step that moves no buffer conserves them.
LEMMA QuietConserves ==
  ASSUME BuffersConserved, UNCHANGED <<buf, pool, held>>
  PROVE  BuffersConserved'
<1>1. Attached' = Attached
  BY DEF Attached, Range
<1> QED
  BY <1>1 DEF BuffersConserved

\* Every step of the receive path conserves the buffers.
LEMMA RxConserves ==
  ASSUME TypeOK, TypeOK', CopyInv, RxNext
  PROVE  CopyInv'
<1> USE DEF CopyInv
<1>1. CASE EthIfRead
  BY <1>1, ReadConserves
<1>2. CASE EthIfRebuild
  <2>1. RxBuildDescCnt \in 0..RxDescs /\ UpdateDescriptor(buf, RxBuildDescCnt)
    BY <1>2 DEF EthIfRebuild, TypeOK, RxTypeOK
  <2> QED
    BY <1>2, <2>1, RebuildConserves DEF EthIfRebuild, PostIsHeld
<1>3. CASE EthIfDrop
  <2>1. post \in held
    BY <1>3 DEF EthIfDrop, PostIsHeld
  <2>2. BuffersConserved'
    BY <1>3, <2>1, ReleaseConserves DEF EthIfDrop, ring
  <2> QED
    BY <1>3, <2>2 DEF EthIfDrop, PostIsHeld
<1>4. CASE EthIfWake \/ EthIfReadAgain \/ EthIfPost \/ EthIfNothing
  BY <1>4, QuietConserves
     DEF EthIfWake, EthIfReadAgain, EthIfPost, EthIfNothing, ring, PostIsHeld
<1>5. CASE RxHardware
  BY <1>5, QuietConserves
     DEF RxHardware, DmaReceive, DmaNoDescriptor, RxInterrupt, ring, rxVars, PostIsHeld
<1>6. ASSUME NEW f \in Freers, FreeNext(f)
      PROVE  CopyInv'
  <2>1. ASSUME NEW b \in Buffers, FreeBuffer(f, b)
        PROVE  CopyInv'
    BY <2>1, ReleaseConserves DEF FreeBuffer, EthIfSleeps, ring, PostIsHeld
  <2>2. CASE FreeCheck(f) \/ FreeSet(f) \/ FreeSignal(f)
    BY <2>2, QuietConserves DEF FreeCheck, FreeSet, FreeSignal, ring, PostIsHeld
  <2> QED
    BY <1>6, <2>1, <2>2 DEF FreeNext
<1> QED
  BY <1>1, <1>2, <1>3, <1>4, <1>5, <1>6 DEF RxNext, EthIfNext

\* So does every step of the driver: only LinkBuild moves buffers besides.
LEMMA NextConserves ==
  ASSUME TypeOK, TypeOK', CopyInv, [Next]_vars
  PROVE  CopyInv'
<1>1. ASSUME UNCHANGED rxVars PROVE CopyInv'
  BY <1>1, QuietConserves DEF CopyInv, rxVars, PostIsHeld
<1>2. CASE RxStep
  BY <1>2, RxConserves DEF RxStep
<1>3. CASE CoreStep \/ TxStep \/ PhyMove \/ Hog
  BY <1>1, <1>3 DEF CoreStep, TxStep, PhyMove, Hog
<1>4. CASE LinkBuild
  <2>1. BuffersConserved'
    BY <1>4, RebuildConserves DEF LinkBuild, CopyInv
  <2> QED
    BY <1>4, <2>1 DEF LinkBuild, CopyInv, PostIsHeld
<1>5. CASE LinkNoBuf \/ LinkStopDma
  <2>1. UNCHANGED <<buf, pool, held, post, epc>>
    BY <1>5 DEF LinkNoBuf, LinkStopDma, ring
  <2> QED
    BY <2>1, QuietConserves DEF CopyInv, PostIsHeld
<1>6. CASE \/ LinkLost \/ LinkFound \/ LinkStop \/ LinkStopIrq \/ LinkDown
           \/ LinkStart \/ LinkEnable \/ LinkIrq \/ LinkStarted
           \/ LinkUp \/ LinkWait \/ LinkAnnounced
  BY <1>1, <1>6 DEF LinkLost, LinkFound, LinkStop, LinkStopIrq,
     LinkDown, LinkStart, LinkEnable, LinkIrq, LinkStarted, LinkUp, LinkWait,
     LinkAnnounced
<1>7. CASE UNCHANGED vars
  BY <1>1, <1>7 DEF vars
<1> QED
  BY <1>2, <1>3, <1>4, <1>5, <1>6, <1>7 DEF Next, LinkStep, LinkNext

\* The ring of low_level_init() has its own buffers, the pool the others.
LEMMA InitConserves ==
  ASSUME Init
  PROVE  CopyInv
<1>1. RxInit(linkUp)
  BY DEF Init
<1>2. TypeOK
  BY InitTypes
<1>3. Attached = AttachedTo(buf)
  BY <1>2, AttachedBuffers DEF TypeOK, RxTypeOK
<1>4. Once(buf)
  BY <1>1 DEF RxInit, Once, Injection, IsInjective
<1>5. pool = Buffers \ AttachedTo(buf) /\ held = {} /\ epc = "wait"
  BY <1>1, <1>2 DEF RxInit, AttachedTo, Range, TypeOK, RxTypeOK
<1>6. AttachedTo(buf) \subseteq Buffers
  BY <1>2 DEF AttachedTo, TypeOK, RxTypeOK
<1> QED
  BY <1>3, <1>4, <1>5, <1>6 DEF CopyInv, BuffersConserved, Once, PostIsHeld

\* Zero copy, through every restart of the link: a receive buffer is in the pool,
\* attached to one descriptor or passed up, and in one of these places only.
THEOREM NoBufferLostOrShared == Spec => []BuffersConserved
<1>1. Init => CopyInv
  BY InitConserves
<1>2. TypeOK /\ TypeOK' /\ CopyInv /\ [Next]_vars => CopyInv'
  BY NextConserves
<1>3. CopyInv => BuffersConserved
  BY DEF CopyInv
<1> QED
  BY <1>1, <1>2, <1>3, DriverTypeCorrect, PTL DEF Spec

----------------------------------------------------------------------------
(* Counting descriptors.                                                   *)

\* The remainder within two rounds of the ring, in terms the provers can use.
LEMMA Wrap ==
  ASSUME NEW i \in 0..(2 * RxDescs - 1)
  PROVE  i % RxDescs = IF i < RxDescs THEN i ELSE i - RxDescs
  OBVIOUS

\* There are RxDescs descriptors.
LEMMA DescsFinite == IsFiniteSet(Descs) /\ Cardinality(Descs) = RxDescs
  BY FS_Interval DEF Descs

\* The descriptors given back in one round are all different ...
LEMMA BuildOnce ==
  ASSUME RxBuildDescIdx \in Descs, NEW n \in 0..(RxDescs - 1)
  PROVE  ToBuild(n) \notin Built(n)
<1> SUFFICES ASSUME NEW k \in 0..(n - 1), ToBuild(n) = ToBuild(k)
             PROVE  FALSE
  BY DEF Built
<1>1. /\ RxBuildDescIdx + n \in 0..(2 * RxDescs - 1)
      /\ RxBuildDescIdx + k \in 0..(2 * RxDescs - 1)
  BY DEF Descs
<1> QED
  BY <1>1, Wrap DEF ToBuild, Descs

\* ... and a whole round meets every descriptor.
LEMMA BuildAll ==
  ASSUME RxBuildDescIdx \in Descs
  PROVE  Built(RxDescs) = Descs
<1>1. Built(RxDescs) \subseteq Descs
  BY BuildInRing DEF Built
<1>2. ASSUME NEW i \in Descs
      PROVE  i \in Built(RxDescs)
  <2> DEFINE k == IF i >= RxBuildDescIdx THEN i - RxBuildDescIdx
                  ELSE i - RxBuildDescIdx + RxDescs
  <2>1. /\ k \in 0..(RxDescs - 1)
        /\ RxBuildDescIdx + k \in 0..(2 * RxDescs - 1)
    BY DEF Descs
  <2>2. ToBuild(k) = i
    BY <2>1, Wrap DEF ToBuild, Descs
  <2> QED
    BY <2>1, <2>2 DEF Built
<1> QED
  BY <1>1, <1>2

----------------------------------------------------------------------------
(* The DMA never writes through a descriptor without a buffer.             *)

Backed == \A i \in Descs : own[i] => buf[i] # NoBuf

\* The MAC was never started, and the pool is full.
Fresh ==
    /\ ~dmaOn /\ ~linkUp /\ gState # "started"
    /\ pool = Buffers /\ held = {}
    /\ epc \in {"wait", "read"}
    /\ lpc \in {"poll", "start", "build"}

DmaInv == Backed \/ Fresh

\* ETH_UpdateDescriptor() gives no descriptor to the DMA without a buffer, and a
\* whole round that leaves none over makes up for those the DMA had.
LEMMA UpdateBacks ==
  ASSUME TypeOK, NEW buffers \in [Descs -> Buffers \cup {NoBuf}],
         NEW count \in 0..RxDescs, UpdateDescriptor(buffers, count),
         \/ \A i \in Descs : own[i] => buffers[i] # NoBuf
         \/ count = RxDescs /\ RxBuildDescCnt' = 0
  PROVE  Backed'
<1>1. PICK n \in 0..count :
        /\ Attach(buffers, n)
        /\ own' = [i \in Descs |-> own[i] \/ i \in Built(n)]
        /\ RxBuildDescCnt' = count - n
  BY DEF UpdateDescriptor
<1>2. PICK new \in Injection(Bare(buffers, n), pool) :
        buf' = [i \in Descs |-> IF i \in DOMAIN new THEN new[i] ELSE buffers[i]]
  BY <1>1 DEF Attach
<1>3. new \in [Bare(buffers, n) -> pool] /\ pool \subseteq Buffers
  BY <1>2 DEF Injection, IsInjective, TypeOK, RxTypeOK
<1>4. \A i \in Descs : buf'[i] = IF i \in Bare(buffers, n) THEN new[i] ELSE buffers[i]
  BY <1>2, <1>3
<1> SUFFICES ASSUME NEW i \in Descs, own'[i]
             PROVE  buf'[i] # NoBuf
  BY DEF Backed
<1>5. CASE i \in Built(n)
  <2>1. CASE buffers[i] = NoBuf
    BY <1>3, <1>4, <1>5, <2>1 DEF Bare
  <2>2. CASE buffers[i] # NoBuf
    BY <1>4, <2>2 DEF Bare
  <2> QED
    BY <2>1, <2>2
<1>6. CASE i \notin Built(n)
  <2>1. own[i]
    BY <1>1, <1>6
  <2>2. n # RxDescs
    BY <1>6, BuildAll DEF TypeOK, RxTypeOK
  <2>3. buffers[i] # NoBuf
    BY <1>1, <2>1, <2>2
  <2> QED
    BY <1>4, <2>3 DEF Bare
<1> QED
  BY <1>5, <1>6

\* The first start finds enough buffers for all descriptors.
LEMMA FreshBuild ==
  ASSUME TypeOK, pool = Buffers, UpdateDescriptor(buf, RxDescs)
  PROVE  RxBuildDescCnt' = 0
<1>1. PICK n \in 0..RxDescs :
        /\ n < RxDescs => RunsDry(buf, n)
        /\ RxBuildDescCnt' = RxDescs - n
  BY DEF UpdateDescriptor
<1>2. ASSUME n < RxDescs
      PROVE  FALSE
  <2>1. /\ buf[ToBuild(n)] = NoBuf
        /\ Cardinality(Buffers) = Cardinality(Bare(buf, n))
    BY <1>1, <1>2 DEF RunsDry
  <2>2. /\ Bare(buf, n) \subseteq Descs \ {ToBuild(n)}
        /\ ToBuild(n) \in Descs
    BY <1>2, BuildInRing, BuildOnce DEF Bare, Built, TypeOK, RxTypeOK
  <2>3. /\ IsFiniteSet(Descs \ {ToBuild(n)})
        /\ Cardinality(Descs \ {ToBuild(n)}) = RxDescs - 1
    BY <2>2, DescsFinite, FS_RemoveElement
  <2>4. Cardinality(Bare(buf, n)) <= RxDescs - 1
    BY <2>2, <2>3, FS_Subset
  <2>5. Cardinality(Bare(buf, n)) \in Nat
    BY <2>2, <2>3, FS_Subset, FS_CardinalityType
  <2> QED
    BY <2>1, <2>4, <2>5
<1> QED
  BY <1>1, <1>2

\* At boot every descriptor has a buffer, or the MAC is not started.
LEMMA InitBacked ==
  ASSUME Init
  PROVE  DmaInv
<1>1. RxInit(linkUp) /\ MacInit(linkUp) /\ lpc = "poll"
  BY DEF Init
<1>2. CASE linkUp
  <2>1. buf \in [Descs -> Buffers]
    BY <1>1, <1>2 DEF RxInit, Injection, IsInjective
  <2> QED
    BY <2>1 DEF DmaInv, Backed
<1>3. CASE ~linkUp
  <2>1. Range(buf) \subseteq {NoBuf}
    BY <1>1, <1>3 DEF RxInit, Range
  <2>2. pool = Buffers /\ held = {} /\ epc = "wait"
    BY <1>1, <2>1 DEF RxInit
  <2>3. ~dmaOn /\ gState = "ready"
    BY <1>1, <1>3 DEF MacInit
  <2> QED
    BY <1>1, <1>3, <2>2, <2>3 DEF DmaInv, Fresh
<1> QED
  BY <1>2, <1>3

\* The receive path keeps the DMA's descriptors backed.
LEMMA RxBacked ==
  ASSUME TypeOK, DmaInv, RxStep
  PROVE  DmaInv'
<1>1. CASE EthIfRead
  <2> DEFINE left == [buf EXCEPT ![RxDescIdx] = NoBuf]
  <2>1. Backed /\ ~own[RxDescIdx]
    BY <1>1 DEF EthIfRead, MayRead, FrameReady, DmaInv, Fresh
  <2>2. /\ left \in [Descs -> Buffers \cup {NoBuf}]
        /\ \A i \in Descs : own[i] => left[i] # NoBuf
        /\ RxBuildDescCnt + 1 \in 0..RxDescs
    BY <1>1, <2>1 DEF EthIfRead, FrameReady, TypeOK, RxTypeOK, Backed
  <2>3. UpdateDescriptor(left, RxBuildDescCnt + 1)
    BY <1>1 DEF EthIfRead
  <2> HIDE DEF left
  <2> QED
    BY <2>2, <2>3, UpdateBacks DEF DmaInv
<1>2. CASE EthIfRebuild
  <2>1. Backed
    BY <1>2 DEF EthIfRebuild, MayRead, DmaInv, Fresh
  <2>2. /\ buf \in [Descs -> Buffers \cup {NoBuf}]
        /\ RxBuildDescCnt \in 0..RxDescs
        /\ UpdateDescriptor(buf, RxBuildDescCnt)
    BY <1>2 DEF EthIfRebuild, TypeOK, RxTypeOK
  <2> QED
    BY <2>1, <2>2, UpdateBacks DEF DmaInv, Backed
<1>3. CASE EthIfWake \/ EthIfReadAgain \/ EthIfPost \/ EthIfDrop \/ EthIfNothing
  BY <1>3 DEF RxStep, EthIfWake, EthIfReadAgain, EthIfPost, EthIfDrop, EthIfNothing,
     MayRead, ring, macVars, linkVars, DmaInv, Backed, Fresh
<1>4. CASE DmaReceive
  <2>1. Backed
    BY <1>4 DEF DmaReceive, DmaInv, Fresh
  <2> QED
    BY <1>4, <2>1 DEF DmaReceive, DmaInv, Backed, TypeOK, RxTypeOK
<1>5. CASE DmaNoDescriptor
  BY <1>5 DEF RxStep, DmaNoDescriptor, rxVars, linkVars, DmaInv, Backed, Fresh
<1>6. CASE RxInterrupt
  BY <1>6 DEF RxStep, RxInterrupt, ring, linkVars, DmaInv, Backed, Fresh
<1>7. ASSUME NEW f \in Freers, FreeNext(f)
      PROVE  DmaInv'
  BY <1>7 DEF RxStep, FreeNext, FreeBuffer, FreeCheck, FreeSet, FreeSignal, ring,
     macVars, linkVars, DmaInv, Backed, Fresh
<1> QED
  BY <1>1, <1>2, <1>3, <1>4, <1>5, <1>6, <1>7 DEF RxStep, RxNext, EthIfNext, RxHardware

\* So does the link thread: its first start backs them, later ones keep them so.
LEMMA LinkBacked ==
  ASSUME TypeOK, DmaInv, LinkNext
  PROVE  DmaInv'
<1> USE DEF DmaInv, Backed, Fresh, LinkAt
<1>1. CASE LinkBuild
  <2>1. /\ buf \in [Descs -> Buffers \cup {NoBuf}] /\ RxDescs \in 0..RxDescs
    BY DEF TypeOK, RxTypeOK
  <2>2. UpdateDescriptor(buf, RxDescs)
    BY <1>1 DEF LinkBuild
  <2>4. CASE Backed
    BY <2>1, <2>2, <2>4, UpdateBacks
  <2>5. CASE Fresh
    <3>1. RxBuildDescCnt' = 0
      BY <2>2, <2>5, FreshBuild
    <3> QED
      BY <2>1, <2>2, <3>1, UpdateBacks
  <2> QED
    BY <2>4, <2>5
<1>2. CASE LinkNoBuf \/ LinkLost \/ LinkFound
  BY <1>2 DEF LinkNoBuf, LinkLost, LinkFound, ring, rxVars, macVars
<1>3. CASE LinkStop \/ LinkStopIrq \/ LinkStopDma \/ LinkDown
  BY <1>3 DEF LinkStop, LinkStopIrq, LinkStopDma, LinkDown, MacStop, MacStopIrq,
     MacStopDma, rxVars, ring, macVars
<1>4. CASE LinkStart \/ LinkEnable \/ LinkIrq \/ LinkStarted
  BY <1>4 DEF LinkStart, LinkEnable, LinkIrq, LinkStarted, MacStart, MacEnableDma,
     MacEnableIrq, MacStarted, rxVars
<1>5. CASE LinkUp \/ LinkAnnounced
  BY <1>5 DEF LinkUp, LinkAnnounced, Transmit, ReleaseTxPacket, rxVars, macVars
<1>6. CASE LinkWait
  BY <1>6 DEF LinkWait, TxAcquire, rxVars, macVars, linkVars
<1> QED
  BY <1>1, <1>2, <1>3, <1>4, <1>5, <1>6 DEF LinkNext

\* And so does every other step.
LEMMA NextBacked ==
  ASSUME TypeOK, DmaInv, [Next]_vars
  PROVE  DmaInv'
<1>1. CASE CoreStep
  BY <1>1 DEF CoreStep, CoreSends, Transmit, TxAcquire, ReleaseTxPacket, rxVars,
     macVars, linkVars, DmaInv, Backed, Fresh
<1>2. CASE TxStep
  BY <1>2 DEF TxStep, TxHardware, DmaTransmit, TxInterrupt, rxVars, linkVars,
     DmaInv, Backed, Fresh
<1>3. CASE PhyMove \/ Hog \/ UNCHANGED vars
  BY <1>3 DEF PhyMove, Hog, vars, rxVars, macVars, linkVars, DmaInv, Backed, Fresh
<1> QED
  BY <1>1, <1>2, <1>3, RxBacked, LinkBacked DEF Next, LinkStep

\* Whatever state the ring is in when the link is restarted, the DMA owns no
\* descriptor without a buffer while it runs.
THEOREM DmaNeverBare == Spec => []DmaHasBuffer
<1>1. Init => DmaInv
  BY InitBacked
<1>2. TypeOK /\ DmaInv /\ [Next]_vars => DmaInv'
  BY NextBacked
<1>3. DmaInv => DmaHasBuffer
  BY DEF DmaInv, Backed, Fresh, DmaHasBuffer
<1> QED
  BY <1>1, <1>2, <1>3, DriverTypeCorrect, PTL DEF Spec

----------------------------------------------------------------------------
(* A dry pool, while the link is up.                                       *)

\* A PHY that never reports the link down gives the link thread nothing to do.
StaysUp == linkUp /\ lpc = "poll"

\* It can only wait for a token it never asked for.
LEMMA OnlyWaits ==
  ASSUME "down" \notin PhyStates, TypeOK, StaysUp, LinkNext
  PROVE  LinkWait
<1>1. phy # "down" /\ linkUp /\ lpc = "poll"
  BY DEF TypeOK, LinkTypeOK, StaysUp
<1>2. LinkWait \/ LinkLost \/ LinkFound
  BY <1>1 DEF LinkNext, LinkAt, LinkStop, LinkStopIrq, LinkStopDma, LinkDown,
     LinkStart, LinkBuild, LinkNoBuf, LinkEnable, LinkIrq, LinkStarted, LinkUp,
     LinkAnnounced
<1> QED
  BY <1>1, <1>2 DEF LinkLost, LinkFound

\* A rebuild that leaves descriptors over has emptied the pool, and one of those it
\* leaves over has no buffer.
LEMMA UpdateDry ==
  ASSUME TypeOK, UpdateDescriptor(buf, RxBuildDescCnt), RxBuildDescCnt' # 0
  PROVE  pool' = {} /\ \E i \in Descs : buf'[i] = NoBuf
<1>1. PICK n \in 0..RxBuildDescCnt :
        /\ n < RxBuildDescCnt => RunsDry(buf, n)
        /\ Attach(buf, n)
        /\ RxBuildDescCnt' = RxBuildDescCnt - n
  BY DEF UpdateDescriptor
<1>2. /\ n \in 0..(RxDescs - 1)
      /\ RunsDry(buf, n)
  BY <1>1 DEF TypeOK, RxTypeOK
<1> DEFINE B == Bare(buf, n)
           d == ToBuild(n)
<1>3. PICK new \in Injection(B, pool) :
        /\ buf' = [i \in Descs |-> IF i \in DOMAIN new THEN new[i] ELSE buf[i]]
        /\ pool' = pool \ Range(new)
  BY <1>1 DEF Attach
<1>4. new \in [B -> pool]
  BY <1>3 DEF Injection
<1>5. /\ d \in Descs /\ d \notin B /\ buf[d] = NoBuf
      /\ Cardinality(B) = Cardinality(pool)
  BY <1>2, BuildInRing, BuildOnce DEF RunsDry, Bare, TypeOK, RxTypeOK
<1>6. IsFiniteSet(pool)
  BY FS_Subset DEF TypeOK, RxTypeOK
<1> HIDE DEF B, d
<1>7. new \in Surjection(B, pool)
  BY <1>3, <1>5, <1>6, FS_Injection
<1>8. Range(new) = pool
  BY <1>4, <1>7 DEF Surjection, Range
<1>9. buf'[d] = NoBuf
  BY <1>3, <1>4, <1>5
<1> QED
  BY <1>3, <1>5, <1>8, <1>9

\* There is a buffer for every descriptor: with none free and a descriptor bare,
\* some buffer has been passed up.
LEMMA SomeHeld ==
  ASSUME TypeOK', BuffersConserved', pool' = {}, NEW d \in Descs, buf'[d] = NoBuf
  PROVE  held' # {}
<1> SUFFICES ASSUME held' = {} PROVE FALSE
  OBVIOUS
<1> DEFINE rest == Descs \ {d}
           f == [i \in rest |-> IF buf'[i] = NoBuf
                             THEN CHOOSE b \in Buffers : TRUE ELSE buf'[i]]
<1>1. IsFiniteSet(rest) /\ Cardinality(rest) = RxDescs - 1
  BY DescsFinite, FS_RemoveElement
<1>2. Buffers = AttachedTo(buf')
  BY DEF BuffersConserved, Attached, AttachedTo, Range, TypeOK, RxTypeOK
<1>3. Buffers # {}
  BY FS_EmptySet
<1>4. f \in [rest -> Buffers]
  BY <1>3 DEF TypeOK, RxTypeOK
<1>5. ASSUME NEW b \in Buffers
      PROVE  \E i \in rest : f[i] = b
  <2>1. PICK i \in Descs : buf'[i] = b
    BY <1>2 DEF AttachedTo
  <2> QED
    BY <2>1
<1>6. f \in Surjection(rest, Buffers)
  BY <1>4, <1>5 DEF Surjection
<1> HIDE DEF rest, f
<1>7. Cardinality(Buffers) <= RxDescs - 1
  BY <1>1, <1>6, FS_Surjection
<1>8. Cardinality(Buffers) \in Nat
  BY FS_CardinalityType
<1> QED
  BY <1>7, <1>8

\* A rebuild that switches reception off leaves a buffer to be freed, so does the
\* frame EthIf takes out; a thread that frees the last one looks at the status next.
LEMMA RxSignals ==
  ASSUME TypeOK, TypeOK', BuffersConserved', ExhaustionIsSignalled, RxStep
  PROVE  ExhaustionIsSignalled'
<1> USE DEF ExhaustionIsSignalled
<1>1. CASE EthIfRead
  BY <1>1 DEF EthIfRead
<1>2. CASE EthIfRebuild
  <2>1. UNCHANGED <<held, fpc>>
    BY <1>2 DEF EthIfRebuild
  <2>2. CASE RxBuildDescCnt' = 0
    BY <1>2, <2>1, <2>2 DEF EthIfRebuild, AllocStatusAfter
  <2>3. CASE RxBuildDescCnt' # 0
    <3>1. pool' = {} /\ \E i \in Descs : buf'[i] = NoBuf
      BY <1>2, <2>3, UpdateDry DEF EthIfRebuild
    <3>2. held' # {}
      BY <3>1, SomeHeld
    <3> QED
      BY <3>2
  <2> QED
    BY <2>2, <2>3
<1>3. CASE EthIfWake \/ EthIfReadAgain \/ EthIfPost \/ EthIfDrop \/ EthIfNothing
  BY <1>3 DEF EthIfWake, EthIfReadAgain, EthIfPost, EthIfDrop, EthIfNothing
<1>4. CASE RxHardware
  BY <1>4 DEF RxHardware, DmaReceive, DmaNoDescriptor, RxInterrupt, rxVars
<1>5. ASSUME NEW f \in Freers, FreeNext(f)
      PROVE  ExhaustionIsSignalled'
  <2> USE DEF TypeOK, RxTypeOK
  <2>1. ASSUME NEW b \in Buffers, FreeBuffer(f, b)
        PROVE  ExhaustionIsSignalled'
    BY <2>1 DEF FreeBuffer
  <2>2. CASE FreeCheck(f)
    BY <2>2 DEF FreeCheck
  <2>3. CASE FreeSet(f)
    BY <2>3 DEF FreeSet
  <2>4. CASE FreeSignal(f)
    BY <2>4 DEF FreeSignal
  <2> QED
    BY <1>5, <2>1, <2>2, <2>3, <2>4 DEF FreeNext
<1> QED
  BY <1>1, <1>2, <1>3, <1>4, <1>5 DEF RxStep, RxNext, EthIfNext

\* Nothing but the receive path moves while the link stays up.
LEMMA NextSignals ==
  ASSUME "down" \notin PhyStates, TypeOK, TypeOK', BuffersConserved',
         StaysUp, ExhaustionIsSignalled, [Next]_vars
  PROVE  StaysUp' /\ ExhaustionIsSignalled'
<1>1. ASSUME UNCHANGED rxVars PROVE ExhaustionIsSignalled'
  BY <1>1 DEF rxVars, ExhaustionIsSignalled
<1>2. CASE RxStep
  BY <1>2, RxSignals DEF RxStep, linkVars, StaysUp
<1>3. CASE CoreStep \/ TxStep \/ PhyMove \/ Hog \/ UNCHANGED vars
  BY <1>1, <1>3 DEF CoreStep, TxStep, PhyMove, Hog, vars, linkVars, StaysUp
<1>4. CASE LinkNext
  BY <1>1, <1>4, OnlyWaits DEF LinkWait, linkVars, StaysUp
<1> QED
  BY <1>2, <1>3, <1>4 DEF Next, LinkStep

\* While the link stays up, reception switched off for want of buffers is switched
\* on again: a buffer is still to be freed, or its freeing has still to look.
THEOREM DryPoolIsSignalled ==
  ASSUME "down" \notin PhyStates
  PROVE  Spec => []ExhaustionIsSignalled
<1>1. Init => StaysUp /\ ExhaustionIsSignalled
  <2>1. Init => StaysUp
    BY DEF Init, StaysUp
  <2>2. Init => ExhaustionIsSignalled
    BY DEF Init, RxInit, ExhaustionIsSignalled
  <2> QED
    BY <2>1, <2>2
<1>2. /\ TypeOK /\ TypeOK' /\ BuffersConserved'
      /\ StaysUp /\ ExhaustionIsSignalled /\ [Next]_vars
      => StaysUp' /\ ExhaustionIsSignalled'
  BY NextSignals
<1> QED
  BY <1>1, <1>2, DriverTypeCorrect, NoBufferLostOrShared, PTL DEF Spec
----------------------------------------------------------------------------
(* The order of the ring, while the link is up.                            *)

\* The k-th descriptor from r, without the remainder.
Around(r, k) == IF r + k < RxDescs THEN r + k ELSE r + k - RxDescs

\* RingInOrder with its parts named: n frames from r on, what the DMA owns from
\* d on, and cnt descriptors from b on to give back.
Ordered(n, r, owned, buffers, b, cnt, d) ==
    /\ n + cnt <= RxDescs
    /\ \A k \in 0..(RxDescs - 1) :
        /\ k < n => ~owned[Around(r, k)] /\ buffers[Around(r, k)] # NoBuf
        /\ k \in n..(RxDescs - cnt - 1) => owned[Around(r, k)]
        /\ k >= RxDescs - cnt => ~owned[Around(r, k)] /\ buffers[Around(r, k)] = NoBuf
    /\ d = Around(r, n)
    /\ r = Around(b, cnt)

RingOrdered(n) ==
    Ordered(n, RxDescIdx, own, buf, RxBuildDescIdx, RxBuildDescCnt, dmaIdx)

\* Going once round from a descriptor, the remainder is one subtraction.
LEMMA AroundIs ==
  ASSUME NEW r \in Descs, NEW k \in 0..RxDescs
  PROVE  /\ (r + k) % RxDescs = Around(r, k)
         /\ k < RxDescs => Around(r, k) \in Descs
<1>1. r + k \in 0..(2 * RxDescs - 1)
  BY DEF Descs
<1> QED
  BY <1>1, Wrap DEF Around, Descs

\* It meets no descriptor twice, and every one.
LEMMA AroundOnce ==
  ASSUME NEW r \in Descs
  PROVE  /\ \A j, k \in 0..(RxDescs - 1) : Around(r, j) = Around(r, k) => j = k
         /\ \A i \in Descs : \E k \in 0..(RxDescs - 1) : i = Around(r, k)
<1>1. \A j, k \in 0..(RxDescs - 1) : Around(r, j) = Around(r, k) => j = k
  BY DEF Around, Descs
<1>2. ASSUME NEW i \in Descs
      PROVE  \E k \in 0..(RxDescs - 1) : i = Around(r, k)
  <2> DEFINE k == IF i >= r THEN i - r ELSE i - r + RxDescs
  <2>1. k \in 0..(RxDescs - 1) /\ i = Around(r, k)
    BY DEF Around, Descs
  <2> QED
    BY <2>1
<1> QED
  BY <1>1, <1>2

\* RingInOrder says that the parts are ordered.
LEMMA OrderedIsRing ==
  ASSUME RxTypeOK
  PROVE  RingInOrder <=> \E n \in 0..RxDescs : RingOrdered(n)
<1>1. /\ RxDescIdx \in Descs /\ RxBuildDescIdx \in Descs
      /\ RxBuildDescCnt \in 0..RxDescs
  BY DEF RxTypeOK
<1>2. \A k \in 0..RxDescs : (RxDescIdx + k) % RxDescs = Around(RxDescIdx, k)
  BY <1>1, AroundIs
<1>3. (RxBuildDescIdx + RxBuildDescCnt) % RxDescs = Around(RxBuildDescIdx, RxBuildDescCnt)
  BY <1>1, AroundIs
<1>4. \A k \in 0..(RxDescs - 1) : k \in 0..RxDescs
  OBVIOUS
<1> QED
  BY <1>2, <1>3, <1>4 DEF RingInOrder, RingOrdered, Ordered, Unread

\* The same after a step.
LEMMA OrderedIsRingNext ==
  ASSUME RxTypeOK', NEW n \in 0..RxDescs, RingOrdered(n)'
  PROVE  RingInOrder'
<1>1. /\ RxDescIdx' \in Descs /\ RxBuildDescIdx' \in Descs
      /\ RxBuildDescCnt' \in 0..RxDescs
  BY DEF RxTypeOK
<1>2. \A k \in 0..RxDescs : (RxDescIdx' + k) % RxDescs = Around(RxDescIdx', k)
  BY <1>1, AroundIs
<1>3. (RxBuildDescIdx' + RxBuildDescCnt') % RxDescs = Around(RxBuildDescIdx', RxBuildDescCnt')
  BY <1>1, AroundIs
<1>4. \A k \in 0..(RxDescs - 1) : k \in 0..RxDescs
  OBVIOUS
<1> QED
  BY <1>2, <1>3, <1>4 DEF RingInOrder, RingOrdered, Ordered, Unread

\* EthIf takes the first frame out: its descriptor is the last to give back.
LEMMA TakeOrdered ==
  ASSUME NEW n \in 1..RxDescs, NEW r \in Descs, NEW b \in Descs,
         NEW cnt \in 0..RxDescs, NEW d \in Descs,
         NEW owned \in [Descs -> BOOLEAN],
         NEW buffers \in [Descs -> Buffers \cup {NoBuf}],
         Ordered(n, r, owned, buffers, b, cnt, d)
  PROVE  Ordered(n - 1, Next1(r), owned, [buffers EXCEPT ![r] = NoBuf], b, cnt + 1, d)
<1> DEFINE left == [buffers EXCEPT ![r] = NoBuf]
           s == Next1(r)
<1>1. s = Around(r, 1) /\ s \in Descs /\ 1 \in 0..RxDescs
  BY AroundIs, NextInRing DEF Next1
<1>2. n + cnt <= RxDescs /\ d = Around(r, n) /\ r = Around(b, cnt)
  BY DEF Ordered
<1>3. d = Around(s, n - 1) /\ s = Around(b, cnt + 1)
  BY <1>1, <1>2 DEF Around, Descs
<1>4. ASSUME NEW k \in 0..(RxDescs - 2)
      PROVE  /\ k + 1 \in 0..(RxDescs - 1)
             /\ Around(s, k) = Around(r, k + 1)
             /\ Around(s, k) \in Descs
             /\ Around(s, k) # r
  BY <1>1 DEF Around, Descs
<1>5. Around(s, RxDescs - 1) = r
  BY <1>1 DEF Around, Descs
<1>6. \A i \in Descs : left[i] = IF i = r THEN NoBuf ELSE buffers[i]
  OBVIOUS
<1>7. ~owned[r]
  <2>1. 0 \in 0..(RxDescs - 1) /\ Around(r, 0) = r
    BY DEF Around, Descs
  <2> QED
    BY <2>1 DEF Ordered
<1> HIDE DEF left, s
<1>8. ASSUME NEW k \in 0..(RxDescs - 1)
      PROVE  /\ k < n - 1 => ~owned[Around(s, k)] /\ left[Around(s, k)] # NoBuf
             /\ k \in (n - 1)..(RxDescs - (cnt + 1) - 1) => owned[Around(s, k)]
             /\ k >= RxDescs - (cnt + 1) =>
                  ~owned[Around(s, k)] /\ left[Around(s, k)] = NoBuf
  <2>1. CASE k = RxDescs - 1
    BY <1>2, <1>5, <1>6, <1>7, <2>1
  <2>2. CASE k # RxDescs - 1
    <3>1. k \in 0..(RxDescs - 2)
      BY <2>2
    <3>2. /\ k + 1 < n => ~owned[Around(r, k + 1)] /\ buffers[Around(r, k + 1)] # NoBuf
          /\ k + 1 \in n..(RxDescs - cnt - 1) => owned[Around(r, k + 1)]
          /\ k + 1 >= RxDescs - cnt =>
               ~owned[Around(r, k + 1)] /\ buffers[Around(r, k + 1)] = NoBuf
      BY <1>4, <3>1 DEF Ordered
    <3>3. left[Around(s, k)] = buffers[Around(r, k + 1)]
      BY <1>4, <1>6, <3>1
    <3>4. Around(s, k) = Around(r, k + 1)
      BY <1>4, <3>1
    <3> QED
      BY <3>2, <3>3, <3>4
  <2> QED
    BY <2>1, <2>2
<1>9. n - 1 + (cnt + 1) <= RxDescs
  BY <1>2
<1>10. Ordered(n - 1, s, owned, left, b, cnt + 1, d)
  BY <1>3, <1>8, <1>9 DEF Ordered
<1> QED
  BY <1>10 DEF left, s

\* ETH_UpdateDescriptor() gives the DMA those that follow what it owns.
LEMMA BuildOrdered ==
  ASSUME own \in [Descs -> BOOLEAN], pool \subseteq Buffers, RxBuildDescIdx \in Descs,
         NEW n \in 0..RxDescs, NEW r \in Descs, NEW d \in Descs,
         NEW buffers \in [Descs -> Buffers \cup {NoBuf}],
         NEW count \in 0..RxDescs,
         Ordered(n, r, own, buffers, RxBuildDescIdx, count, d),
         UpdateDescriptor(buffers, count)
  PROVE  Ordered(n, r, own', buf', RxBuildDescIdx', RxBuildDescCnt', d)
<1>1. PICK m \in 0..count :
        /\ Attach(buffers, m)
        /\ own' = [i \in Descs |-> own[i] \/ i \in Built(m)]
        /\ RxBuildDescIdx' = ToBuild(m)
        /\ RxBuildDescCnt' = count - m
  BY DEF UpdateDescriptor
<1>2. PICK new \in Injection(Bare(buffers, m), pool) :
        buf' = [i \in Descs |-> IF i \in DOMAIN new THEN new[i] ELSE buffers[i]]
  BY <1>1 DEF Attach
<1>3. new \in [Bare(buffers, m) -> pool]
  BY <1>2 DEF Injection, IsInjective
<1>4. /\ n + count <= RxDescs /\ d = Around(r, n)
      /\ r = Around(RxBuildDescIdx, count)
  BY DEF Ordered
<1>5. \A j \in 0..RxDescs : ToBuild(j) = Around(RxBuildDescIdx, j)
  BY AroundIs DEF ToBuild
<1>6. r = Around(RxBuildDescIdx', RxBuildDescCnt')
  <2>1. RxBuildDescIdx' = Around(RxBuildDescIdx, m)
    BY <1>1, <1>5
  <2>2. CASE m < RxDescs
    BY <1>1, <1>4, <2>1, <2>2 DEF Around, Descs
  <2>3. CASE m = RxDescs
    BY <1>1, <1>4, <2>1, <2>3 DEF Around, Descs
  <2> QED
    BY <2>2, <2>3
<1>7. ASSUME NEW k \in 0..(RxDescs - 1)
      PROVE  /\ Around(r, k) \in Descs
             /\ Around(r, k) \in Built(m)
                  <=> k \in (RxDescs - count)..(RxDescs - count + m - 1)
  <2>1. Around(r, k) \in Descs
    BY AroundIs
  <2>2. ASSUME k \in (RxDescs - count)..(RxDescs - count + m - 1)
        PROVE  Around(r, k) \in Built(m)
    <3>1. k - (RxDescs - count) \in 0..(m - 1) /\ k - (RxDescs - count) \in 0..RxDescs
      BY <2>2
    <3>2. Around(r, k) = Around(RxBuildDescIdx, k - (RxDescs - count))
      BY <1>4, <2>2 DEF Around, Descs
    <3>3. Around(r, k) = ToBuild(k - (RxDescs - count))
      BY <1>5, <3>1, <3>2
    <3> QED
      BY <3>1, <3>3 DEF Built
  <2>3. ASSUME Around(r, k) \in Built(m)
        PROVE  k \in (RxDescs - count)..(RxDescs - count + m - 1)
    <3>1. PICK j \in 0..(m - 1) : Around(r, k) = ToBuild(j)
      BY <2>3 DEF Built
    <3>2. Around(r, k) = Around(RxBuildDescIdx, j)
      BY <1>5, <3>1
    <3>3. Around(RxBuildDescIdx, j) = Around(r, RxDescs - count + j)
      BY <1>4 DEF Around, Descs
    <3>4. RxDescs - count + j \in 0..(RxDescs - 1)
      OBVIOUS
    <3>5. k = RxDescs - count + j
      BY <3>2, <3>3, <3>4, AroundOnce
    <3> QED
      BY <3>5
  <2> QED
    BY <2>1, <2>2, <2>3
<1>8. \A i \in Descs :
        /\ i \in Built(m) => own'[i] /\ buf'[i] # NoBuf
        /\ i \notin Built(m) => own'[i] = own[i] /\ buf'[i] = buffers[i]
  <2> SUFFICES ASSUME NEW i \in Descs
               PROVE  /\ i \in Built(m) => own'[i] /\ buf'[i] # NoBuf
                      /\ i \notin Built(m) => own'[i] = own[i] /\ buf'[i] = buffers[i]
    OBVIOUS
  <2>1. buf'[i] = IF i \in Bare(buffers, m) THEN new[i] ELSE buffers[i]
    BY <1>2, <1>3
  <2>2. own'[i] = (own[i] \/ i \in Built(m))
    BY <1>1
  <2>3. i \in Bare(buffers, m) <=> i \in Built(m) /\ buffers[i] = NoBuf
    BY DEF Bare
  <2>4. i \in Bare(buffers, m) => new[i] # NoBuf
    BY <1>3
  <2>5. own[i] \in BOOLEAN
    OBVIOUS
  <2> QED
    BY <2>1, <2>2, <2>3, <2>4, <2>5
<1>9. ASSUME NEW k \in 0..(RxDescs - 1)
      PROVE  /\ k < n => ~own'[Around(r, k)] /\ buf'[Around(r, k)] # NoBuf
             /\ k \in n..(RxDescs - RxBuildDescCnt' - 1) => own'[Around(r, k)]
             /\ k >= RxDescs - RxBuildDescCnt' =>
                  ~own'[Around(r, k)] /\ buf'[Around(r, k)] = NoBuf
  <2>1. /\ k < n => ~own[Around(r, k)] /\ buffers[Around(r, k)] # NoBuf
        /\ k \in n..(RxDescs - count - 1) => own[Around(r, k)]
        /\ k >= RxDescs - count => ~own[Around(r, k)] /\ buffers[Around(r, k)] = NoBuf
    BY DEF Ordered
  <2>2. CASE Around(r, k) \in Built(m)
    <3>1. own'[Around(r, k)] /\ buf'[Around(r, k)] # NoBuf
      BY <1>7, <1>8, <2>2
    <3>2. ~(k < n) /\ ~(k >= RxDescs - RxBuildDescCnt')
      BY <1>1, <1>4, <1>7, <2>2
    <3> QED
      BY <3>1, <3>2
  <2>3. CASE Around(r, k) \notin Built(m)
    <3>1. own'[Around(r, k)] = own[Around(r, k)] /\ buf'[Around(r, k)] = buffers[Around(r, k)]
      BY <1>7, <1>8, <2>3
    <3>2. k \notin (RxDescs - count)..(RxDescs - count + m - 1)
      BY <1>7, <2>3
    <3>3. /\ k \in n..(RxDescs - RxBuildDescCnt' - 1) => k \in n..(RxDescs - count - 1)
          /\ k >= RxDescs - RxBuildDescCnt' => k >= RxDescs - count
      BY <1>1, <3>2
    <3> QED
      BY <2>1, <3>1, <3>3
  <2> QED
    BY <2>2, <2>3
<1>10. n + RxBuildDescCnt' <= RxDescs
  BY <1>1, <1>4
<1> QED
  BY <1>4, <1>6, <1>9, <1>10 DEF Ordered
\* The DMA fills the first descriptor it owns, which has a buffer.
LEMMA ReceiveOrdered ==
  ASSUME RxTypeOK, DmaHasBuffer, NEW n \in 0..RxDescs, RingOrdered(n), DmaReceive
  PROVE  n + 1 \in 0..RxDescs /\ RingOrdered(n + 1)'
<1> USE DEF RxTypeOK
<1>1. /\ dmaOn /\ own[dmaIdx] /\ own' = [own EXCEPT ![dmaIdx] = FALSE]
      /\ dmaIdx' = Next1(dmaIdx)
      /\ UNCHANGED <<buf, RxDescIdx, RxBuildDescIdx, RxBuildDescCnt>>
  BY DEF DmaReceive
<1>2. /\ n + RxBuildDescCnt <= RxDescs /\ dmaIdx = Around(RxDescIdx, n)
      /\ RxDescIdx = Around(RxBuildDescIdx, RxBuildDescCnt)
  BY DEF RingOrdered, Ordered
<1>3. \A k \in 0..(RxDescs - 1) :
        /\ k < n => ~own[Around(RxDescIdx, k)] /\ buf[Around(RxDescIdx, k)] # NoBuf
        /\ k \in n..(RxDescs - RxBuildDescCnt - 1) => own[Around(RxDescIdx, k)]
        /\ k >= RxDescs - RxBuildDescCnt =>
             ~own[Around(RxDescIdx, k)] /\ buf[Around(RxDescIdx, k)] = NoBuf
  BY DEF RingOrdered, Ordered
<1>4. n # RxDescs
  <2> SUFFICES ASSUME n = RxDescs PROVE FALSE
    OBVIOUS
  <2>1. 0 \in 0..(RxDescs - 1) /\ dmaIdx = Around(RxDescIdx, 0)
    BY <1>2 DEF Around, Descs
  <2> QED
    BY <1>1, <1>3, <2>1
<1>5. n \in 0..(RxDescs - 1) /\ n + 1 + RxBuildDescCnt <= RxDescs
  <2>1. n \in 0..(RxDescs - 1)
    BY <1>4
  <2> QED
    BY <1>1, <1>2, <1>3, <2>1
<1>6. dmaIdx' = Around(RxDescIdx, n + 1)
  <2>1. dmaIdx' = Around(dmaIdx, 1)
    BY <1>1, AroundIs DEF Next1
  <2> QED
    BY <1>2, <1>5, <2>1 DEF Around, Descs
<1>7. buf[Around(RxDescIdx, n)] # NoBuf
  BY <1>1, <1>2 DEF DmaHasBuffer
<1>8. ASSUME NEW k \in 0..(RxDescs - 1)
      PROVE  /\ k = n => ~own'[Around(RxDescIdx, k)]
             /\ k # n => own'[Around(RxDescIdx, k)] = own[Around(RxDescIdx, k)]
  <2>1. Around(RxDescIdx, k) \in Descs
    BY AroundIs
  <2>2. Around(RxDescIdx, k) = dmaIdx <=> k = n
    BY <1>2, <1>5, AroundOnce
  <2> QED
    BY <1>1, <2>1, <2>2
<1>9. Ordered(n + 1, RxDescIdx, own', buf, RxBuildDescIdx, RxBuildDescCnt, dmaIdx')
  <2>1. ASSUME NEW k \in 0..(RxDescs - 1)
        PROVE  /\ k < n + 1 => ~own'[Around(RxDescIdx, k)] /\ buf[Around(RxDescIdx, k)] # NoBuf
               /\ k \in (n + 1)..(RxDescs - RxBuildDescCnt - 1) => own'[Around(RxDescIdx, k)]
               /\ k >= RxDescs - RxBuildDescCnt =>
                    ~own'[Around(RxDescIdx, k)] /\ buf[Around(RxDescIdx, k)] = NoBuf
    <3>1. CASE k = n
      <4>1. ~own'[Around(RxDescIdx, k)] /\ buf[Around(RxDescIdx, k)] # NoBuf
        BY <1>7, <1>8, <3>1
      <4>2. k \notin (n + 1)..(RxDescs - RxBuildDescCnt - 1)
        BY <3>1
      <4>3. ~(k >= RxDescs - RxBuildDescCnt)
        BY <1>5, <3>1
      <4> QED
        BY <4>1, <4>2, <4>3
    <3>2. CASE k # n
      <4>1. own'[Around(RxDescIdx, k)] = own[Around(RxDescIdx, k)]
        BY <1>8, <3>2
      <4>2. k < n + 1 => k < n
        BY <3>2
      <4>3. k \in (n + 1)..(RxDescs - RxBuildDescCnt - 1)
              => k \in n..(RxDescs - RxBuildDescCnt - 1)
        OBVIOUS
      <4> QED
        BY <1>3, <4>1, <4>2, <4>3
    <3> QED
      BY <3>1, <3>2
  <2> QED
    BY <1>2, <1>5, <1>6, <2>1 DEF Ordered
<1>10. RingOrdered(n + 1)'
  BY <1>1, <1>9 DEF RingOrdered
<1>11. n + 1 \in 0..RxDescs
  BY <1>5
<1> QED
  BY <1>10, <1>11

\* HAL_ETH_ReadData() keeps the order, whether it finds a frame or rebuilds.
LEMMA ReadOrdered ==
  ASSUME TypeOK, NEW n \in 0..RxDescs, RingOrdered(n)
  PROVE  /\ EthIfRead => n - 1 \in 0..RxDescs /\ RingOrdered(n - 1)'
         /\ EthIfRebuild => RingOrdered(n)'
<1> USE DEF TypeOK, RxTypeOK
<1>1. ASSUME EthIfRead
      PROVE  n - 1 \in 0..RxDescs /\ RingOrdered(n - 1)'
  <2> DEFINE left == [buf EXCEPT ![RxDescIdx] = NoBuf]
  <2>1. n \in 1..RxDescs
    <3>1. 0 \in 0..(RxDescs - 1) /\ RxDescIdx = Around(RxDescIdx, 0)
      BY DEF Around, Descs
    <3>2. ~own[RxDescIdx] /\ RxBuildDescCnt < RxDescs
      BY <1>1 DEF EthIfRead, FrameReady
    <3>3. 0 \in n..(RxDescs - RxBuildDescCnt - 1) => own[RxDescIdx]
      BY <3>1 DEF RingOrdered, Ordered
    <3> QED
      BY <3>2, <3>3
  <2>2. /\ left \in [Descs -> Buffers \cup {NoBuf}]
        /\ RxBuildDescCnt + 1 \in 0..RxDescs
        /\ n - 1 \in 0..RxDescs
        /\ Next1(RxDescIdx) \in Descs
    BY <1>1, <2>1, NextInRing DEF EthIfRead, FrameReady
  <2>3. Ordered(n - 1, Next1(RxDescIdx), own, left, RxBuildDescIdx,
                RxBuildDescCnt + 1, dmaIdx)
    BY <2>1, TakeOrdered DEF RingOrdered
  <2>4. UpdateDescriptor(left, RxBuildDescCnt + 1)
    BY <1>1 DEF EthIfRead
  <2> HIDE DEF left
  <2>5. Ordered(n - 1, Next1(RxDescIdx), own', buf', RxBuildDescIdx', RxBuildDescCnt', dmaIdx)
    BY <2>2, <2>3, <2>4, BuildOrdered
  <2>6. RxDescIdx' = Next1(RxDescIdx) /\ dmaIdx' = dmaIdx
    BY <1>1 DEF EthIfRead
  <2>7. RingOrdered(n - 1)'
    BY <2>5, <2>6 DEF RingOrdered
  <2> QED
    BY <2>2, <2>7
<1>2. ASSUME EthIfRebuild
      PROVE  RingOrdered(n)'
  <2>1. UpdateDescriptor(buf, RxBuildDescCnt)
    BY <1>2 DEF EthIfRebuild
  <2>2. Ordered(n, RxDescIdx, own', buf', RxBuildDescIdx', RxBuildDescCnt', dmaIdx)
    BY <2>1, BuildOrdered DEF RingOrdered
  <2>3. RxDescIdx' = RxDescIdx /\ dmaIdx' = dmaIdx
    BY <1>2 DEF EthIfRebuild
  <2>4. RingOrdered(n)'
    BY <2>2, <2>3 DEF RingOrdered
  <2> QED
    BY <2>4
<1> QED
  BY <1>1, <1>2

\* Where EthIf reads there is a buffer, while the ring is in order.
LEMMA NothingReadAgain ==
  ASSUME RxTypeOK, RingInOrder
  PROVE  ~EthIfReadAgain
<1> SUFFICES ASSUME EthIfReadAgain PROVE FALSE
  OBVIOUS
<1> USE DEF RxTypeOK
<1>1. PICK n \in 0..RxDescs : RingOrdered(n)
  BY OrderedIsRing
<1>2. 0 \in 0..(RxDescs - 1) /\ RxDescIdx = Around(RxDescIdx, 0)
  BY DEF Around, Descs
<1>3. /\ 0 < n => buf[RxDescIdx] # NoBuf
      /\ 0 \in n..(RxDescs - RxBuildDescCnt - 1) => own[RxDescIdx]
  BY <1>1, <1>2 DEF RingOrdered, Ordered
<1>4. /\ ~own[RxDescIdx] /\ RxBuildDescCnt < RxDescs
      /\ buf[RxDescIdx] = NoBuf
  BY DEF EthIfReadAgain, FrameReady
<1> QED
  BY <1>3, <1>4

\* The receive path keeps the ring in order.
LEMMA RxOrder ==
  ASSUME TypeOK, TypeOK', DmaHasBuffer, RingInOrder, RxStep
  PROVE  RingInOrder'
<1>0. RxTypeOK /\ RxTypeOK'
  BY DEF TypeOK
<1>1. PICK n \in 0..RxDescs : RingOrdered(n)
  BY <1>0, OrderedIsRing
<1>2. ASSUME NEW m \in 0..RxDescs, RingOrdered(m)'
      PROVE  RingInOrder'
  BY <1>0, <1>2, OrderedIsRingNext
<1>3. CASE EthIfRead \/ EthIfRebuild
  BY <1>1, <1>2, <1>3, ReadOrdered
<1>4. CASE DmaReceive
  BY <1>0, <1>1, <1>2, <1>4, ReceiveOrdered
<1>5. CASE UNCHANGED ring
  BY <1>5 DEF ring, RingInOrder, Unread
<1>6. UNCHANGED ring \/ EthIfRead \/ EthIfRebuild \/ DmaReceive
  BY DEF RxStep, RxNext, EthIfNext, RxHardware, EthIfWake, EthIfReadAgain, EthIfPost,
     EthIfDrop, EthIfNothing, DmaNoDescriptor, RxInterrupt, FreeNext, FreeBuffer,
     FreeCheck, FreeSet, FreeSignal, rxVars, ring
<1> QED
  BY <1>3, <1>4, <1>5, <1>6

\* And so it reads no frame twice.
LEMMA RxReadsOnce ==
  ASSUME TypeOK, RingInOrder, NoFrameTwice, RxStep
  PROVE  NoFrameTwice'
<1>1. ~EthIfReadAgain
  BY NothingReadAgain DEF TypeOK
<1> QED
  BY <1>1 DEF RxStep, RxNext, EthIfNext, RxHardware, EthIfWake, EthIfRead, EthIfPost,
     EthIfDrop, EthIfRebuild, EthIfNothing, DmaReceive, DmaNoDescriptor, RxInterrupt,
     FreeNext, FreeBuffer, FreeCheck, FreeSet, FreeSignal, rxVars, NoFrameTwice

\* Nothing but the receive path touches the ring while the link stays up.
LEMMA NextOrder ==
  ASSUME "down" \notin PhyStates, TypeOK, TypeOK', DmaHasBuffer,
         StaysUp, RingInOrder, NoFrameTwice, [Next]_vars
  PROVE  StaysUp' /\ RingInOrder' /\ NoFrameTwice'
<1>1. ASSUME UNCHANGED rxVars PROVE RingInOrder' /\ NoFrameTwice'
  BY <1>1 DEF rxVars, RingInOrder, Unread, NoFrameTwice
<1>2. CASE RxStep
  BY <1>2, RxOrder, RxReadsOnce DEF RxStep, linkVars, StaysUp
<1>3. CASE CoreStep \/ TxStep \/ PhyMove \/ Hog \/ UNCHANGED vars
  BY <1>1, <1>3 DEF CoreStep, TxStep, PhyMove, Hog, vars, linkVars, StaysUp
<1>4. CASE LinkNext
  BY <1>1, <1>4, OnlyWaits DEF LinkWait, linkVars, StaysUp
<1> QED
  BY <1>2, <1>3, <1>4 DEF Next, LinkStep

\* The MAC is started over a full ring that is all the DMA's.
LEMMA InitOrder ==
  ASSUME Init, linkUp, TypeOK
  PROVE  RingInOrder /\ NoFrameTwice
<1>1. /\ own = [i \in Descs |-> TRUE]
      /\ dmaIdx = 0 /\ RxDescIdx = 0 /\ RxBuildDescIdx = 0 /\ RxBuildDescCnt = 0
      /\ epc = "wait"
  BY DEF Init, RxInit
<1>2. 0 \in 0..RxDescs /\ 0 = Around(0, 0)
  BY DEF Around
<1>3. \A k \in 0..(RxDescs - 1) : own[Around(0, k)]
  BY <1>1 DEF Around, Descs
<1>4. Ordered(0, 0, own, buf, 0, 0, 0)
  BY <1>2, <1>3 DEF Ordered
<1>5. RingOrdered(0)
  BY <1>1, <1>4 DEF RingOrdered
<1> QED
  BY <1>1, <1>2, <1>5, OrderedIsRing DEF TypeOK, NoFrameTwice

\* The three together are inductive, with types and backed descriptors.
LEMMA OrderWhileUp ==
  ASSUME "down" \notin PhyStates
  PROVE  Spec => [](StaysUp /\ RingInOrder /\ NoFrameTwice)
<1> DEFINE Order == StaysUp /\ RingInOrder /\ NoFrameTwice
<1>1. Init /\ TypeOK => Order
  <2>1. Init => StaysUp
    BY DEF Init, StaysUp
  <2> QED
    BY <2>1, InitOrder DEF StaysUp
<1>2. TypeOK /\ TypeOK' /\ DmaHasBuffer /\ Order /\ [Next]_vars => Order'
  BY NextOrder
<1> QED
  BY <1>1, <1>2, DriverTypeCorrect, DmaNeverBare, PTL DEF Spec

\* While the link stays up, whenever the pool runs dry and is filled again: from
\* where EthIf reads, the ring holds frames, then the DMA's descriptors, then those
\* to give back, and the DMA and the rebuild stand at the borders.
THEOREM RingStaysInOrder ==
  ASSUME "down" \notin PhyStates
  PROVE  Spec => []RingInOrder
  BY OrderWhileUp, PTL

\* And so, while the link stays up, EthIf passes no frame up twice: a restart is
\* what it takes.
THEOREM NoFrameTwiceWhileUp ==
  ASSUME "down" \notin PhyStates
  PROVE  Spec => []NoFrameTwice
  BY OrderWhileUp, PTL
=============================================================================
