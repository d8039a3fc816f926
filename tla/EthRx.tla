-------------------------------- MODULE EthRx --------------------------------
(***************************************************************************)
(* The zero-copy receive path of LWIP/Target/ethernetif.c over the HAL's    *)
(* descriptor ring: the DMA fills buffers of a fixed pool, the EthIf thread *)
(* takes them out of the ring and passes them up, and whoever frees one     *)
(* puts it back into the pool and, if the pool had run dry, wakes EthIf to  *)
(* rebuild the ring.                                                       *)
(*                                                                         *)
(* A buffer holds a whole frame (1536 bytes), so a frame takes one         *)
(* descriptor.  EthIf has osPriorityRealtime: the steps of every other      *)
(* thread wait until it sleeps; interrupts and the DMA do not.             *)
(***************************************************************************)
EXTENDS EthMac, Functions

CONSTANTS
    Buffers,     \* RX_POOL
    NoBuf,       \* BackupAddr0 = 0: no buffer is attached to a descriptor
    RxDescs,     \* ETH_RX_DESC_CNT
    MboxSize,    \* TCPIP_MBOX_SIZE
    Freers,      \* threads that free received frames
    Traffic      \* whether frames arrive at all

ASSUME EthRxAssumption ==
    /\ IsFiniteSet(Buffers)
    /\ NoBuf \notin Buffers
    /\ RxDescs \in Nat \ {0}
    /\ Cardinality(Buffers) >= RxDescs
    /\ MboxSize \in Nat
    /\ Traffic \in BOOLEAN

VARIABLES
    own,             \* the OWN bit of each descriptor: it is the DMA's
    dic,             \* DESC1.DIC: filling the descriptor raises no interrupt
    buf,             \* BackupAddr0 and DESC2: the buffer attached to each
    dmaIdx,          \* the descriptor the DMA will fill next
    RxDescIdx,       \* the descriptor EthIf will read next
    RxBuildDescIdx,  \* the first descriptor to give back to the DMA
    RxBuildDescCnt,  \* how many there are to give back
    pool,            \* free buffers
    held,            \* buffers passed up: in the mailbox, the stack, a socket
    RxAllocStatus,
    RxPktSemaphore,
    epc,             \* EthIf: asleep in osSemaphoreAcquire(), reading, posting
    post,            \* the frame EthIf is posting
    fpc              \* where each freeing thread is in pbuf_free_custom()

rxVars == <<own, dic, buf, dmaIdx, RxDescIdx, RxBuildDescIdx, RxBuildDescCnt,
            pool, held, post, RxAllocStatus, RxPktSemaphore, epc, fpc>>

ring == <<own, buf, dmaIdx, RxDescIdx, RxBuildDescIdx, RxBuildDescCnt>>

Descs == 0..(RxDescs - 1)

RxTypeOK ==
    /\ own \in [Descs -> BOOLEAN]
    /\ dic \in [Descs -> BOOLEAN]
    /\ buf \in [Descs -> Buffers \cup {NoBuf}]
    /\ dmaIdx \in Descs
    /\ RxDescIdx \in Descs
    /\ RxBuildDescIdx \in Descs
    /\ RxBuildDescCnt \in 0..RxDescs
    /\ pool \subseteq Buffers
    /\ held \subseteq Buffers
    /\ RxAllocStatus \in {"RX_ALLOC_OK", "RX_ALLOC_ERROR"}
    /\ RxPktSemaphore \in BOOLEAN
    /\ epc \in {"wait", "read", "post", "corrupt"}
    /\ post \in Buffers \cup {NoBuf}
    /\ epc = "post" <=> post # NoBuf
    /\ fpc \in [Freers -> {"idle", "check", "set", "signal"}]

\* The ring after ETH_DMARxDescListInit(), or after the first start as well.
RxInit(up) ==
    /\ own = [i \in Descs |-> TRUE]
    /\ dic = [i \in Descs |-> FALSE]
    /\ \/ ~up /\ buf = [i \in Descs |-> NoBuf]
       \/ up /\ buf \in Injection(Descs, Buffers)
    /\ dmaIdx = 0
    /\ RxDescIdx = 0
    /\ RxBuildDescIdx = 0
    /\ RxBuildDescCnt = 0
    /\ pool = Buffers \ Range(buf)
    /\ held = {}
    /\ RxAllocStatus = "RX_ALLOC_OK"
    /\ RxPktSemaphore = FALSE
    /\ epc = "wait"
    /\ post = NoBuf
    /\ fpc = [f \in Freers |-> "idle"]

\* EthIf has nothing to do, so that the other threads get the processor.
EthIfSleeps == epc = "wait" /\ ~RxPktSemaphore

\* Mutant of Next1: INCR_RX_DESC_INDEX() does not wrap.
Next1NoWrap(i) == i + 1

Next1(i) == (i + 1) % RxDescs

----------------------------------------------------------------------------
(* ETH_UpdateDescriptor().                                                 *)

\* The k-th descriptor to give back, counted from 0.
ToBuild(k) == (RxBuildDescIdx + k) % RxDescs

\* The first n of them, and those among them that have no buffer.
Built(n) == {ToBuild(k) : k \in 0..(n - 1)}

Bare(buffers, n) == {i \in Built(n) : buffers[i] = NoBuf}

\* HAL_ETH_RxAllocateCallback() for each of the first n that needs a buffer.
Attach(buffers, n) ==
    \E new \in Injection(Bare(buffers, n), pool) :
        /\ buf' = [i \in Descs |-> IF i \in DOMAIN new THEN new[i] ELSE buffers[i]]
        /\ pool' = pool \ Range(new)

\* After n of them the next allocation fails.
RunsDry(buffers, n) ==
    /\ buffers[ToBuild(n)] = NoBuf
    /\ Cardinality(pool) = Cardinality(Bare(buffers, n))

\* Mutant of UpdateDescriptor: what could not be given back is forgotten.
UpdateDescriptorForget(buffers, count) ==
    \E n \in 0..count :
        /\ n < count => RunsDry(buffers, n)
        /\ Attach(buffers, n)
        /\ own' = [i \in Descs |-> own[i] \/ i \in Built(n)]
        /\ dic' = [i \in Descs |-> IF i \in Built(n) THEN ~ItMode ELSE dic[i]]
        /\ RxBuildDescIdx' = ToBuild(n)
        /\ RxBuildDescCnt' = 0

\* Mutant of UpdateDescriptor: the one that has no buffer goes to the DMA too.
UpdateDescriptorBare(buffers, count) ==
    \E n \in 0..count :
        /\ n < count => RunsDry(buffers, n)
        /\ Attach(buffers, n)
        /\ own' = [i \in Descs |-> own[i] \/ i \in Built(n) \/ (n < count /\ i = ToBuild(n))]
        /\ dic' = [i \in Descs |-> IF own'[i] /\ ~own[i] THEN ~ItMode ELSE dic[i]]
        /\ RxBuildDescIdx' = ToBuild(n)
        /\ RxBuildDescCnt' = count - n

\* Mutant of UpdateDescriptor: DESC1 is left as the stop of the link left it.
UpdateDescriptorSilent(buffers, count) ==
    \E n \in 0..count :
        /\ n < count => RunsDry(buffers, n)
        /\ Attach(buffers, n)
        /\ own' = [i \in Descs |-> own[i] \/ i \in Built(n)]
        /\ dic' = dic
        /\ RxBuildDescIdx' = ToBuild(n)
        /\ RxBuildDescCnt' = count - n

\* Gives back count descriptors in order, attaching a buffer to each that has none
\* (buffers is what is attached now), until the pool is empty; only those it gives
\* back raise an interrupt again after a stop.  The loop is one step: what other
\* threads do between two allocations adds to the pool.
UpdateDescriptor(buffers, count) ==
    \E n \in 0..count :
        /\ n < count => RunsDry(buffers, n)
        /\ Attach(buffers, n)
        /\ own' = [i \in Descs |-> own[i] \/ i \in Built(n)]
        /\ dic' = [i \in Descs |-> IF i \in Built(n) THEN ~ItMode ELSE dic[i]]
        /\ RxBuildDescIdx' = ToBuild(n)
        /\ RxBuildDescCnt' = count - n

----------------------------------------------------------------------------
(* The DMA and the interrupt.                                              *)

\* RS is not raised for a descriptor whose DIC is set.
DmaReceive ==
    /\ Traffic
    /\ dmaOn
    /\ own[dmaIdx]
    /\ own' = [own EXCEPT ![dmaIdx] = FALSE]
    /\ dmaIdx' = Next1(dmaIdx)
    /\ rxIrq' = (rxIrq \/ ~dic[dmaIdx])
    /\ UNCHANGED <<dic, buf, RxDescIdx, RxBuildDescIdx, RxBuildDescCnt, pool, held,
                   post, RxAllocStatus, RxPktSemaphore, epc, fpc, gState, dmaOn, irqOn, txIrq>>

\* The next descriptor is not the DMA's: the frame is lost, RBUS is raised.
DmaNoDescriptor ==
    /\ Traffic
    /\ dmaOn
    /\ ~own[dmaIdx]
    /\ rxIrq' = TRUE
    /\ UNCHANGED <<rxVars, gState, dmaOn, irqOn, txIrq>>

\* HAL_ETH_RxCpltCallback(), or HAL_ETH_ErrorCallback() for RBUS.
RxInterrupt ==
    /\ irqOn
    /\ rxIrq
    /\ rxIrq' = FALSE
    /\ RxPktSemaphore' = TRUE
    /\ UNCHANGED <<ring, dic, pool, held, post, RxAllocStatus, epc, fpc>>
    /\ UNCHANGED <<gState, dmaOn, irqOn, txIrq>>

----------------------------------------------------------------------------
(* ethernetif_input(), low_level_input() and HAL_ETH_ReadData().           *)

EthIfWake ==
    /\ epc = "wait"
    /\ RxPktSemaphore
    /\ RxPktSemaphore' = FALSE
    /\ epc' = "read"
    /\ UNCHANGED <<ring, dic, pool, held, post, RxAllocStatus, fpc>>
    /\ UNCHANGED macVars

\* low_level_input() goes to the HAL, and the HAL is started.
MayRead == RxAllocStatus = "RX_ALLOC_OK" /\ gState = "started"

\* Mutant of FrameReady: descriptors waiting to be given back are read as well.
FrameReadyAny == ~own[RxDescIdx]

FrameReady == ~own[RxDescIdx] /\ RxBuildDescCnt < RxDescs

\* A rebuild that ran out of buffers calls HAL_ETH_RxAllocateCallback() in vain.
AllocStatusAfter(left) ==
    RxAllocStatus' = IF left > 0 THEN "RX_ALLOC_ERROR" ELSE RxAllocStatus

\* Mutant of EthIfRead: "Clear buffer pointer" is forgotten.
EthIfReadKeep ==
    /\ epc = "read"
    /\ MayRead
    /\ FrameReady
    /\ UpdateDescriptor(buf, RxBuildDescCnt + 1)
    /\ AllocStatusAfter(RxBuildDescCnt')
    /\ RxDescIdx' = Next1(RxDescIdx)
    /\ held' = held \cup {buf[RxDescIdx]}
    /\ post' = buf[RxDescIdx]
    /\ epc' = "post"
    /\ UNCHANGED <<dmaIdx, RxPktSemaphore, fpc>>
    /\ UNCHANGED macVars

\* A frame is taken out of the ring, and what can be given back to the DMA is.
EthIfRead ==
    /\ epc = "read"
    /\ MayRead
    /\ FrameReady
    /\ buf[RxDescIdx] # NoBuf
    /\ UpdateDescriptor([buf EXCEPT ![RxDescIdx] = NoBuf], RxBuildDescCnt + 1)
    /\ AllocStatusAfter(RxBuildDescCnt')
    /\ RxDescIdx' = Next1(RxDescIdx)
    /\ held' = held \cup {buf[RxDescIdx]}
    /\ post' = buf[RxDescIdx]
    /\ epc' = "post"
    /\ UNCHANGED <<dmaIdx, RxPktSemaphore, fpc>>
    /\ UNCHANGED macVars

\* The descriptor has no buffer: DESC0 and DESC2 still describe the frame that was
\* taken out of it last time, and that frame is passed up again, wherever its
\* buffer is by now.  What follows is undefined.
EthIfReadAgain ==
    /\ epc = "read"
    /\ MayRead
    /\ FrameReady
    /\ buf[RxDescIdx] = NoBuf
    /\ epc' = "corrupt"
    /\ UNCHANGED <<ring, dic, pool, held, post, RxAllocStatus, RxPktSemaphore, fpc>>
    /\ UNCHANGED macVars

\* netif->input() posts the frame to the TCP/IP thread ...
EthIfPost ==
    /\ epc = "post"
    /\ epc' = "read"
    /\ post' = NoBuf
    /\ UNCHANGED <<ring, dic, pool, held, RxAllocStatus, RxPktSemaphore, fpc>>
    /\ UNCHANGED macVars

\* ... or finds the mailbox full: pbuf_free() by EthIf itself, where nobody can
\* come between the free and the check of the status.
EthIfDrop ==
    /\ epc = "post"
    /\ Cardinality(held) > MboxSize
    /\ held' = held \ {post}
    /\ pool' = pool \cup {post}
    /\ RxPktSemaphore' = (RxPktSemaphore \/ RxAllocStatus = "RX_ALLOC_ERROR")
    /\ RxAllocStatus' = "RX_ALLOC_OK"
    /\ epc' = "read"
    /\ post' = NoBuf
    /\ UNCHANGED <<ring, dic, fpc>>
    /\ UNCHANGED macVars

\* No frame: descriptors left over are tried again, and the thread goes back to
\* sleep.
EthIfRebuild ==
    /\ epc = "read"
    /\ MayRead
    /\ ~FrameReady
    /\ UpdateDescriptor(buf, RxBuildDescCnt)
    /\ AllocStatusAfter(RxBuildDescCnt')
    /\ epc' = "wait"
    /\ UNCHANGED <<dmaIdx, RxDescIdx, held, post, RxPktSemaphore, fpc>>
    /\ UNCHANGED macVars

\* RX_ALLOC_ERROR, or HAL_ERROR from a handle that is not started.
EthIfNothing ==
    /\ epc = "read"
    /\ ~MayRead
    /\ epc' = "wait"
    /\ UNCHANGED <<ring, dic, pool, held, post, RxAllocStatus, RxPktSemaphore, fpc>>
    /\ UNCHANGED macVars

----------------------------------------------------------------------------
(* pbuf_free_custom() in the thread that drops the last reference.         *)

FreeBuffer(f, b) ==
    /\ EthIfSleeps
    /\ fpc[f] = "idle"
    /\ b \in held
    /\ held' = held \ {b}
    /\ pool' = pool \cup {b}
    /\ fpc' = [fpc EXCEPT ![f] = "check"]
    /\ UNCHANGED <<ring, dic, post, RxAllocStatus, RxPktSemaphore, epc>>
    /\ UNCHANGED macVars

\* Mutant of FreeCheck: the status is not looked at.
FreeCheckNever(f) ==
    /\ EthIfSleeps
    /\ fpc[f] = "check"
    /\ fpc' = [fpc EXCEPT ![f] = "idle"]
    /\ UNCHANGED <<ring, dic, pool, held, post, RxAllocStatus, RxPktSemaphore, epc>>
    /\ UNCHANGED macVars

FreeCheck(f) ==
    /\ EthIfSleeps
    /\ fpc[f] = "check"
    /\ fpc' = [fpc EXCEPT ![f] = IF RxAllocStatus = "RX_ALLOC_ERROR"
                                 THEN "set" ELSE "idle"]
    /\ UNCHANGED <<ring, dic, pool, held, post, RxAllocStatus, RxPktSemaphore, epc>>
    /\ UNCHANGED macVars

\* Mutant of FreeSet: EthIf is not told.
FreeSetQuiet(f) ==
    /\ EthIfSleeps
    /\ fpc[f] = "set"
    /\ RxAllocStatus' = "RX_ALLOC_OK"
    /\ fpc' = [fpc EXCEPT ![f] = "idle"]
    /\ UNCHANGED <<ring, dic, pool, held, post, RxPktSemaphore, epc>>
    /\ UNCHANGED macVars

FreeSet(f) ==
    /\ EthIfSleeps
    /\ fpc[f] = "set"
    /\ RxAllocStatus' = "RX_ALLOC_OK"
    /\ fpc' = [fpc EXCEPT ![f] = "signal"]
    /\ UNCHANGED <<ring, dic, pool, held, post, RxPktSemaphore, epc>>
    /\ UNCHANGED macVars

FreeSignal(f) ==
    /\ EthIfSleeps
    /\ fpc[f] = "signal"
    /\ RxPktSemaphore' = TRUE
    /\ fpc' = [fpc EXCEPT ![f] = "idle"]
    /\ UNCHANGED <<ring, dic, pool, held, post, RxAllocStatus, epc>>
    /\ UNCHANGED macVars

----------------------------------------------------------------------------

EthIfNext ==
    \/ EthIfWake \/ EthIfRead \/ EthIfReadAgain \/ EthIfPost \/ EthIfDrop
    \/ EthIfRebuild \/ EthIfNothing

FreeNext(f) ==
    \/ \E b \in Buffers : FreeBuffer(f, b)
    \/ FreeCheck(f) \/ FreeSet(f) \/ FreeSignal(f)

RxHardware == DmaReceive \/ DmaNoDescriptor \/ RxInterrupt

RxNext == EthIfNext \/ RxHardware \/ \E f \in Freers : FreeNext(f)
=============================================================================
