------------------------------ MODULE EthDriver ------------------------------
(***************************************************************************)
(* The Ethernet driver: both directions, and the link thread, which looks   *)
(* at the PHY every 100 ms and stops or restarts the MAC under the others.  *)
(***************************************************************************)
EXTENDS EthRx, EthTx

CONSTANTS
    PhyStates    \* what the PHY may say: a subset of the set below

ASSUME EthDriverAssumption ==
    /\ PhyStates \subseteq {"down", "nego", "fast", "slow"}
    /\ PhyStates # {}

VARIABLES
    phy,         \* what LAN8742_GetLinkState() would say now
    linkUp,      \* NETIF_FLAG_LINK_UP
    lpc,         \* where the link thread is
    speed,       \* speed and duplex, locals of the thread
    linkchanged, \* likewise
    mode,        \* speed and duplex the MAC is set to
    hogged       \* the HTTP thread keeps the processor: WebServer!Hogging

linkVars == <<phy, linkUp, lpc, speed, linkchanged, mode>>

vars == <<macVars, rxVars, txVars, linkVars, hogged>>

Speeds == {"fast", "slow"}

LinkPcs == {"poll", "stop", "stop_irq", "stop_dma", "down", "start", "build",
            "nobuf", "enable", "irq", "started", "up", "announce"}

LinkTypeOK ==
    /\ phy \in PhyStates
    /\ linkUp \in BOOLEAN
    /\ lpc \in LinkPcs
    /\ speed \in Speeds
    /\ linkchanged \in BOOLEAN
    /\ mode \in Speeds

\* low_level_init(): the link's state at boot decides whether the MAC is started;
\* a speed not negotiated yet is taken for the fast one.
Init ==
    /\ phy \in PhyStates
    /\ linkUp = (phy # "down")
    /\ lpc = "poll"
    /\ speed = "slow"
    /\ linkchanged = FALSE
    /\ hogged = FALSE
    /\ mode = IF phy = "slow" THEN "slow" ELSE "fast"
    /\ MacInit(linkUp)
    /\ RxInit(linkUp)
    /\ TxInit

----------------------------------------------------------------------------
(* ethernet_link_thread(), of the lowest priority: it runs while the        *)
(* others sleep, but they may run between any two of its steps.            *)

LinkRuns ==
    /\ ~hogged
    /\ EthIfSleeps
    /\ \A f \in Freers : fpc[f] = "idle"
    /\ tpc["core"] \in {"idle", "wait"}

LinkAt(from, to) ==
    /\ LinkRuns
    /\ lpc = from
    /\ lpc' = to

\* One look at the PHY that leads to the MAC being stopped ...
LinkLost ==
    /\ LinkAt("poll", "stop")
    /\ linkUp
    /\ phy = "down"
    /\ UNCHANGED <<phy, linkUp, speed, linkchanged, mode>>
    /\ UNCHANGED <<macVars, rxVars, txVars>>

\* ... or started.  linkchanged is set once and for all.
LinkFound ==
    /\ LinkAt("poll", "start")
    /\ ~linkUp
    /\ phy # "down"
    /\ speed' = IF phy \in Speeds THEN phy ELSE speed
    /\ linkchanged' = (linkchanged \/ phy \in Speeds)
    /\ linkchanged'
    /\ UNCHANGED <<phy, linkUp, mode>>
    /\ UNCHANGED <<macVars, rxVars, txVars>>

LinkStop ==
    /\ LinkAt("stop", "stop_irq")
    /\ MacStop
    /\ UNCHANGED <<phy, linkUp, speed, linkchanged, mode>>
    /\ UNCHANGED <<rxVars, txVars>>

LinkStopIrq ==
    /\ LinkAt("stop_irq", "stop_dma")
    /\ MacStopIrq
    /\ UNCHANGED <<phy, linkUp, speed, linkchanged, mode>>
    /\ UNCHANGED <<rxVars, txVars>>

\* "Clear IOC bit to all Rx descriptors", the DMA being off.
LinkStopDma ==
    /\ LinkAt("stop_dma", "down")
    /\ MacStopDma
    /\ dic' = [i \in Descs |-> TRUE]
    /\ UNCHANGED <<phy, linkUp, speed, linkchanged, mode>>
    /\ UNCHANGED <<ring, pool, held, post, RxAllocStatus, RxPktSemaphore, epc, fpc>>
    /\ UNCHANGED txVars

\* Mutant of LinkDown: netif_set_link_down() is forgotten.
LinkDownOnly ==
    /\ LinkAt("down", "poll")
    /\ UNCHANGED <<phy, linkUp, speed, linkchanged, mode>>
    /\ UNCHANGED <<macVars, rxVars, txVars>>

\* netif_set_down(), netif_set_link_down()
LinkDown ==
    /\ LinkAt("down", "poll")
    /\ linkUp' = FALSE
    /\ UNCHANGED <<phy, speed, linkchanged, mode>>
    /\ UNCHANGED <<macVars, rxVars, txVars>>

\* HAL_ETH_SetMACConfig(), and HAL_ETH_Start_IT() up to the descriptors.
LinkStart ==
    /\ LinkAt("start", "build")
    /\ mode' = speed
    /\ MacStart
    /\ UNCHANGED <<phy, linkUp, speed, linkchanged>>
    /\ UNCHANGED <<rxVars, txVars>>

\* RxBuildDescCnt = ETH_RX_DESC_CNT and ETH_UpdateDescriptor(): the pool may be
\* found empty in one step and the status set in another.
LinkBuild ==
    /\ LinkRuns
    /\ lpc = "build"
    /\ UpdateDescriptor(buf, RxDescs)
    /\ lpc' = IF RxBuildDescCnt' > 0 THEN "nobuf" ELSE "enable"
    /\ UNCHANGED <<phy, linkUp, speed, linkchanged, mode>>
    /\ UNCHANGED <<dmaIdx, RxDescIdx, held, post, RxAllocStatus, RxPktSemaphore, epc, fpc>>
    /\ UNCHANGED <<macVars, txVars>>

LinkNoBuf ==
    /\ LinkAt("nobuf", "enable")
    /\ RxAllocStatus' = "RX_ALLOC_ERROR"
    /\ UNCHANGED <<phy, linkUp, speed, linkchanged, mode>>
    /\ UNCHANGED <<ring, dic, pool, held, post, RxPktSemaphore, epc, fpc>>
    /\ UNCHANGED <<macVars, txVars>>

LinkEnable ==
    /\ LinkAt("enable", "irq")
    /\ MacEnableDma
    /\ UNCHANGED <<phy, linkUp, speed, linkchanged, mode>>
    /\ UNCHANGED <<rxVars, txVars>>

LinkIrq ==
    /\ LinkAt("irq", "started")
    /\ MacEnableIrq
    /\ UNCHANGED <<phy, linkUp, speed, linkchanged, mode>>
    /\ UNCHANGED <<rxVars, txVars>>

\* An interrupt may come first: then EthIf finds the handle not started yet.
LinkStarted ==
    /\ LinkAt("started", "up")
    /\ MacStarted
    /\ UNCHANGED <<phy, linkUp, speed, linkchanged, mode>>
    /\ UNCHANGED <<rxVars, txVars>>

\* netif_set_up(), netif_set_link_up(): the latter sends a gratuitous ARP, by
\* way of low_level_output().
LinkUp ==
    /\ LinkAt("up", "announce")
    /\ linkUp' = TRUE
    /\ Transmit("link")
    /\ UNCHANGED <<phy, speed, linkchanged, mode>>
    /\ UNCHANGED rxVars

LinkWait ==
    /\ LinkRuns
    /\ TxAcquire("link")
    /\ UNCHANGED <<rxVars, linkVars>>

LinkAnnounced ==
    /\ LinkAt("announce", "poll")
    /\ ReleaseTxPacket("link")
    /\ UNCHANGED <<phy, linkUp, speed, linkchanged, mode>>
    /\ UNCHANGED rxVars

LinkNext ==
    \/ LinkLost \/ LinkFound \/ LinkStop \/ LinkStopIrq \/ LinkStopDma \/ LinkDown
    \/ LinkStart \/ LinkBuild \/ LinkNoBuf \/ LinkEnable \/ LinkIrq \/ LinkStarted
    \/ LinkUp \/ LinkWait \/ LinkAnnounced

----------------------------------------------------------------------------

\* The cable is plugged or unplugged, or the negotiation ends.
PhyMove ==
    /\ phy' \in PhyStates \ {phy}
    /\ UNCHANGED <<macVars, rxVars, txVars, linkUp, lpc, speed, linkchanged, mode, hogged>>

\* The HTTP thread gets into the loop that WebServer!HoggingForEver says it never
\* leaves: of the threads of the driver only EthIf is above it.
Hog ==
    /\ ~hogged
    /\ hogged' = TRUE
    /\ UNCHANGED <<macVars, rxVars, txVars, linkVars>>

\* A thread in pbuf_free() stays where it is while the processor is hogged.
RxStep ==
    /\ RxNext
    /\ hogged => UNCHANGED fpc
    /\ UNCHANGED <<txVars, linkVars, hogged>>

\* The stack sends while EthIf sleeps: it has a lower priority.
CoreStep ==
    /\ ~hogged
    /\ EthIfSleeps
    /\ CoreSends
    /\ UNCHANGED <<rxVars, linkVars, hogged>>

TxStep == TxHardware /\ UNCHANGED <<rxVars, linkVars, hogged>>

LinkStep == LinkNext /\ UNCHANGED hogged

Next == RxStep \/ CoreStep \/ TxStep \/ LinkStep \/ PhyMove \/ Hog

Spec == Init /\ [][Next]_vars

\* EthIf and the interrupts run while they can, and frames in a descriptor go out.
\* Unless the HTTP thread hogs it, the processor has idle time: everything above the
\* link thread sleeps again and again (so frames do not come faster than EthIf takes
\* them, and who is in pbuf_free() comes out of it), and then the link thread runs.
\* Nothing makes frames arrive, anybody free one, the stack send, or the PHY move.
FairSpec ==
    /\ Spec
    /\ WF_vars(EthIfNext /\ UNCHANGED <<txVars, linkVars, hogged>>)
    /\ WF_vars(RxInterrupt /\ UNCHANGED <<txVars, linkVars, hogged>>)
    /\ WF_vars(TxStep)
    /\ []<>(LinkRuns \/ epc = "corrupt" \/ hogged)
    /\ SF_vars(LinkStep)

----------------------------------------------------------------------------
(* Safety.                                                                 *)

\* Every variable of the driver keeps its type.
TypeOK == MacTypeOK /\ RxTypeOK /\ TxTypeOK /\ LinkTypeOK /\ hogged \in BOOLEAN

Attached == Range(buf) \ {NoBuf}

\* Zero copy: a buffer is in the pool, attached to one descriptor, or passed up,
\* and never in two of these places or in none, whatever is restarted when.
BuffersConserved ==
    /\ pool \cup held \cup Attached = Buffers
    /\ pool \cap held = {}
    /\ Attached \cap (pool \cup held) = {}
    /\ \A i, j \in Descs : buf[i] = buf[j] /\ buf[i] # NoBuf => i = j

\* A restart may find the ring in any state, with frames nobody read and
\* descriptors without a buffer: still the DMA never writes through a descriptor
\* without one.
DmaHasBuffer == \A i \in Descs : dmaOn /\ own[i] => buf[i] # NoBuf

\* "If the Rx Buffer Pool was exhausted, signal the ethernetif_input task": while
\* reception is switched off for want of buffers, some buffer is still to be freed
\* or its freeing has still to look at the status.
ExhaustionIsSignalled ==
    RxAllocStatus = "RX_ALLOC_ERROR" =>
        held # {} \/ \E f \in Freers : fpc[f] \in {"check", "set"}

Unread(i) == ~own[i] /\ buf[i] # NoBuf

\* From where EthIf reads, the ring holds frames, then descriptors of the DMA, then
\* those to give back; the DMA and the rebuild stand at the borders.
RingInOrder ==
    \E n \in 0..RxDescs :
        /\ n + RxBuildDescCnt <= RxDescs
        /\ \A k \in 0..(RxDescs - 1) :
            LET i == (RxDescIdx + k) % RxDescs IN
            /\ k < n => Unread(i)
            /\ k \in n..(RxDescs - RxBuildDescCnt - 1) => own[i]
            /\ k >= RxDescs - RxBuildDescCnt => ~own[i] /\ buf[i] = NoBuf
        /\ dmaIdx = (RxDescIdx + n) % RxDescs
        /\ (RxBuildDescIdx + RxBuildDescCnt) % RxDescs = RxDescIdx

\* What is given back ends where EthIf reads.
Aligned == (RxBuildDescIdx + RxBuildDescCnt) % RxDescs = RxDescIdx

\* Through every restart: a frame is passed up twice only by an EthIf whose index
\* and the rebuild's have lost each other ...
AlignedReadsOnce == Aligned => epc # "corrupt"

\* The link thread restarts the ring in this step.
Restarts == lpc = "build" /\ lpc' # "build"

\* ... and they lose each other in one way only: ETH_UpdateDescriptor() had run out
\* of buffers part of the way, and HAL_ETH_Start_IT() counts all over from there.
AlignmentKept ==
    [][Aligned => Aligned' \/ (Restarts /\ RxBuildDescCnt \notin {0, RxDescs})]_vars

\* Frames nobody read put a restarted ring out of order as well, since the DMA goes
\* on where it was; a ring that was the DMA's alone stays in order, and nothing but
\* a restart disturbs it.
OrderKept ==
    [][RingInOrder => RingInOrder' \/ (Restarts /\ \E i \in Descs : ~own[i])]_vars

\* Who frees a buffer may see the status before the link thread, which found the pool
\* empty, sets it: nowhere else does a dry pool go unsignalled.
SignalKept ==
    [][ExhaustionIsSignalled =>
           ExhaustionIsSignalled' \/ (lpc = "nobuf" /\ lpc' # "nobuf")]_vars

\* EthIf does not sleep over a frame that it is to read next, unless what wakes it
\* is on its way: the semaphore, the interrupt, or the free that ends a dry pool.
FrameIsAnnounced ==
    epc = "wait" /\ Unread(RxDescIdx) =>
        \/ RxPktSemaphore
        \/ rxIrq
        \/ RxAllocStatus = "RX_ALLOC_ERROR"
        \/ \E f \in Freers : fpc[f] = "signal"

\* The DMA fills the descriptor EthIf is to read next, of which no rebuild has come to
\* clear the bit that HAL_ETH_Stop_IT() set.
FilledInSilence ==
    /\ own[RxDescIdx] /\ ~own'[RxDescIdx]
    /\ dic[RxDescIdx]
    /\ RxDescIdx \in Built(RxBuildDescCnt)

\* A wake-up is lost in two ways only, both left by a restart.  Interrupts are enabled
\* before gState says started, and stopped after it says so no more: an EthIf that
\* wakes meanwhile is told HAL_ERROR and goes back to sleep.  And while a rebuild that
\* ran out of buffers has still to come to them, the descriptors the DMA had already
\* are filled without an interrupt.
AnnouncementKept ==
    [][FrameIsAnnounced =>
           \/ FrameIsAnnounced'
           \/ epc = "read" /\ epc' = "wait" /\ gState # "started"
           \/ FilledInSilence]_vars

\* Frames the DMA wrote and EthIf has not read, from where it reads.
Waiting ==
    CHOOSE n \in 0..RxDescs :
        /\ \A k \in 0..(n - 1) : Unread((RxDescIdx + k) % RxDescs)
        /\ n < RxDescs => ~Unread((RxDescIdx + n) % RxDescs)

Arrived == [k \in 1..Waiting |-> buf[(RxDescIdx + k - 1) % RxDescs]]

Receive == INSTANCE ReceiveService WITH arrived <- Arrived, lent <- held

\* While the link stays up the ring, the pool and the freeing threads implement
\* ReceiveService: frames go up in the order of their arrival, each once, and the
\* DMA gets no buffer that somebody has still to read.
ReceiveKept == Receive!Spec

\* A sender is woken by its own frame, while the link stays up.  One that waits for
\* TxPktSemaphore, or is about to, has the token there, or an interrupt pending that
\* will bring it, or its frame still to be sent; one that comes back has released its
\* frame and taken its token, and leaves neither to the next.
WokenByOwnFrame ==
    /\ tpc["core"] \in {"sent", "wait"} =>
           TxPktSemaphore \/ txIrq \/ \E i \in DOMAIN txRing : ~txRing[i]
    /\ tpc["core"] = "idle" => txRing = <<>> /\ ~txIrq /\ ~TxPktSemaphore

----------------------------------------------------------------------------
(* Liveness.                                                               *)

\* A frame in the ring is read, or given up by a stop of the link, unless the pool is
\* dry and stays so, since those who hold its buffers free none.  EthIf is above the
\* HTTP thread, but not who frees and has still to wake it.
FrameIsRead ==
    \/ <>[](hogged \/ RxAllocStatus = "RX_ALLOC_ERROR")
    \/ \A i \in Descs : Unread(i) ~> ~Unread(i) \/ gState # "started"

\* "a binary semaphore used for informing ethernetif of frame transmission": who
\* waits for it, holding the core lock, is informed while the MAC runs, unless the HTTP
\* thread hogs the processor.
SenderReturns ==
    tpc["core"] # "idle" ~> tpc["core"] = "idle" \/ gState # "started" \/ hogged

\* "Check the ETH link state then update ETH driver and netif link accordingly": a
\* link that stays down is noticed and the MAC stopped, unless the thread waits for
\* its announcement to go out or the HTTP thread hogs the processor.
LinkIsFollowed ==
    phy = "down" ~> \/ phy # "down" \/ (~linkUp /\ ~dmaOn)
                    \/ tpc["link"] = "wait" \/ epc = "corrupt" \/ hogged

----------------------------------------------------------------------------
(* What a comment says, and the code does not do.                          *)

\* ETH_UpdateDescriptor() "gives back Rx Desc of the last received Packet to the
\* DMA": a descriptor EthIf takes a frame from was given back since the last time.
NoFrameTwice == epc # "corrupt"
=============================================================================
