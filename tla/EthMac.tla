------------------------------- MODULE EthMac -------------------------------
(***************************************************************************)
(* What the receive side, the transmit side and the link thread of the     *)
(* Ethernet driver share: the state of the HAL handle, the DMA, and which   *)
(* interrupt requests are enabled and pending.                             *)
(***************************************************************************)
EXTENDS Integers, FiniteSets, Sequences

VARIABLES
    gState,      \* heth.gState
    dmaOn,       \* DMAOMR.ST and SR, MACCR.TE and RE
    irqOn,       \* DMAIER: interrupts of the DMA are enabled
    rxIrq,       \* DMASR.RS or RBUS: a frame came in, or found no descriptor
    txIrq        \* DMASR.TS: a frame went out

macVars == <<gState, dmaOn, irqOn, rxIrq, txIrq>>

MacTypeOK ==
    /\ gState \in {"ready", "busy", "started"}
    /\ dmaOn \in BOOLEAN
    /\ irqOn \in BOOLEAN
    /\ rxIrq \in BOOLEAN
    /\ txIrq \in BOOLEAN

\* HAL_ETH_Init(), and HAL_ETH_Start_IT() if the link is up at boot.
MacInit(up) ==
    /\ gState = IF up THEN "started" ELSE "ready"
    /\ dmaOn = up
    /\ irqOn = up
    /\ rxIrq = FALSE
    /\ txIrq = FALSE

\* RxDescList.ItMode: HAL_ETH_Start_IT() sets it as it leaves READY, HAL_ETH_Stop_IT()
\* resets it as it comes back.
ItMode == gState # "ready"

----------------------------------------------------------------------------
(* The steps of HAL_ETH_Stop_IT() and HAL_ETH_Start_IT().                  *)

MacStop ==
    /\ gState = "started"
    /\ gState' = "busy"
    /\ UNCHANGED <<dmaOn, irqOn, rxIrq, txIrq>>

MacStopIrq ==
    /\ irqOn' = FALSE
    /\ UNCHANGED <<gState, dmaOn, rxIrq, txIrq>>

MacStopDma ==
    /\ dmaOn' = FALSE
    /\ gState' = "ready"
    /\ UNCHANGED <<irqOn, rxIrq, txIrq>>

MacStart ==
    /\ gState = "ready"
    /\ gState' = "busy"
    /\ UNCHANGED <<dmaOn, irqOn, rxIrq, txIrq>>

MacEnableDma ==
    /\ dmaOn' = TRUE
    /\ UNCHANGED <<gState, irqOn, rxIrq, txIrq>>

MacEnableIrq ==
    /\ irqOn' = TRUE
    /\ UNCHANGED <<gState, dmaOn, rxIrq, txIrq>>

MacStarted ==
    /\ gState' = "started"
    /\ UNCHANGED <<dmaOn, irqOn, rxIrq, txIrq>>
=============================================================================
