-------------------------------- MODULE EthTx --------------------------------
(***************************************************************************)
(* The transmit path of LWIP/Target/ethernetif.c: low_level_output() puts a *)
(* frame into the HAL's ring and waits on TxPktSemaphore until the         *)
(* interrupt tells it that a frame has gone out, then releases the packets  *)
(* that have.                                                              *)
(*                                                                         *)
(* Two threads get here: whoever holds the core lock of lwIP, and the link  *)
(* thread, which announces the address when it brings the link up and takes *)
(* no lock.  HAL_ETH_Transmit_IT() is one step.  Two senders never fill the *)
(* four descriptors.                                                       *)
(***************************************************************************)
EXTENDS EthMac

CONSTANT Sends       \* whether the stack sends frames

ASSUME EthTxAssumption == Sends \in BOOLEAN

VARIABLES
    txRing,          \* frames in descriptors, oldest first: gone out, or not yet
    TxPktSemaphore,
    tpc              \* where each sender is in low_level_output()

txVars == <<txRing, TxPktSemaphore, tpc>>

Senders == {"core", "link"}

\* "sent": HAL_ETH_Transmit_IT() returned; "wait": blocked on the semaphore.
TxTypeOK ==
    /\ txRing \in Seq(BOOLEAN)
    /\ TxPktSemaphore \in BOOLEAN
    /\ tpc \in [Senders -> {"idle", "sent", "wait", "got"}]

TxInit ==
    /\ txRing = <<>>
    /\ TxPktSemaphore = FALSE
    /\ tpc = [s \in Senders |-> "idle"]

----------------------------------------------------------------------------

\* HAL_ETH_Transmit_IT(), HAL_ERROR unless the handle is started: then the frame
\* is dropped and low_level_output() returns.
Transmit(s) ==
    /\ tpc[s] = "idle"
    /\ gState = "started"
    /\ txRing' = Append(txRing, FALSE)
    /\ tpc' = [tpc EXCEPT ![s] = "sent"]
    /\ UNCHANGED TxPktSemaphore
    /\ UNCHANGED macVars

\* osSemaphoreAcquire(TxPktSemaphore, portMAX_DELAY)
TxAcquire(s) ==
    /\ tpc[s] = "sent"
    /\ tpc' = [tpc EXCEPT ![s] = IF TxPktSemaphore THEN "got" ELSE "wait"]
    /\ TxPktSemaphore' = FALSE
    /\ UNCHANGED txRing
    /\ UNCHANGED macVars

\* Mutant of ReleaseTxPacket: the newest frame is never released.
ReleaseTxPacketButLast(s) ==
    /\ tpc[s] = "got"
    /\ \E n \in 0..(Len(txRing) - 1) :
        /\ \A i \in 1..n : txRing[i]
        /\ n < Len(txRing) - 1 => ~txRing[n + 1]
        /\ txRing' = SubSeq(txRing, n + 1, Len(txRing))
    /\ tpc' = [tpc EXCEPT ![s] = "idle"]
    /\ UNCHANGED TxPktSemaphore
    /\ UNCHANGED macVars

\* HAL_ETH_ReleaseTxPacket(): the frames at the head that have gone out.  One step: it
\* reads BuffersInUse and writes it back at the end, and of the two senders only the
\* stack can come between, when the link thread releases its announcement; the count
\* of the frame it queues meanwhile, which the HAL would lose, is kept here.
ReleaseTxPacket(s) ==
    /\ tpc[s] = "got"
    /\ \E n \in 0..Len(txRing) :
        /\ \A i \in 1..n : txRing[i]
        /\ n < Len(txRing) => ~txRing[n + 1]
        /\ txRing' = SubSeq(txRing, n + 1, Len(txRing))
    /\ tpc' = [tpc EXCEPT ![s] = "idle"]
    /\ UNCHANGED TxPktSemaphore
    /\ UNCHANGED macVars

----------------------------------------------------------------------------
(* The DMA and the interrupt.                                              *)

DmaTransmit ==
    /\ dmaOn
    /\ \E i \in 1..Len(txRing) :
        /\ ~txRing[i]
        /\ \A j \in 1..(i - 1) : txRing[j]
        /\ txRing' = [txRing EXCEPT ![i] = TRUE]
    /\ txIrq' = TRUE
    /\ UNCHANGED <<TxPktSemaphore, tpc, gState, dmaOn, irqOn, rxIrq>>

\* osSemaphoreRelease() of a binary semaphore: to the waiting thread of the
\* highest priority, or one token, or nothing if there is one already.
TokenTo(s) ==
    /\ tpc[s] = "wait"
    /\ s = "link" => tpc["core"] # "wait"
    /\ tpc' = [tpc EXCEPT ![s] = "got"]
    /\ UNCHANGED TxPktSemaphore

\* Mutant of TxInterrupt: the flag is cleared without a word to the sender.
TxInterruptSilent ==
    /\ irqOn
    /\ txIrq
    /\ txIrq' = FALSE
    /\ UNCHANGED <<txVars, gState, dmaOn, irqOn, rxIrq>>

\* HAL_ETH_TxCpltCallback(): one for all frames that went out since the last.
TxInterrupt ==
    /\ irqOn
    /\ txIrq
    /\ txIrq' = FALSE
    /\ \/ \E s \in Senders : TokenTo(s)
       \/ /\ \A s \in Senders : tpc[s] # "wait"
          /\ TxPktSemaphore' = TRUE
          /\ UNCHANGED tpc
    /\ UNCHANGED <<txRing, gState, dmaOn, irqOn, rxIrq>>

CoreSends ==
    \/ Sends /\ Transmit("core")
    \/ TxAcquire("core")
    \/ ReleaseTxPacket("core")

TxHardware == DmaTransmit \/ TxInterrupt
=============================================================================
