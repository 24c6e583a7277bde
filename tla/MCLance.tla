------------------------------ MODULE MCLance -------------------------------
(***************************************************************************)
(* The LANCE, its driver, and the network behind it: the built-in one, or  *)
(* the TAP adapter, whose reader thread fills the queue.                   *)
(***************************************************************************)
EXTENDS Lance, Tap

vars == <<lanceVars, tapVars>>

\* The guest sends frames the network knows, and no frame of the wire is "none".
ASSUME KindAssumption == Kind \subseteq DOMAIN Reply \cup Unanswered
ASSUME FramesAssumption == Frames \in Seq({Frames[k] : k \in DOMAIN Frames} \ {None})

MCFrames == <<"f1", "big", "f2">>

MCInit == Init /\ TapInit

Ticks == Tick /\ UNCHANGED tapVars

Drives == Driver /\ UNCHANGED tapVars

TapQueues ==
    /\ handler = "tap" /\ Queue /\ rxq' = Append(rxq, buffer)
    /\ UNCHANGED <<handler, chip, rx, tx, echo, drv, sent>>

TapRuns == handler = "tap" /\ TapStep /\ UNCHANGED lanceVars

MCNext == Ticks \/ Drives \/ TapQueues \/ TapRuns

\* The execution loop calls Tick again and again, and the guest runs; its stops
\* and its frames are not promised.
Fairness ==
    /\ WF_vars(Ticks)
    /\ WF_vars((DriverDemand \/ DriverInterrupt \/ DriverAck \/ DriverReceive \/ DriverServed)
               /\ UNCHANGED tapVars)

MCSpec == MCInit /\ [][MCNext]_vars /\ Fairness

-----------------------------------------------------------------------------
(* Properties.                                                             *)

\* The receive descriptors the chip has filled.
Filled == {i \in RxSlot : ~rx[i].own /\ rx[i].frame # None}

\* Frames for the guest between the handler's queue and the driver.
RxUnderWay ==
    [k \in 1..Run(drv.rx, RxLen, Filled) |-> rx[At(drv.rx, RxLen, k)].frame]
    \o [k \in 1..Len(rxq) |-> Stored(rxq[k])]

\* Frames of the guest between the driver and the handler: the descriptors in
\* use but for those the chip is done with.
TxUnderWay ==
    LET done == Done
    IN  [k \in 1..drv.used - done |-> tx[At(drv.clean, TxLen, done + k)].frame]

\* What the handler queues.
Queued == {Reply[k] : k \in DOMAIN Reply} \cup {Frames[k] : k \in DOMAIN Frames}

RxItem == {Stored(f) : f \in Queued}

RxFifo == INSTANCE Fifo WITH Item <- RxItem, chan <- RxUnderWay, out <- drv.got, up <- running

TxFifo == INSTANCE Fifo WITH Item <- Kind, chan <- TxUnderWay, out <- sent, up <- running

\* The receive ring and the queue behind it implement the channel: what the
\* handler queues reaches the driver once, whole and in order, whatever the
\* ring's wrap-around, a full ring or a stop of the chip does. So does the
\* transmit ring towards the handler.
FramesInOrder == RxFifo!Spec /\ TxFifo!Spec

\* Work the chip has done for the driver is announced: a driver that is not
\* serving an interrupt, with a filled descriptor or one it may reuse before it,
\* has the interrupt line up. A cause that arises between the driver's look at
\* CSR0 and its acknowledgement is not lost.
WorkIsSignalled ==
    /\ drv.pc \in {"run", "demand"}
    /\ drv.rx \in Filled \/ (drv.used > 0 /\ ~tx[drv.clean].own)
    => line

\* Frames for the guest arrive, unless the guest stops the chip; a ring found
\* full is tried again when the driver has emptied it.
RxDelivered == (running /\ RxUnderWay # <<>>) ~> (~running \/ RxUnderWay = <<>>)

\* Frames of the adapter get lost or overtake each other only once a wait was
\* given up: until then what was taken from the wire is in the queue, but for
\* the one frame the thread is about to put there.
TapLosesOnlyAbandoned ==
    ~abandoned =>
        \/ queued \o wire = Frames
        \/ pc = "wait" /\ event /\ Append(queued, buffer) \o wire = Frames
=============================================================================
