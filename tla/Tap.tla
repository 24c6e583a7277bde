-------------------------------- MODULE Tap ---------------------------------
(***************************************************************************)
(* The receiving side of the TAP network (IO/TapNetworkHandler): ReadLoop  *)
(* reads frames from the adapter by overlapped reads and puts them into    *)
(* the queue that the LANCE empties.                                       *)
(*                                                                         *)
(* A read that has not completed after 500 ms is left where it is, and the *)
(* loop starts another: the reads outstanding share the buffer, the event  *)
(* and the OVERLAPPED, which lies at the same place of the stack again.    *)
(* The adapter is external; it completes the reads in their order.         *)
(***************************************************************************)
EXTENDS Naturals, Sequences

CONSTANTS
    Frames,     \* the frames that come from the network, in their order
    MaxReads    \* bound: reads outstanding

ASSUME ReadsAssumption == MaxReads \in Nat \ {0}

VARIABLES
    wire,      \* frames no read has taken yet
    reads,     \* reads outstanding
    buffer,    \* what the last completed read left in the buffer
    event,     \* m_readEvent is signalled, and the OVERLAPPED says complete
    pc,        \* ReadLoop: at "reset", "issue" or "wait"
    queued,    \* frames put into m_rxQueue so far
    abandoned  \* a wait was given up with its read still outstanding

tapVars == <<wire, reads, buffer, event, pc, queued, abandoned>>

TapInit ==
    /\ wire = Frames /\ reads = 0 /\ buffer = "empty" /\ event = FALSE
    /\ pc = "reset" /\ queued = <<>> /\ abandoned = FALSE

\* A new OVERLAPPED, and the event reset.
Reset ==
    /\ pc = "reset" /\ pc' = "issue" /\ event' = FALSE
    /\ UNCHANGED <<wire, reads, buffer, queued, abandoned>>

\* ReadFile, which resets the event as well: pending until a frame comes.
Issue ==
    /\ pc = "issue" /\ pc' = "wait" /\ reads < MaxReads
    /\ reads' = reads + 1 /\ event' = FALSE
    /\ UNCHANGED <<wire, buffer, queued, abandoned>>

\* A frame arrives and completes the oldest read.
Complete ==
    /\ wire # <<>> /\ reads > 0
    /\ wire' = Tail(wire) /\ buffer' = Head(wire)
    /\ reads' = reads - 1 /\ event' = TRUE
    /\ UNCHANGED <<pc, queued, abandoned>>

\* Mutant: the result of the wait is not looked at.
ReadyAnyway == TRUE

\* The wait ended because the event was signalled.
Ready == event

\* The frame goes into the queue.
Queue ==
    /\ pc = "wait" /\ Ready
    /\ pc' = "reset" /\ queued' = Append(queued, buffer)
    /\ UNCHANGED <<wire, reads, buffer, event, abandoned>>

\* 500 ms without a frame. The bound leaves room for the read to come.
WaitTimesOut ==
    /\ pc = "wait" /\ ~event /\ reads < MaxReads
    /\ pc' = "reset" /\ abandoned' = TRUE
    /\ UNCHANGED <<wire, reads, buffer, event, queued>>

\* All but Queue, which concerns the LANCE too.
TapStep == Reset \/ Issue \/ Complete \/ WaitTimesOut
=============================================================================
