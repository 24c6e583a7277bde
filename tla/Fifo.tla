-------------------------------- MODULE Fifo --------------------------------
(***************************************************************************)
(* What a ring of descriptors or a serial line promises: what one side     *)
(* puts in comes out on the other side once, whole and in order. Only when *)
(* the chip is off may items be dropped: those in its ring, or those that  *)
(* wait behind it.                                                         *)
(***************************************************************************)
EXTENDS Naturals, Sequences, SequencesExt

CONSTANT Item   \* what travels

VARIABLES
    chan,   \* under way, oldest first
    out,    \* came out, oldest first
    up      \* the chip runs

Init == chan = <<>> /\ out = <<>> /\ up \in BOOLEAN

\* One side puts in one item, or several at once.
Put ==
    /\ IsStrictPrefix(chan, chan')
    /\ \A k \in Len(chan) + 1..Len(chan') : chan'[k] \in Item
    /\ UNCHANGED <<out, up>>

\* The other takes one, or several at once.
Get ==
    /\ IsStrictPrefix(out, out') /\ out \o chan = out' \o chan'
    /\ UNCHANGED up

\* The chip goes off, or is off, and its oldest or newest items are lost.
Lose ==
    /\ ~up' /\ out' = out
    /\ \E i \in 1..Len(chan) + 1, j \in 0..Len(chan) : chan' = SubSeq(chan, i, j)

Start == ~up /\ up' = TRUE /\ UNCHANGED <<chan, out>>

Next == Put \/ Get \/ Lose \/ Start

Spec == Init /\ [][Next]_<<chan, out, up>>
=============================================================================
