------------------------------- MODULE Lance --------------------------------
(***************************************************************************)
(* The AM7990 LANCE (IO/LanceDevice) and the driver that shares two rings  *)
(* of descriptors with it. A descriptor belongs to the chip or to the      *)
(* driver; whoever owns it may use its buffer, and hands it over by the    *)
(* OWN bit. Tick moves frames; the driver is told by an interrupt, whose   *)
(* causes it clears by writing them back to CSR0.                          *)
(*                                                                         *)
(* The network behind the chip is a handler with a queue of frames for the *)
(* guest. The built-in one (IO/VirtualNetworkHandler) answers within       *)
(* ProcessPacket; the others fill the queue from threads of their own.     *)
(* The driver is external: it follows the data sheet's protocol.           *)
(***************************************************************************)
EXTENDS Integers, Sequences, FiniteSetsExt

CONSTANTS
    RxLen, TxLen,   \* descriptors of the two rings
    Kind,           \* the kinds of frames the guest sends
    TooBig,         \* frames of the network that no buffer of the guest holds
    MaxTx           \* bound: frames the guest sends

ASSUME RingAssumption == RxLen \in Nat \ {0} /\ TxLen \in Nat \ {0} /\ MaxTx \in Nat

VARIABLES
    handler,      \* "virtual" or "tap": the network mode, which never changes
    csr0,         \* the stored bits of CSR0
    running,      \* m_running
    initialized,  \* m_initialized
    txPending,    \* m_txPending
    rxIndex,      \* m_rxRingIndex
    txIndex,      \* m_txRingIndex
    line,         \* the level of InterruptOutput
    rx,           \* the receive descriptors
    tx,           \* the transmit descriptors
    rxq,          \* the handler's queue of frames for the guest
    echo,         \* m_tcpConnections: the state of the guest's connection to port 7
    drv,          \* the driver
    sent          \* the frames given to the handler's ProcessPacket

chip == <<csr0, running, initialized, txPending, rxIndex, txIndex, line>>

W1C == {"RINT", "TINT", "IDON", "MISS"}

None == "none"

RxSlot == 0..RxLen - 1
TxSlot == 0..TxLen - 1

\* UpdateInterrupt.
Interrupt(c) == c \cap W1C # {} /\ "INEA" \in c

Init ==
    /\ handler \in {"virtual", "tap"}
    /\ csr0 = {"STOP"} /\ running = FALSE /\ initialized = FALSE /\ txPending = FALSE
    /\ rxIndex = 0 /\ txIndex = 0 /\ line = FALSE
    /\ rx = [i \in RxSlot |-> [own |-> FALSE, frame |-> None]]
    /\ tx = [i \in TxSlot |-> [own |-> FALSE, frame |-> None]]
    /\ rxq = <<>> /\ echo = None
    /\ drv = [pc |-> "down", rx |-> 0, tx |-> 0, clean |-> 0, used |-> 0,
              causes |-> {}, made |-> 0, got |-> <<>>]
    /\ sent = <<>>

-----------------------------------------------------------------------------
(* CSR0.                                                                   *)

\* Mutant: any write of CSR0 clears all the status bits.
ClearedAll(v) == csr0 \ W1C

\* Status bits are cleared by a one.
Cleared(v) == csr0 \ (v \cap W1C)

\* The bits after writing v, without STOP: INEA is only ever set, and INIT is
\* carried out at once.
Written(v) ==
    LET c == Cleared(v) \cup (v \cap {"INEA"})
        i == IF "INIT" \in v THEN (c \ {"STOP"}) \cup {"IDON"} ELSE c
    IN  IF "STRT" \in v /\ (initialized \/ "INIT" \in v) THEN i \ {"STOP"} ELSE i

\* WriteCsr(0, v) for v without STOP; DoInit is part of it.
WriteCsr0(v) ==
    /\ csr0' = Written(v)
    /\ initialized' = (initialized \/ "INIT" \in v)
    /\ running' = (running \/ ("STRT" \in v /\ initialized'))
    /\ txPending' = (txPending \/ "TDMD" \in v)
    /\ rxIndex' = IF "INIT" \in v THEN 0 ELSE rxIndex
    /\ txIndex' = IF "INIT" \in v THEN 0 ELSE txIndex
    /\ line' = Interrupt(csr0')

\* WriteCsr(0, STOP), with the handler's Reset.
StopChip ==
    /\ csr0' = {"STOP"} /\ running' = FALSE /\ initialized' = FALSE /\ txPending' = FALSE
    /\ rxq' = <<>> /\ echo' = None
    /\ line' = Interrupt(csr0')
    /\ UNCHANGED <<rxIndex, txIndex>>

-----------------------------------------------------------------------------
(* The built-in network: what it answers to a frame of the guest, and the  *)
(* state of its one TCP service, the echo port.                            *)

Reply == [arp |-> "arpReply", ping |-> "pong", udpEcho |-> "udpReply", tcp |-> "rst",
          syn |-> "synAck", ack |-> "echoed", data |-> "echoed", fin |-> "finAck"]

\* Frames that are never answered: an ARP probe or announcement, UDP to any
\* port but the echo port, a RST.
Unanswered == {"probe", "udp", "rstEcho"}

\* Frames of an echo connection, which are answered only within one. A bare ACK
\* is answered as data: its padding to the shortest Ethernet frame is echoed.
OfConnection == {"ack", "data", "fin"}

\* HandleArp, HandleIcmp, HandleUdp and HandleTcp on frame f, for a handler with
\* connection state e and queue q.
Handled(a, f) ==
    IF f \in Unanswered \/ (f \in OfConnection /\ a.echo = None)
      THEN [a EXCEPT !.echo = IF f = "rstEcho" THEN None ELSE @]
    ELSE [q |-> Append(a.q, Reply[f]),
          echo |-> CASE f = "syn" -> "SynReceived"
                     [] f \in {"ack", "data"} -> "Established"
                     [] f = "fin" -> None
                     [] OTHER -> a.echo]

\* ProcessPacket for the frames F in turn: the queue and the connection after it.
Processed(F) ==
    LET after[k \in 0..Len(F)] ==
          IF k = 0 THEN [q |-> rxq, echo |-> echo] ELSE Handled(after[k - 1], F[k])
    IN  after[IF handler = "virtual" THEN Len(F) ELSE 0]

-----------------------------------------------------------------------------
(* Tick: ProcessTxRing, then ProcessRxRing.                                *)

\* The k-th slot of a ring of length n from slot i on.
At(i, n, k) == (i + k - 1) % n

\* How many descriptors from i on are in S without a gap.
Run(i, n, S) == Min({n} \cup {k \in 0..n - 1 : At(i, n, k + 1) \notin S})

\* The descriptors with their OWN bit.
TxOwned == {i \in TxSlot : tx[i].own}

\* Mutant: the chip fills descriptors the driver has not given back.
RxOwnedAnyway == RxSlot

RxOwned == {i \in RxSlot : rx[i].own}

\* The frames ProcessTxRing sends.
ToSend ==
    IF txPending /\ running
      THEN [k \in 1..Run(txIndex, TxLen, TxOwned) |-> tx[At(txIndex, TxLen, k)].frame]
      ELSE <<>>

\* Mutant: the interrupt line is not recomputed.
LineKept(c) == line

LineAfter(c) == Interrupt(c)

Stored(f) == IF f \in TooBig THEN "error" ELSE f

\* Mutant: the index of the transmit ring stays.
TxStay(n) == txIndex

TxAdvance(n) == (txIndex + n) % TxLen

Tick ==
    LET F == ToSend
        p == Processed(F)
        n == IF running THEN Min({Len(p.q), Run(rxIndex, RxLen, RxOwned)}) ELSE 0
        c == csr0 \cup (IF F # <<>> THEN {"TINT"} ELSE {})
                  \cup (IF n > 0 THEN {"RINT"} ELSE {})
                  \cup (IF running /\ Len(p.q) > n THEN {"MISS"} ELSE {})
        \* the position, from rxIndex on, of slot i
        Pos(i) == ((i + RxLen - rxIndex) % RxLen) + 1
    IN  /\ sent' = sent \o F
        /\ tx' = [i \in TxSlot |->
                    IF (i + TxLen - txIndex) % TxLen < Len(F) THEN [tx[i] EXCEPT !.own = FALSE]
                    ELSE tx[i]]
        /\ txIndex' = TxAdvance(Len(F))
        /\ txPending' = (txPending /\ ~running)
        /\ echo' = p.echo
        /\ rxq' = SubSeq(p.q, n + 1, Len(p.q))
        /\ rx' = [i \in RxSlot |->
                    IF Pos(i) <= n THEN [own |-> FALSE, frame |-> Stored(p.q[Pos(i)])] ELSE rx[i]]
        /\ rxIndex' = (rxIndex + n) % RxLen
        /\ csr0' = c
        /\ line' = IF F # <<>> \/ n > 0 \/ (running /\ Len(p.q) > n) THEN LineAfter(c) ELSE line
        /\ UNCHANGED <<handler, running, initialized, drv>>

-----------------------------------------------------------------------------
(* The driver (external).                                                  *)

To(pc) == [drv EXCEPT !.pc = pc]

\* It lays out both rings and gives INIT to the stopped chip.
DriverInit ==
    /\ drv.pc = "down" /\ "STOP" \in csr0
    /\ rx' = [i \in RxSlot |-> [own |-> TRUE, frame |-> None]]
    /\ tx' = [i \in TxSlot |-> [own |-> FALSE, frame |-> None]]
    /\ drv' = [drv EXCEPT !.pc = "init", !.rx = 0, !.tx = 0, !.clean = 0, !.used = 0]
    /\ WriteCsr0({"INIT"})
    /\ UNCHANGED <<handler, rxq, echo, sent>>

DriverStart ==
    /\ drv.pc = "init" /\ drv' = To("run")
    /\ WriteCsr0({"STRT", "INEA", "IDON"})
    /\ UNCHANGED <<handler, rx, tx, rxq, echo, sent>>

DriverStop ==
    /\ drv.pc = "run" /\ drv' = To("down")
    /\ StopChip
    /\ UNCHANGED <<handler, rx, tx, sent>>

\* A frame for the network: the descriptor first, then the demand. On the TAP
\* adapter nothing answers at once, so one kind of frame stands for all.
DriverSend(f) ==
    /\ handler = "tap" => f = "probe"
    /\ drv.pc = "run" /\ drv.used < TxLen /\ drv.made < MaxTx
    /\ tx' = [tx EXCEPT ![drv.tx] = [own |-> TRUE, frame |-> f]]
    /\ drv' = [drv EXCEPT !.pc = "demand", !.tx = (@ + 1) % TxLen, !.used = @ + 1,
                          !.made = @ + 1]
    /\ UNCHANGED <<chip, handler, rx, rxq, echo, sent>>

DriverDemand ==
    /\ drv.pc = "demand" /\ drv' = To("run")
    /\ WriteCsr0({"TDMD", "INEA"})
    /\ UNCHANGED <<handler, rx, tx, rxq, echo, sent>>

\* The interrupt: it reads the causes, clears those it read, and serves them.
DriverInterrupt ==
    /\ drv.pc = "run" /\ line
    /\ drv' = [To("ack") EXCEPT !.causes = csr0 \cap W1C]
    /\ UNCHANGED <<chip, handler, rx, tx, rxq, echo, sent>>

DriverAck ==
    /\ drv.pc = "ack" /\ drv' = To("serve")
    /\ WriteCsr0(drv.causes \cup {"INEA"})
    /\ UNCHANGED <<handler, rx, tx, rxq, echo, sent>>

\* A filled descriptor is emptied and given back.
DriverReceive ==
    /\ drv.pc = "serve" /\ "RINT" \in drv.causes /\ ~rx[drv.rx].own
    /\ rx' = [rx EXCEPT ![drv.rx] = [own |-> TRUE, frame |-> None]]
    /\ drv' = [drv EXCEPT !.got = Append(@, rx[drv.rx].frame), !.rx = (@ + 1) % RxLen]
    /\ UNCHANGED <<chip, handler, tx, rxq, echo, sent>>

\* The descriptors in use that the chip is done with.
Done == Min({drv.used, Run(drv.clean, TxLen, TxSlot \ TxOwned)})

\* They are free again.
DriverServed ==
    LET n == IF "TINT" \in drv.causes THEN Done ELSE 0
    IN  /\ drv.pc = "serve" /\ ("RINT" \in drv.causes => rx[drv.rx].own)
        /\ drv' = [To("run") EXCEPT !.clean = (@ + n) % TxLen, !.used = @ - n, !.causes = {}]
        /\ UNCHANGED <<chip, handler, rx, tx, rxq, echo, sent>>

Driver ==
    \/ DriverInit   \/ DriverStart     \/ DriverStop \/ \E f \in Kind : DriverSend(f)
    \/ DriverDemand \/ DriverInterrupt \/ DriverAck  \/ DriverReceive \/ DriverServed

lanceVars == <<handler, chip, rx, tx, rxq, echo, drv, sent>>
=============================================================================
