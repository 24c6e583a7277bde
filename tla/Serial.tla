------------------------------- MODULE Serial -------------------------------
(* The Z8530 serial controller (IO/Z8530Device.cpp): what the user types     *)
(* waits in a queue that the UI thread fills, and comes to the guest's       *)
(* console by polling or by receive interrupts; what the guest prints leaves *)
(* by polling or by transmit interrupts.  Interrupts are simulated by ticks, *)
(* which go on while the CPU is stopped.  The driver is the guest's, modelled*)
(* after what the device is there for; it reaches a register through its two *)
(* accesses, pointer and value, with interrupts masked, as one step.         *)
EXTENDS Naturals, Sequences

CONSTANTS Keys,       \* what can be typed
          TxProd,     \* ticks after which a transmit interrupt is raised again
          MaxTyped,   \* bound: keys typed
          MaxPrinted  \* bound: characters the guest prints on a channel

ASSUME SerialAssumption == {TxProd, MaxTyped, MaxPrinted} \subseteq Nat \ {0}

Channels == {"A", "B"}  \* A is the console

VARIABLES ch,       \* the registers of each channel
          pending,  \* m_pendingInput of channel A
          line,     \* what InterruptOutput last said
          stopped,  \* the CPU is in STOP
          typed,    \* keys typed so far
          drv       \* the guest: its mode, its copy of TIE, what it has to
                    \* print, whether it waits for an interrupt to print it,
                    \* how much it has printed, and the keys it has got

serialVars == <<ch, pending, line, stopped, typed, drv>>

(* m_rxFifo, the enables of WR1, m_txIntPending, m_txInProgress, m_txIdleTicks *)
Idle == [rx |-> <<>>, rxie |-> FALSE, txie |-> FALSE,
         pend |-> FALSE, busy |-> FALSE, idle |-> 0]

TxActive(c) == c.pend /\ c.txie
RxActive(c) == c.rx # <<>> /\ c.rxie

UpdateCompositeInterrupt(chs) ==
  line' = \E n \in Channels : TxActive(chs[n]) \/ RxActive(chs[n])

Become(chs) == ch' = chs /\ UpdateCompositeInterrupt(chs)

-----------------------------------------------------------------------------
(* Register operations *)

RxAvailable == ch["A"].rx # <<>> \/ pending # <<>>

(* Write to WR1: a transmit interrupt enabled while nothing is sent is due.  *)
WriteWR1(n, rxie, txie) ==
  LET c == ch[n]
  IN  Become([ch EXCEPT ![n] = [c EXCEPT !.rxie = rxie, !.txie = txie,
                                  !.pend = @ \/ (txie /\ ~ c.busy)]])

(* WR0 command 5 *)
ResetTxInt(n) == Become([ch EXCEPT ![n].pend = FALSE])

WriteData(n) ==
  Become([ch EXCEPT ![n] = [@ EXCEPT !.busy = TRUE, !.pend = FALSE, !.idle = 0]])

(* Mutant: the staging queue is read before the FIFO. *)
ReadDataStagedFirst(got) ==
  \/ /\ pending # <<>>
     /\ got = Head(pending)
     /\ pending' = Tail(pending)
     /\ UNCHANGED <<ch, line>>
  \/ /\ pending = <<>> /\ ch["A"].rx # <<>>
     /\ got = Head(ch["A"].rx)
     /\ Become([ch EXCEPT !["A"].rx = Tail(@)])
     /\ UNCHANGED pending

(* The receive FIFO comes before the keys that still wait; the line is       *)
(* looked at again only when the FIFO runs empty.                            *)
ReadData(got) ==
  \/ /\ Len(ch["A"].rx) > 1
     /\ got = Head(ch["A"].rx)
     /\ ch' = [ch EXCEPT !["A"].rx = Tail(@)]
     /\ UNCHANGED <<pending, line>>
  \/ /\ Len(ch["A"].rx) = 1
     /\ got = Head(ch["A"].rx)
     /\ Become([ch EXCEPT !["A"].rx = <<>>])
     /\ UNCHANGED pending
  \/ /\ ch["A"].rx = <<>> /\ pending # <<>>
     /\ got = Head(pending)
     /\ pending' = Tail(pending)
     /\ UNCHANGED <<ch, line>>

-----------------------------------------------------------------------------
(* Tick *)

(* Mutant: an idle transmitter is never prodded. *)
TxTickNoProd(c) ==
  CASE c.busy -> [c EXCEPT !.busy = FALSE, !.pend = TRUE, !.idle = 0]
    [] ~ c.busy /\ stopped /\ c.pend /\ ~ c.txie -> [c EXCEPT !.txie = TRUE, !.idle = 0]
    [] OTHER -> [c EXCEPT !.idle = 0]

TxTick(c) ==
  CASE c.busy -> [c EXCEPT !.busy = FALSE, !.pend = TRUE, !.idle = 0]
    [] ~ c.busy /\ c.txie /\ ~ c.pend ->
         IF c.idle + 1 >= TxProd THEN [c EXCEPT !.pend = TRUE, !.idle = 0]
                                 ELSE [c EXCEPT !.idle = @ + 1]
    [] ~ c.busy /\ stopped /\ c.pend /\ ~ c.txie ->
         [c EXCEPT !.txie = TRUE, !.idle = 0]
    [] OTHER -> [c EXCEPT !.idle = 0]

(* Mutant: keys are promoted only while the CPU is stopped. *)
PromotesWhenStopped(c) == c.rxie /\ pending # <<>> /\ stopped

(* Keys move into the FIFO once the guest has enabled receive interrupts. *)
Promotes(c) == c.rxie /\ pending # <<>>

SerialTick ==
  LET sent == [n \in Channels |-> TxTick(ch[n])]
      all  == IF Promotes(ch["A"])
              THEN [sent EXCEPT !["A"].rx = @ \o pending] ELSE sent
  IN  /\ ch' = all
      /\ pending' = IF Promotes(ch["A"]) THEN <<>> ELSE pending
      /\ \/ /\ \E n \in Channels : [all[n] EXCEPT !.idle = 0] # [ch[n] EXCEPT !.idle = 0]
            /\ UpdateCompositeInterrupt(all)
         \/ /\ \A n \in Channels : [all[n] EXCEPT !.idle = 0] = [ch[n] EXCEPT !.idle = 0]
            /\ UNCHANGED line
      /\ UNCHANGED <<stopped, typed, drv>>

-----------------------------------------------------------------------------
(* The UI thread: SendConsoleChar *)

QueueInput(k) ==
  /\ typed < MaxTyped
  /\ typed' = typed + 1
  /\ pending' = Append(pending, k)
  /\ UNCHANGED <<ch, line, stopped, drv>>

-----------------------------------------------------------------------------
(* The guest *)

SerialInit ==
  /\ ch = [n \in Channels |-> Idle]
  /\ pending = <<>>
  /\ line = FALSE
  /\ stopped = FALSE
  /\ typed = 0
  /\ drv = [mode |-> "polled", tie |-> [n \in Channels |-> FALSE],
            todo |-> [n \in Channels |-> 0], waits |-> [n \in Channels |-> FALSE],
            printed |-> [n \in Channels |-> 0], got |-> <<>>]

Mode(m) == drv.mode = m /\ ~ stopped

(* A program of the guest has something to print. *)
Request(n) ==
  /\ drv.mode # "isr" /\ ~ stopped
  /\ drv.printed[n] < MaxPrinted
  /\ drv' = [drv EXCEPT !.todo[n] = @ + 1, !.printed[n] = @ + 1]
  /\ UNCHANGED <<ch, pending, line, stopped, typed>>

PollKey ==
  /\ Mode("polled") /\ RxAvailable
  /\ \E k \in Keys : ReadData(k) /\ drv' = [drv EXCEPT !.got = Append(@, k)]
  /\ UNCHANGED <<stopped, typed>>

PollPut(n) ==
  /\ Mode("polled") /\ drv.todo[n] > 0 /\ ~ ch[n].busy
  /\ WriteData(n)
  /\ drv' = [drv EXCEPT !.todo[n] = @ - 1]
  /\ UNCHANGED <<pending, stopped, typed>>

(* The driver attaches: from now on receive interrupts. *)
Attach ==
  /\ Mode("polled")
  /\ Become([ch EXCEPT !["A"].rxie = TRUE, !["B"].rxie = TRUE])
  /\ drv' = [drv EXCEPT !.mode = "base"]
  /\ UNCHANGED <<pending, stopped, typed>>

(* Something to print: the driver enables transmit interrupts, if by its     *)
(* copy they are not, and waits for one.                                     *)
Start(n) ==
  /\ Mode("base") /\ drv.todo[n] > 0 /\ ~ drv.waits[n]
  /\ \/ ~ drv.tie[n] /\ WriteWR1(n, TRUE, TRUE)
     \/ drv.tie[n] /\ UNCHANGED <<ch, line>>
  /\ drv' = [drv EXCEPT !.tie[n] = TRUE, !.waits[n] = TRUE]
  /\ UNCHANGED <<pending, stopped, typed>>

(* The guest's idle loop: nothing is left to start. *)
Stop ==
  /\ Mode("base")
  /\ \A n \in Channels : drv.todo[n] > 0 => drv.waits[n]
  /\ stopped' = TRUE
  /\ UNCHANGED <<ch, pending, line, typed, drv>>

Interrupt ==
  /\ drv.mode = "base" /\ line
  /\ stopped' = FALSE
  /\ drv' = [drv EXCEPT !.mode = "isr"]
  /\ UNCHANGED <<ch, pending, line, typed>>

IsrKey ==
  /\ Mode("isr") /\ RxAvailable
  /\ \E k \in Keys : ReadData(k) /\ drv' = [drv EXCEPT !.got = Append(@, k)]
  /\ UNCHANGED <<stopped, typed>>

(* RR3 names a transmit interrupt: the next character, or nothing more to    *)
(* send; then the interrupt is reset, and it may be disabled.                *)
IsrTx(n) ==
  /\ Mode("isr") /\ ~ RxAvailable /\ TxActive(ch[n])
  /\ \/ /\ drv.todo[n] > 0
        /\ WriteData(n)
        /\ drv' = [drv EXCEPT !.todo[n] = @ - 1]
     \/ /\ drv.todo[n] = 0
        /\ ResetTxInt(n)
        /\ drv' = [drv EXCEPT !.waits[n] = FALSE]
     \/ /\ drv.todo[n] = 0
        /\ WriteWR1(n, TRUE, FALSE)
        /\ drv' = [drv EXCEPT !.waits[n] = FALSE, !.tie[n] = FALSE]
  /\ UNCHANGED <<pending, stopped, typed>>

IsrDone ==
  /\ Mode("isr") /\ ~ RxAvailable /\ \A n \in Channels : ~ TxActive(ch[n])
  /\ UpdateCompositeInterrupt(ch)  \* WR0 command 7
  /\ drv' = [drv EXCEPT !.mode = "base"]
  /\ UNCHANGED <<ch, pending, stopped, typed>>

SerialNext ==
  \/ SerialTick
  \/ \E k \in Keys : QueueInput(k)
  \/ \E n \in Channels : Request(n) \/ PollPut(n) \/ Start(n) \/ IsrTx(n)
  \/ PollKey \/ Attach \/ Stop \/ Interrupt \/ IsrKey \/ IsrDone

(* The emulation thread ticks for ever, takes an interrupt that is requested *)
(* and runs the guest, whose handler and whose loops go on.  A handler serves *)
(* both channels and ends, a program gets on between two interrupts: the     *)
(* prod comes after 16 ticks, of 256 instructions each.                      *)
Fairness ==
  /\ WF_serialVars(SerialTick) /\ WF_serialVars(Interrupt) /\ WF_serialVars(IsrKey) /\ SF_serialVars(IsrDone)
  /\ WF_serialVars(PollKey)
  /\ \A n \in Channels : /\ WF_serialVars(PollPut(n)) /\ SF_serialVars(Start(n))
                         /\ SF_serialVars(IsrTx(n))

SerialSpec == SerialInit /\ [][SerialNext]_serialVars /\ Fairness
-----------------------------------------------------------------------------
Console == INSTANCE Fifo WITH Item <- Keys, chan <- ch["A"].rx \o pending,
                              out <- drv.got, up <- TRUE

(* What is typed reaches the guest once and in order, whether it polls or    *)
(* takes interrupts, and whenever it changes over.                           *)
TypedInOrder == Console!Spec

(* The guest gets every key, even if it never executes STOP.  *)
KeysDelivered == RxAvailable ~> ~ RxAvailable

(* What the guest wants to print is printed: its transmit interrupt comes,   *)
(* or comes again if the driver has reset the last one it will get.          *)
OutputDrains == \A n \in Channels : drv.todo[n] > 0 ~> drv.todo[n] = 0
=============================================================================
