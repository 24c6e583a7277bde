---------------------------- MODULE DeviceProofs ----------------------------
(***************************************************************************)
(* What holds of two devices: the SCSI controller (Wd33c93) and the serial *)
(* controller (Serial).                                                    *)
(*                                                                         *)
(* Of the SCSI controller for any disks and drives, any length of a data   *)
(* phase and any guest. The invariant has two layers. SafeOK holds         *)
(* whatever the guest does: it relates the bus to its target and the       *)
(* command without an answer to the transfer that is armed for it.         *)
(* DriverOK holds of a guest that keeps the driver's discipline: it says   *)
(* at each phase how far the job of the target has come.                   *)
(*                                                                         *)
(* Of the serial controller that its console input implements the channel  *)
(* of Fifo, whatever the keys, the bounds and the period of the prod: a    *)
(* refinement proof. The mapping takes the receive FIFO and the staging    *)
(* queue behind it as one channel, so a promotion from one to the other is *)
(* a stuttering step, and every other action either adds a key, takes the  *)
(* oldest, or does neither.                                                *)
(***************************************************************************)
EXTENDS Wd33c93, Serial, SequenceTheorems, TLAPS


Buses == [phase : Phase, tgt : Target \cup {None}, sat : BOOLEAN,
          off : 0..MaxLen, len : 0..MaxLen]

Jobs == [op : {"none", "nodata", "read", "write", "modeSelect"},
         tgt : Target \cup {None}, sat : BOOLEAN, len : 0..MaxLen,
         moved : Nat, commits : Nat, wrote : Target \cup {None}]

\* A bus that is in a phase has a target, and has not run past its buffer.
Connected(b) ==
    b \in Buses /\ b.off <= b.len /\ (b.phase = "Idle" <=> b.tgt = None)

ControlOK ==
    /\ guest \in Guests /\ ready \in SUBSET Target
    /\ pio \in BOOLEAN /\ sbt \in {"none", "in", "out"}
    /\ follow \in BOOLEAN /\ int \in BOOLEAN /\ csr \in Csr /\ owed \in BOOLEAN

\* What a command without an answer needs: an idle bus answers nothing.
Awaited == owed => bus.phase # "Idle" /\ (pio \/ sbt # "none")

SafeOK ==
    Connected(bus) /\ job \in Jobs /\ ControlOK /\ tc \in 0..(MaxLen + 1) /\ Awaited

USE DEF Phase, InPhase, OutPhase, DataPhase

-----------------------------------------------------------------------------
(* The operators the commands are built from, for any guest.               *)

\* The smaller of two counts.
LEMMA SmallerOfTwo ==
  ASSUME NEW m \in Nat, NEW n \in Nat
  PROVE  Min({m, n}) \in Nat /\ Min({m, n}) <= m /\ Min({m, n}) <= n
<1>1. \E x \in {m, n} : \A y \in {m, n} : x =< y
  OBVIOUS
<1>2. Min({m, n}) \in {m, n} /\ \A y \in {m, n} : Min({m, n}) =< y
  BY <1>1 DEF Min
<1> QED
  BY <1>2

\* A bus on which another phase begins.
Begins(b, p, n) == [b EXCEPT !.phase = p, !.off = 0, !.len = n]

\* It is connected, and the rest of it is as before.
LEMMA PhaseBegins ==
  ASSUME NEW b \in Buses, NEW p \in Phase, NEW n \in 0..MaxLen,
         p = "Idle" <=> b.tgt = None
  PROVE  /\ Connected(Begins(b, p, n)) /\ Begins(b, p, n).phase = p
         /\ Begins(b, p, n).tgt = b.tgt /\ Begins(b, p, n).sat = b.sat
         /\ Begins(b, p, n).off = 0 /\ Begins(b, p, n).len = n
<1>1. /\ Begins(b, p, n).phase = p /\ Begins(b, p, n).off = 0
      /\ Begins(b, p, n).tgt = b.tgt /\ Begins(b, p, n).sat = b.sat
      /\ Begins(b, p, n).len = n
  BY DEF Buses, Begins
<1>2. 0 \in 0..MaxLen /\ 0 <= n
  BY BoundAssumption
<1>3. Begins(b, p, n) \in Buses
  <2> HIDE DEF Phase, InPhase, OutPhase, DataPhase
  <2> QED
    BY <1>2 DEF Buses, Begins
<1> QED
  BY <1>1, <1>2, <1>3 DEF Connected

\* A bus whose buffer is filled anew.
Refilled(b, n) == [b EXCEPT !.off = 0, !.len = n]

\* It stays in its phase and connected.
LEMMA RefilledConnected ==
  ASSUME NEW b, Connected(b), NEW n \in 0..MaxLen
  PROVE  Connected(Refilled(b, n)) /\ Refilled(b, n).phase = b.phase
<1>1. /\ Refilled(b, n).phase = b.phase /\ Refilled(b, n).tgt = b.tgt
      /\ Refilled(b, n).off = 0 /\ Refilled(b, n).len = n
  BY DEF Refilled, Connected, Buses
<1>2. 0 \in 0..MaxLen /\ 0 <= n
  BY BoundAssumption
<1>3. Refilled(b, n) \in Buses
  <2> HIDE DEF Phase, InPhase, OutPhase, DataPhase
  <2> QED
    BY <1>2 DEF Refilled, Connected, Buses
<1> QED
  BY <1>1, <1>2, <1>3 DEF Connected

\* The end of a data transfer answers and leaves the bus connected or free.
LEMMA DataDoneSafe ==
  ASSUME NEW b, NEW j, Connected(b), j \in Jobs, b.phase \in DataPhase,
         DataDone(b, j)
  PROVE  Connected(bus') /\ job' \in Jobs /\ int' = TRUE /\ csr' \in Csr /\ owed' = FALSE
<1>1. Committed(b, j) \in Jobs
  <2>1. j.commits + 1 \in Nat /\ b.tgt \in Target \cup {None}
    BY DEF Jobs, Connected, Buses
  <2>2. [j EXCEPT !.commits = @ + 1, !.wrote = b.tgt] \in Jobs
    BY <2>1 DEF Jobs
  <2> QED
    BY <2>2 DEF Committed
<1>2. Connected([Free(b) EXCEPT !.sat = FALSE])
  BY DEF Connected, Buses, Free
<1>3. Connected([b EXCEPT !.phase = "Status"])
  BY DEF Connected, Buses
<1> QED
  BY <1>1, <1>2, <1>3 DEF DataDone, CompleteSat, Raise, Csr

\* A DMA segment moves no more than the count and the buffer allow.
LEMMA DmaSafe ==
  ASSUME NEW b, NEW j, Connected(b), j \in Jobs, b.phase \in DataPhase,
         tc \in 0..(MaxLen + 1), Dma(b, j)
  PROVE  /\ Connected(bus') /\ job' \in Jobs /\ int' = TRUE /\ csr' \in Csr
         /\ owed' = FALSE /\ tc' \in 0..(MaxLen + 1)
<1> DEFINE n == Min({tc, b.len - b.off})
<1>1. n \in Nat /\ n <= tc /\ n <= b.len - b.off
  <2>1. tc \in Nat /\ b.len - b.off \in Nat
    BY BoundAssumption DEF Connected, Buses
  <2> QED
    BY <2>1, SmallerOfTwo
<1> HIDE DEF n
<1>2. Connected([b EXCEPT !.off = @ + n]) /\ [b EXCEPT !.off = @ + n].phase = b.phase
  BY <1>1, BoundAssumption DEF Connected, Buses
<1>3. [j EXCEPT !.moved = @ + n] \in Jobs
  BY <1>1 DEF Jobs
<1>4. tc' = tc - n /\ DataDone([b EXCEPT !.off = @ + n], [j EXCEPT !.moved = @ + n])
  BY DEF Dma, n
<1>5. tc' \in 0..(MaxLen + 1)
  BY <1>1, <1>4, BoundAssumption
<1> QED
  BY <1>2, <1>3, <1>4, <1>5, DataDoneSafe

\* A target's answer to a command.
LEMMA ResultsTyped ==
  ASSUME NEW t \in Target, NEW r \in Results(t), NEW s \in BOOLEAN
  PROVE  /\ JobOf(t, s, r) \in Jobs /\ r.len \in 0..MaxLen
         /\ r.op \in {"nodata", "read", "write", "modeSelect"}
<1>1. /\ r.op \in {"nodata", "read", "write", "modeSelect"} /\ r.len \in 0..MaxLen
  BY BoundAssumption DEF Results
<1> QED
  BY <1>1 DEF JobOf, Jobs

\* The bus with a data phase set up for a connected target.
LEMMA DataPhaseConnected ==
  ASSUME NEW b \in Buses, b.tgt # None, NEW r, r.len \in 0..MaxLen
  PROVE  /\ Connected(InDataPhase(b, r)) /\ InDataPhase(b, r).phase \in DataPhase
         /\ InDataPhase(b, r).tgt = b.tgt
<1> DEFINE p == IF r.op = "read" THEN "DataIn" ELSE "DataOut"
<1>1. p \in DataPhase
  OBVIOUS
<1> HIDE DEF p
<1>2. InDataPhase(b, r) = Begins(b, p, r.len)
  BY DEF InDataPhase, p, Begins
<1>3. p \in Phase /\ (p = "Idle" <=> b.tgt = None)
  BY <1>1
<1> QED
  BY <1>1, <1>2, <1>3, PhaseBegins

\* The end of any transfer answers, unless the bus is idle.
LEMMA PhaseDoneSafe ==
  ASSUME NEW b, NEW j, Connected(b), j \in Jobs, Connected(bus), ControlOK,
         b.phase = bus.phase, CompletePhaseTransfer(b, j)
  PROVE  /\ Connected(bus') /\ job' \in Jobs
         /\ int' \in BOOLEAN /\ csr' \in Csr /\ owed' \in BOOLEAN
         /\ owed' => owed /\ b.phase = "Idle" /\ bus' = b
<1>1. CASE b.phase = "MsgOut"
  <2>1. bus' = [b EXCEPT !.phase = "Command"] /\ job' = j /\ Raise("command")
    BY <1>1 DEF CompletePhaseTransfer
  <2> QED
    BY <1>1, <2>1 DEF Connected, Buses, Raise, Csr
<1>2. CASE b.phase = "Command"
  <2>1. bus.tgt \in Target /\ bus \in Buses
    BY <1>2 DEF Connected, Buses
  <2>2. ExecuteScsiCommand
    BY <1>2 DEF CompletePhaseTransfer
  <2>3. PICK r \in Results(bus.tgt) :
          /\ job' = JobOf(bus.tgt, FALSE, r)
          /\ \/ /\ r.op = "nodata"
                /\ bus' = [bus EXCEPT !.phase = "Status"]
                /\ Raise("status")
             \/ r.op # "nodata" /\ bus' = InDataPhase(bus, r) /\ Raise("more")
    BY <2>2 DEF ExecuteScsiCommand
  <2>4. job' \in Jobs /\ r.len \in 0..MaxLen
    BY <2>1, <2>3, ResultsTyped
  <2>5. Connected([bus EXCEPT !.phase = "Status"])
    BY <1>2 DEF Connected, Buses
  <2>6. Connected(InDataPhase(bus, r))
    BY <2>1, <2>4, DataPhaseConnected, TargetAssumption
  <2> QED
    BY <2>3, <2>4, <2>5, <2>6, Zenon DEF Raise, Csr
<1>3. CASE b.phase \in DataPhase
  <2>1. DataDone(b, j)
    BY <1>3 DEF CompletePhaseTransfer
  <2> QED
    BY <1>3, <2>1, DataDoneSafe
<1>4. CASE b.phase = "Status"
  <2>1. bus' = [b EXCEPT !.phase = "MsgIn", !.off = 0, !.len = 1] /\ job' = j /\ Raise("msgIn")
    BY <1>4 DEF CompletePhaseTransfer
  <2> QED
    <3>1. b \in Buses /\ b.tgt # None
      BY <1>4 DEF Connected
    <3>2. bus' = Begins(b, "MsgIn", 1) /\ 1 \in 0..MaxLen
      BY <2>1, BoundAssumption DEF Begins
    <3>3. Connected(bus')
      BY <3>1, <3>2, PhaseBegins
    <3> QED
      BY <2>1, <3>3 DEF Raise, Csr
<1>5. CASE b.phase = "MsgIn"
  <2>1. bus' = Free(b) /\ job' = j /\ Raise("disconnect")
    BY <1>5 DEF CompletePhaseTransfer
  <2> QED
    BY <1>5, <2>1 DEF Connected, Buses, Raise, Csr, Free
<1>6. CASE b.phase = "Idle"
  <2>1. bus' = b /\ job' = j /\ UNCHANGED <<int, csr, owed>>
    BY <1>6 DEF CompletePhaseTransfer
  <2> QED
    BY <1>6, <2>1 DEF ControlOK
<1> QED
  BY <1>1, <1>2, <1>3, <1>4, <1>5, <1>6 DEF Connected, Buses

-----------------------------------------------------------------------------
(* Any guest: SafeOK is inductive.                                         *)

\* The chip starts idle, with nothing armed and nothing owed.
LEMMA InitSafe == Init => SafeOK
<1> SUFFICES ASSUME Init PROVE SafeOK
  OBVIOUS
<1>1. Connected(bus)
  BY BoundAssumption DEF Init, Connected, Buses
<1>2. job \in Jobs
  BY BoundAssumption DEF Init, Jobs, NoJob
<1>3. tc \in 0..(MaxLen + 1)
  BY BoundAssumption DEF Init
<1>4. ControlOK /\ Awaited
  BY Zenon DEF Init, ControlOK, Awaited, Csr
<1> QED
  BY <1>1, <1>2, <1>3, <1>4 DEF SafeOK

\* The job of no command.
LEMMA NoJobTyped == NoJob \in Jobs
  BY BoundAssumption DEF NoJob, Jobs

\* The bus that is let go of, with what Level II has left.
LEMMA FreeConnected ==
  ASSUME NEW b \in Buses, b.off <= b.len
  PROVE  Connected(Free(b)) /\ Connected(Stopped(b)) /\ Connected(TimedOut(b))
         /\ Free(b).phase = "Idle" /\ Stopped(b).phase = "Idle"
  BY DEF Connected, Buses, Free, Stopped, TimedOut

\* A selection nobody answers frees the bus and answers the guest.
LEMMA SelectionTimeoutSafe ==
  ASSUME SafeOK, SelectionTimeout, UNCHANGED guest, ready' \in SUBSET Target,
         follow' \in BOOLEAN
  PROVE  SafeOK'
<1>1. Connected(bus')
  BY FreeConnected DEF SelectionTimeout, SafeOK, Connected
<1> QED
  BY <1>1, NoJobTyped DEF SelectionTimeout, SafeOK, ControlOK, Awaited, Raise, Csr

\* Level II, in one go.
LEMMA SatExecuteSafe ==
  ASSUME SafeOK, NEW t \in Target, SatExecute(t)
  PROVE  /\ Connected(bus') /\ job' \in Jobs /\ int' = TRUE /\ csr' \in Csr
         /\ owed' = FALSE /\ tc' \in 0..(MaxLen + 1)
<1> DEFINE b == [bus EXCEPT !.tgt = t, !.sat = TRUE]
<1>1. b \in Buses /\ b.tgt # None /\ b.off <= b.len
  BY TargetAssumption DEF SafeOK, Connected, Buses
<1>2. PICK r \in Results(t) :
        \/ r.op = "nodata" /\ CompleteSat(b, JobOf(t, TRUE, r)) /\ UNCHANGED tc
        \/ r.op # "nodata" /\ Dma(InDataPhase(b, r), JobOf(t, TRUE, r))
  BY DEF SatExecute
<1>3. JobOf(t, TRUE, r) \in Jobs /\ r.len \in 0..MaxLen
  BY ResultsTyped
<1>4. CASE CompleteSat(b, JobOf(t, TRUE, r)) /\ UNCHANGED tc
  <2>1. Connected([Free(b) EXCEPT !.sat = FALSE])
    BY <1>1 DEF Free, Connected, Buses
  <2> HIDE DEF b
  <2> QED
    BY <1>3, <1>4, <2>1 DEF CompleteSat, Raise, Csr, SafeOK
<1>5. CASE Dma(InDataPhase(b, r), JobOf(t, TRUE, r))
  <2> HIDE DEF b
  <2>1. Connected(InDataPhase(b, r)) /\ InDataPhase(b, r).phase \in DataPhase
    BY <1>1, <1>3, DataPhaseConnected
  <2> QED
    BY <1>3, <1>5, <2>1, DmaSafe DEF SafeOK
<1> QED
  BY <1>2, <1>4, <1>5

\* A byte through the buffer keeps the bus connected in its phase.
LEMMA AdvanceConnected ==
  ASSUME NEW b, Connected(b)
  PROVE  Connected(Advance(b)) /\ Advance(b).phase = b.phase
<1>1. CASE b.off < b.len
  <2>1. b.off + 1 \in 0..MaxLen /\ b.off + 1 <= b.len
    BY <1>1, BoundAssumption DEF Connected, Buses
  <2> QED
    BY <1>1, <2>1 DEF Advance, Connected, Buses
<1>2. CASE ~(b.off < b.len)
  BY <1>2 DEF Advance
<1> QED
  BY <1>1, <1>2

\* Counting a byte keeps the job a job.
LEMMA MovedTyped ==
  ASSUME NEW j \in Jobs
  PROVE  Moved(j) \in Jobs
  BY DEF Moved, Jobs

\* A byte of a PIO transfer, in any phase; the last one ends the transfer.
LEMMA PioByteSafe ==
  ASSUME SafeOK, pio, NEW b, NEW j, Connected(b), b.phase = bus.phase, j \in Jobs,
         PioByte(b, j)
  PROVE  SafeOK'
<1>1. CASE tc <= 1 /\ tc' = 0 /\ pio' = FALSE /\ CompletePhaseTransfer(b, j)
  <2>1. /\ Connected(bus') /\ job' \in Jobs
        /\ int' \in BOOLEAN /\ csr' \in Csr /\ owed' \in BOOLEAN
        /\ owed' => owed /\ b.phase = "Idle"
    BY <1>1, PhaseDoneSafe DEF SafeOK
  <2>2. owed' = FALSE
    BY <2>1 DEF SafeOK, Awaited
  <2>3. UNCHANGED <<guest, sbt, follow, ready>>
    BY DEF PioByte
  <2>4. tc' \in 0..(MaxLen + 1)
    BY <1>1, BoundAssumption
  <2>5. ControlOK' /\ Awaited'
    BY <1>1, <2>1, <2>2, <2>3, Zenon DEF SafeOK, ControlOK, Awaited
  <2> QED
    BY <2>1, <2>4, <2>5 DEF SafeOK
<1>2. CASE tc > 1 /\ tc' = tc - 1 /\ bus' = b /\ job' = j /\ UNCHANGED <<pio, int, csr, owed>>
  <2>1. tc' \in 0..(MaxLen + 1)
    BY <1>2, BoundAssumption DEF SafeOK
  <2>2. UNCHANGED <<guest, sbt, follow, ready>>
    BY DEF PioByte
  <2> QED
    BY <1>2, <2>1, <2>2 DEF SafeOK, ControlOK, Awaited
<1> QED
  BY <1>1, <1>2 DEF PioByte

\* The byte of a single-byte transfer.
LEMMA SbtByteSafe ==
  ASSUME SafeOK, SbtByte
  PROVE  SafeOK'
<1>1. PICK b, j : /\ Connected(b) /\ b.phase = bus.phase /\ j \in Jobs
                  /\ CompletePhaseTransfer(b, j)
  <2>1. Connected(bus) /\ job \in Jobs
    BY DEF SafeOK
  <2>2. Connected(Advance(bus)) /\ Advance(bus).phase = bus.phase /\ Moved(job) \in Jobs
    BY <2>1, AdvanceConnected, MovedTyped
  <2>3. \/ CompletePhaseTransfer(Advance(bus), Moved(job))
        \/ CompletePhaseTransfer(bus, Moved(job))
        \/ CompletePhaseTransfer(bus, job)
    BY DEF SbtByte
  <2> QED
    BY <2>1, <2>2, <2>3
<1>2. /\ Connected(bus') /\ job' \in Jobs
      /\ int' \in BOOLEAN /\ csr' \in Csr /\ owed' \in BOOLEAN
      /\ owed' => owed /\ b.phase = "Idle"
  BY <1>1, PhaseDoneSafe DEF SafeOK
<1>3. owed' = FALSE
  BY <1>1, <1>2 DEF SafeOK, Awaited
<1>4. sbt' = "none" /\ tc' = 0 /\ UNCHANGED <<guest, pio, follow, ready>>
  BY DEF SbtByte
<1> QED
  BY <1>2, <1>3, <1>4, BoundAssumption DEF SafeOK, ControlOK, Awaited

\* The commands, each in any state of the bus.
LEMMA CommandSafe == SafeOK /\ GuestCommand => SafeOK'
<1> SUFFICES ASSUME SafeOK, GuestCommand PROVE SafeOK'
  OBVIOUS
<1>0. Connected(bus) /\ bus \in Buses /\ bus.off <= bus.len /\ job \in Jobs
      /\ ControlOK /\ tc \in 0..(MaxLen + 1) /\ Awaited
  BY DEF SafeOK, Connected
<1>1. CASE Abort
  <2>1. Connected(bus')
    BY <1>0, <1>1, FreeConnected DEF Abort
  <2> QED
    BY <1>0, <1>1, <2>1, NoJobTyped DEF Abort, Command, FollowAfterCommand, SafeOK, ControlOK, Awaited, Raise, Csr
<1>2. CASE Reset
  <2>1. Connected(Stopped(bus)) /\ 0 \in 0..MaxLen
    BY <1>0, FreeConnected, BoundAssumption
  <2>2. bus' = Refilled(Stopped(bus), 0)
    BY <1>2 DEF Reset, Refilled
  <2>3. Connected(bus')
    BY <2>1, <2>2, RefilledConnected
  <2> QED
    BY <1>0, <1>2, <2>3, NoJobTyped DEF Reset, Command, FollowAfterCommand, SafeOK, ControlOK, Awaited, Raise, Csr
<1>3. CASE UnknownCommand
  BY <1>0, <1>3 DEF UnknownCommand, Command, FollowAfterCommand, SafeOK, ControlOK, Awaited, Raise, Csr
<1>4. CASE XferInfoSbt
  <2>1. Command /\ tc' = 1 /\ UNCHANGED pio
    BY <1>4 DEF XferInfoSbt
  <2>2. tc' \in 0..(MaxLen + 1)
    BY <2>1, BoundAssumption
  <2>3. CASE bus.phase = "Idle" /\ Refused /\ UNCHANGED sbt
    BY <1>0, <2>1, <2>2, <2>3
    DEF Refused, Command, FollowAfterCommand, SafeOK, ControlOK, Awaited, Raise, Csr
  <2>4. CASE /\ bus.phase # "Idle" /\ UNCHANGED job /\ Armed
             /\ sbt' = IF bus.phase \in InPhase THEN "in" ELSE "out"
             /\ bus' = ByteLoaded(bus)
    <3>1. Connected(bus') /\ bus'.phase = bus.phase
      BY <1>0, <2>4, AdvanceConnected DEF ByteLoaded
    <3> QED
      BY <1>0, <2>1, <2>2, <2>4, <3>1
      DEF Armed, Command, FollowAfterCommand, SafeOK, ControlOK, Awaited
  <2> QED
    BY <1>4, <2>3, <2>4 DEF XferInfoSbt
<1>5. ASSUME NEW n \in 0..(MaxLen + 1), SetTransferCount(n) PROVE SafeOK'
  BY <1>0, <1>5 DEF SetTransferCount, SafeOK, ControlOK, Awaited
<1>6. ASSUME NEW t \in Target, SelectAtn(t) PROVE SafeOK'
  <2>1. CASE t \notin ready /\ Command /\ SelectionTimeout
    BY <1>0, <2>1, SelectionTimeoutSafe DEF Command, FollowAfterCommand, ControlOK
  <2>2. CASE /\ t \in ready /\ ~pio
             /\ bus' = [bus EXCEPT !.phase = "MsgOut", !.tgt = t]
             /\ job' = NoJob /\ follow' = TRUE
             /\ Raise("select")
             /\ UNCHANGED <<guest, pio, sbt, tc, ready>>
    <3>1. Connected([bus EXCEPT !.phase = "MsgOut", !.tgt = t])
      BY <1>0, TargetAssumption DEF Connected, Buses
    <3> QED
      BY <1>0, <2>2, <3>1, NoJobTyped DEF SafeOK, ControlOK, Awaited, Raise, Csr
  <2> QED
    BY <1>6, <2>1, <2>2 DEF SelectAtn
<1>7. ASSUME NEW t \in Target, NEW cmdPhase \in {"00", "45", "46", "50"}, SelAtnXfer(t, cmdPhase)
      PROVE  SafeOK'
  <2>1. Command
    BY <1>7 DEF SelAtnXfer
  <2>2. CASE t \notin ready /\ SelectionTimeout
    BY <1>0, <2>1, <2>2, SelectionTimeoutSafe DEF Command, FollowAfterCommand, ControlOK
  <2>3. CASE Resumes(cmdPhase) /\ Dma(bus, job) /\ UNCHANGED <<pio, sbt>>
    <3>1. /\ Connected(bus') /\ job' \in Jobs /\ int' = TRUE /\ csr' \in Csr
          /\ owed' = FALSE /\ tc' \in 0..(MaxLen + 1)
      BY <1>0, <2>3, DmaSafe DEF Resumes
    <3> QED
      BY <1>0, <2>1, <2>3, <3>1 DEF Command, FollowAfterCommand, SafeOK, ControlOK, Awaited
  <2>4. CASE CompleteSat(bus, job) /\ UNCHANGED <<pio, sbt, tc>>
    <3>1. Connected([Free(bus) EXCEPT !.sat = FALSE])
      BY <1>0 DEF Free, Connected, Buses
    <3> QED
      BY <1>0, <2>1, <2>4, <3>1
      DEF CompleteSat, Raise, Csr, Command, FollowAfterCommand, SafeOK, ControlOK, Awaited
  <2>5. CASE SatExecute(t) /\ UNCHANGED <<pio, sbt>>
    <3>1. /\ Connected(bus') /\ job' \in Jobs /\ int' = TRUE /\ csr' \in Csr
          /\ owed' = FALSE /\ tc' \in 0..(MaxLen + 1)
      BY <2>5, SatExecuteSafe
    <3> QED
      BY <1>0, <2>1, <2>5, <3>1 DEF Command, FollowAfterCommand, SafeOK, ControlOK, Awaited
  <2> QED
    BY <1>7, <2>2, <2>3, <2>4, <2>5 DEF SelAtnXfer
<1>8. ASSUME NEW dma \in BOOLEAN, XferInfo(dma) PROVE SafeOK'
  <2>1. Command /\ UNCHANGED sbt
    BY <1>8 DEF XferInfo
  <2>2. CASE bus.phase = "Idle" /\ Refused /\ UNCHANGED <<pio, tc>>
    BY <1>0, <2>1, <2>2
    DEF Refused, Command, FollowAfterCommand, SafeOK, ControlOK, Awaited, Raise, Csr
  <2>3. CASE dma /\ bus.phase \in DataPhase /\ Dma(bus, job) /\ UNCHANGED pio
    <3>1. /\ Connected(bus') /\ job' \in Jobs /\ int' = TRUE /\ csr' \in Csr
          /\ owed' = FALSE /\ tc' \in 0..(MaxLen + 1)
      BY <1>0, <2>3, DmaSafe
    <3> QED
      BY <1>0, <2>1, <2>3, <3>1 DEF Command, FollowAfterCommand, SafeOK, ControlOK, Awaited
  <2>4. CASE /\ bus.phase # "Idle"
             /\ pio' = TRUE
             /\ bus' = IF bus.phase \in {"Status", "MsgIn"}
                         THEN [bus EXCEPT !.off = 0, !.len = 1] ELSE bus
             /\ Armed
             /\ UNCHANGED <<tc, job>>
    <3>1. bus' \in {Refilled(bus, 1), bus} /\ 1 \in 0..MaxLen
      BY <2>4, BoundAssumption DEF Refilled
    <3>2. Connected(bus') /\ bus'.phase = bus.phase
      BY <1>0, <3>1, RefilledConnected
    <3> QED
      BY <1>0, <2>1, <2>4, <3>2
      DEF Armed, Command, FollowAfterCommand, SafeOK, ControlOK, Awaited
  <2> QED
    BY <1>8, <2>2, <2>3, <2>4 DEF XferInfo
<1> QED
  BY <1>1, <1>2, <1>3, <1>4, <1>5, <1>6, <1>7, <1>8 DEF GuestCommand

\* Every step of any guest, of the chip and of the user.
LEMMA StepSafe == SafeOK /\ [Next]_vars => SafeOK'
<1> SUFFICES ASSUME SafeOK, [Next]_vars PROVE SafeOK'
  OBVIOUS
<1>0. Connected(bus) /\ job \in Jobs /\ ControlOK /\ tc \in 0..(MaxLen + 1) /\ Awaited
  BY DEF SafeOK
<1>1. CASE GuestCommand
  BY <1>1, CommandSafe
<1>2. Connected(Advance(bus)) /\ Advance(bus).phase = bus.phase /\ Moved(job) \in Jobs
  BY <1>0, AdvanceConnected, MovedTyped
<1>3. CASE PioRead
  BY <1>0, <1>2, <1>3, PioByteSafe DEF PioRead
<1>4. CASE PioWrite
  BY <1>0, <1>2, <1>4, PioByteSafe DEF PioWrite
<1>5. CASE SbtByte
  BY <1>5, SbtByteSafe
<1>6. CASE ReadCsr
  BY <1>0, <1>6 DEF ReadCsr, SafeOK, ControlOK, Awaited
<1>7. CASE Tick
  BY <1>0, <1>7 DEF Tick, SafeOK, ControlOK, Awaited, Raise, Csr
<1>8. CASE ResetBusState
  <2>1. Connected([phase |-> "Idle", tgt |-> None, sat |-> FALSE, off |-> 0, len |-> 0])
    BY BoundAssumption DEF Connected, Buses
  <2>2. tc' \in 0..(MaxLen + 1) /\ Connected(bus')
    BY <1>8, <2>1, BoundAssumption DEF ResetBusState
  <2> QED
    BY <1>0, <1>8, <2>2, NoJobTyped DEF ResetBusState, SafeOK, ControlOK, Awaited, Csr
<1>9. ASSUME NEW t \in Cdrom, SwapMedium(t) PROVE SafeOK'
  BY <1>0, <1>9 DEF SwapMedium, SafeOK, ControlOK, Awaited, Target
<1>10. CASE UNCHANGED vars
  BY <1>0, <1>10 DEF vars, SafeOK, ControlOK, Awaited
<1> QED
  BY <1>1, <1>3, <1>4, <1>5, <1>6, <1>7, <1>8, <1>9, <1>10 DEF Next


-----------------------------------------------------------------------------
(* A guest with the driver's discipline.                                   *)

\* The target has had or given all its data, and a write was committed.
Whole(j) ==
    j.op # "none" /\ j.moved = j.len /\ (j.op = "write" /\ j.len > 0 => j.commits = 1)

Untorn(j) == j.commits > 0 => j.moved = j.len /\ j.commits = 1 /\ j.wrote = j.tgt

\* In a data phase the buffer's offset is what the target has moved. A byte
\* that waits in register $19 has left the buffer and is not moved yet.
Carried(b, j, s) ==
    b.phase \in DataPhase =>
        /\ j.op # "none" /\ (j.op = "write" => b.phase = "DataOut")
        /\ j.len = b.len /\ j.tgt = b.tgt /\ j.commits = 0
        /\ b.off = IF s = "in" /\ b.phase = "DataIn" THEN Moved(j).moved ELSE j.moved

Fit(b, j) ==
    Carried(b, j, "none") /\ (b.phase \in {"Status", "MsgIn"} => Whole(j)) /\ Untorn(j)

\* No interrupt is pending but that of the follow-up.
Quiet == int => csr = "reqMsgOut"

DriverOK ==
    /\ follow => bus.phase = "MsgOut" /\ ~pio /\ sbt = "none"
    /\ pio => sbt = "none"
    /\ pio \/ sbt # "none" => Quiet
    /\ Carried(bus, job, sbt)
    /\ bus.phase \in {"Status", "MsgIn"} => Whole(job)
    /\ int /\ csr = "done" => Whole(job)
    /\ Untorn(job)

\* The job after the whole of its data.
LEMMA CommittedWhole ==
  ASSUME NEW b, NEW j, Connected(b), j \in Jobs, b.phase \in DataPhase,
         Carried(b, j, "none"), ~DataLeft(b)
  PROVE  Whole(Committed(b, j)) /\ Untorn(Committed(b, j))
<1>1. /\ j.op # "none" /\ (j.op = "write" => b.phase = "DataOut")
      /\ j.len = b.len /\ j.tgt = b.tgt /\ j.commits = 0 /\ b.off = j.moved
  BY DEF Carried
<1>2. j.moved = j.len
  BY <1>1 DEF DataLeft, Connected, Buses
<1>3. CASE b.phase = "DataOut" /\ j.op = "write" /\ b.len > 0
  <2>1. Committed(b, j) = [j EXCEPT !.commits = @ + 1, !.wrote = b.tgt]
    BY <1>3 DEF Committed
  <2>2. /\ Committed(b, j).commits = 1 /\ Committed(b, j).wrote = b.tgt
        /\ Committed(b, j).op = j.op /\ Committed(b, j).len = j.len
        /\ Committed(b, j).moved = j.moved /\ Committed(b, j).tgt = j.tgt
    BY <1>1, <2>1 DEF Jobs
  <2> QED
    BY <1>1, <1>2, <2>2 DEF Whole, Untorn
<1>4. CASE ~(b.phase = "DataOut" /\ j.op = "write" /\ b.len > 0)
  <2>1. Committed(b, j) = j
    BY <1>4 DEF Committed
  <2> QED
    BY <1>1, <1>2, <1>4, <2>1 DEF Whole, Untorn
<1> QED
  BY <1>3, <1>4

\* The end of a data transfer keeps job and bus in step.
LEMMA DataDoneFits ==
  ASSUME NEW b, NEW j, Connected(b), j \in Jobs, b.phase \in DataPhase,
         Fit(b, j), DataDone(b, j)
  PROVE  Fit(bus', job') /\ (csr' = "done" => Whole(job'))
<1>1. CASE bus' = b /\ job' = j /\ Raise("more")
  BY <1>1 DEF Fit, Raise
<1>2. CASE ~DataLeft(b) /\ CompleteSat(b, Committed(b, j))
  <2>1. Whole(Committed(b, j)) /\ Untorn(Committed(b, j))
    BY <1>2, CommittedWhole DEF Fit
  <2>2. bus'.phase = "Idle" /\ job' = Committed(b, j)
    BY <1>2 DEF CompleteSat, Free, Connected, Buses
  <2> QED
    BY <2>1, <2>2 DEF Fit, Carried
<1>3. CASE /\ ~DataLeft(b) /\ bus' = [b EXCEPT !.phase = "Status"]
           /\ job' = Committed(b, j) /\ Raise("status")
  <2>1. Whole(Committed(b, j)) /\ Untorn(Committed(b, j))
    BY <1>3, CommittedWhole DEF Fit
  <2>2. bus'.phase = "Status" /\ job' = Committed(b, j)
    BY <1>3 DEF Connected, Buses
  <2> QED
    BY <2>1, <2>2 DEF Fit, Carried
<1> QED
  BY <1>1, <1>2, <1>3 DEF DataDone

\* So does a DMA segment, which moves as much on both sides.
LEMMA DmaFits ==
  ASSUME NEW b, NEW j, Connected(b), j \in Jobs, b.phase \in DataPhase,
         tc \in 0..(MaxLen + 1), Fit(b, j), Dma(b, j)
  PROVE  Fit(bus', job') /\ (csr' = "done" => Whole(job'))
<1> DEFINE n == Min({tc, b.len - b.off})
           c == [b EXCEPT !.off = @ + n]
           k == [j EXCEPT !.moved = @ + n]
<1>1. n \in Nat /\ n <= tc /\ n <= b.len - b.off
  <2>1. tc \in Nat /\ b.len - b.off \in Nat
    BY BoundAssumption DEF Connected, Buses
  <2> QED
    BY <2>1, SmallerOfTwo
<1>2. DataDone(c, k)
  BY DEF Dma
<1> HIDE DEF n
<1>3. Connected(c)
  BY <1>1, BoundAssumption DEF Connected, Buses
<1>4. /\ c.phase = b.phase /\ c.off = b.off + n /\ c.len = b.len /\ c.tgt = b.tgt
  BY DEF Connected, Buses
<1>5. /\ k.op = j.op /\ k.len = j.len /\ k.tgt = j.tgt /\ k.commits = j.commits
      /\ k.moved = j.moved + n
  BY DEF Jobs
<1>6. k \in Jobs
  BY <1>1 DEF Jobs
<1> HIDE DEF c, k
<1>7. Carried(b, j, "none")
  BY DEF Fit
<1>8. Carried(c, k, "none")
  BY <1>4, <1>5, <1>7 DEF Carried
<1>9. Fit(c, k)
  BY <1>4, <1>5, <1>7, <1>8 DEF Fit, Untorn, Carried
<1> QED
  BY <1>2, <1>3, <1>4, <1>6, <1>9, DataDoneFits

\* A job a target has just taken.
LEMMA JobTaken ==
  ASSUME NEW t \in Target, NEW r \in Results(t), NEW s \in BOOLEAN, NEW b \in Buses, b.tgt = t
  PROVE  /\ Untorn(JobOf(t, s, r))
         /\ r.op = "nodata" => Whole(JobOf(t, s, r))
         /\ r.op # "nodata" => Fit(InDataPhase(b, r), JobOf(t, s, r))
<1>1. /\ JobOf(t, s, r).op = r.op /\ JobOf(t, s, r).len = r.len
      /\ JobOf(t, s, r).tgt = t /\ JobOf(t, s, r).moved = 0 /\ JobOf(t, s, r).commits = 0
  BY DEF JobOf
<1>2. Untorn(JobOf(t, s, r))
  BY <1>1 DEF Untorn
<1>3. ASSUME r.op = "nodata" PROVE Whole(JobOf(t, s, r))
  <2>1. r.len = 0
    BY <1>3 DEF Results
  <2> QED
    BY <1>1, <1>3, <2>1 DEF Whole
<1>4. ASSUME r.op # "nodata" PROVE Fit(InDataPhase(b, r), JobOf(t, s, r))
  <2>1. r.op \in {"read", "write", "modeSelect"}
    BY <1>4, ResultsTyped
  <2>2. /\ InDataPhase(b, r).phase = IF r.op = "read" THEN "DataIn" ELSE "DataOut"
        /\ InDataPhase(b, r).off = 0 /\ InDataPhase(b, r).len = r.len
        /\ InDataPhase(b, r).tgt = t
    BY DEF InDataPhase, Buses
  <2> QED
    BY <1>1, <1>2, <2>1, <2>2 DEF Fit, Carried
<1> QED
  BY <1>2, <1>3, <1>4

\* So does the end of any transfer.
LEMMA PhaseDoneFits ==
  ASSUME NEW b, NEW j, Connected(b), j \in Jobs, Connected(bus),
         b.phase = bus.phase, Fit(b, j), Quiet, CompletePhaseTransfer(b, j)
  PROVE  Fit(bus', job') /\ (int' /\ csr' = "done" => Whole(job'))
<1>1. CASE b.phase = "MsgOut"
  <2>1. bus'.phase = "Command" /\ job' = j /\ csr' = "command"
    BY <1>1 DEF CompletePhaseTransfer, Raise, Connected, Buses
  <2> QED
    BY <2>1 DEF Fit, Carried
<1>2. CASE b.phase = "Command"
  <2>1. bus.tgt \in Target /\ bus \in Buses
    BY <1>2 DEF Connected, Buses
  <2>2. ExecuteScsiCommand
    BY <1>2 DEF CompletePhaseTransfer
  <2>3. PICK r \in Results(bus.tgt) :
          /\ job' = JobOf(bus.tgt, FALSE, r)
          /\ \/ /\ r.op = "nodata"
                /\ bus' = [bus EXCEPT !.phase = "Status"]
                /\ Raise("status")
             \/ r.op # "nodata" /\ bus' = InDataPhase(bus, r) /\ Raise("more")
    BY <2>2 DEF ExecuteScsiCommand
  <2>4. /\ Untorn(job') /\ (r.op = "nodata" => Whole(job'))
        /\ (r.op # "nodata" => Fit(InDataPhase(bus, r), job'))
    BY <2>1, <2>3, JobTaken
  <2>5. csr' # "done"
    BY <2>3 DEF Raise
  <2>6. [bus EXCEPT !.phase = "Status"].phase = "Status"
    BY <2>1 DEF Buses
  <2> QED
    BY <2>3, <2>4, <2>5, <2>6 DEF Fit, Carried
<1>3. CASE b.phase \in DataPhase
  <2>1. DataDone(b, j)
    BY <1>3 DEF CompletePhaseTransfer
  <2> QED
    BY <1>3, <2>1, DataDoneFits
<1>4. CASE b.phase = "Status"
  <2>1. bus'.phase = "MsgIn" /\ job' = j /\ csr' = "msgIn"
    BY <1>4 DEF CompletePhaseTransfer, Raise, Connected, Buses
  <2> QED
    BY <1>4, <2>1 DEF Fit, Carried
<1>5. CASE b.phase = "MsgIn"
  <2>1. bus'.phase = "Idle" /\ job' = j /\ csr' = "disconnect"
    BY <1>5 DEF CompletePhaseTransfer, Raise, Connected, Buses, Free
  <2> QED
    BY <1>5, <2>1 DEF Fit, Carried
<1>6. CASE b.phase = "Idle"
  <2>1. bus' = b /\ job' = j /\ UNCHANGED <<int, csr, owed>>
    BY <1>6 DEF CompletePhaseTransfer
  <2> QED
    BY <2>1 DEF Quiet
<1> QED
  BY <1>1, <1>2, <1>3, <1>4, <1>5, <1>6 DEF Connected, Buses

\* A byte that moves, moves on both sides.
LEMMA ByteFits ==
  ASSUME NEW b, NEW j, Connected(b), j \in Jobs, b.phase \in DataPhase, Fit(b, j)
  PROVE  Fit(Advance(b), Moved(j)) /\ Advance(b).off = Moved(j).moved
<1>1. Advance(b).phase = b.phase
  BY AdvanceConnected
<1>2. /\ Moved(j).op = j.op /\ Moved(j).len = j.len /\ Moved(j).tgt = j.tgt
      /\ Moved(j).commits = j.commits
      /\ Moved(j).moved = IF j.moved < j.len THEN j.moved + 1 ELSE j.moved
  BY DEF Moved, Jobs
<1>3. /\ Advance(b).len = b.len /\ Advance(b).tgt = b.tgt
      /\ Advance(b).off = IF b.off < b.len THEN b.off + 1 ELSE b.off
  BY DEF Advance, Connected, Buses
<1>4. Carried(b, j, "none")
  BY DEF Fit
<1> QED
  BY <1>1, <1>2, <1>3, <1>4 DEF Fit, Carried, Untorn

\* What DriverOK says of the bus and the job when no byte waits in register $19.
LEMMA DriverFits ==
  ASSUME DriverOK, sbt = "none"
  PROVE  Fit(bus, job)
  BY DEF DriverOK, Fit, Carried

\* DriverOK of a state in which nothing is armed and no follow-up is due.
LEMMA NothingArmed ==
  ASSUME ~pio', sbt' = "none", ~follow', Fit(bus', job'), int' /\ csr' = "done" => Whole(job')
  PROVE  DriverOK'
  BY DEF DriverOK, Fit, Carried

\* Nothing is carried outside a data phase.
LEMMA FreeFits ==
  ASSUME NEW b, b.phase \in {"Idle", "MsgOut"}, NEW j, Untorn(j)
  PROVE  Fit(b, j)
  BY DEF Fit, Carried

\* No job has committed nothing.
LEMMA NoJobUntorn == Untorn(NoJob)
  BY DEF NoJob, Untorn

\* The commands, under the discipline: nothing is armed when one is given.
LEMMA DriverCommand ==
  SafeOK /\ guest = "driver" /\ DriverOK /\ GuestCommand => DriverOK'
<1> SUFFICES ASSUME SafeOK, guest = "driver", DriverOK, GuestCommand PROVE DriverOK'
  OBVIOUS
<1>0. Connected(bus) /\ bus \in Buses /\ bus.off <= bus.len /\ job \in Jobs
      /\ tc \in 0..(MaxLen + 1)
  BY DEF SafeOK, Connected
<1>1. ASSUME Command, sbt' = "none", pio' = pio, Fit(bus', job'),
             csr' = "done" => Whole(job')
      PROVE  DriverOK'
  BY <1>1, NothingArmed DEF Command, FollowAfterCommand
<1>2. ASSUME Command, SelectionTimeout, sbt = "none" PROVE DriverOK'
  <2>1. bus'.phase = "Idle" /\ job' = NoJob /\ csr' = "timeout" /\ UNCHANGED <<pio, sbt>>
    BY <1>0, <1>2 DEF SelectionTimeout, TimedOut, Free, Buses, Raise
  <2>2. Fit(bus', job')
    BY <2>1, FreeFits, NoJobUntorn
  <2> QED
    BY <1>1, <1>2, <2>1, <2>2
<1>3. CASE Abort \/ Reset
  <2>1. bus'.phase = "Idle" /\ job' = NoJob /\ csr' # "done" /\ pio' = pio /\ sbt' = "none"
        /\ Command
    BY <1>0, <1>3 DEF Abort, Reset, Stopped, Free, Buses, Raise
  <2>2. Fit(bus', job')
    BY <2>1, FreeFits, NoJobUntorn
  <2> QED
    BY <1>1, <2>1, <2>2
<1>4. CASE UnknownCommand
  BY <1>4 DEF UnknownCommand
<1>5. CASE XferInfoSbt
  <2>1. /\ Command /\ Settled /\ bus.phase # "Idle" /\ UNCHANGED <<pio, job, int, csr>>
        /\ sbt' = IF bus.phase \in InPhase THEN "in" ELSE "out"
        /\ bus' = ByteLoaded(bus)
    BY <1>5 DEF XferInfoSbt, Disciplined, Armed
  <2>2. ~pio' /\ ~follow' /\ Quiet'
    BY <2>1 DEF Command, FollowAfterCommand, Settled, Quiet
  <2>3. Fit(bus, job)
    BY <2>1, DriverFits DEF Settled
  <2>4. CASE bus.phase = "DataIn"
    <3>1. Fit(Advance(bus), Moved(job)) /\ Advance(bus).off = Moved(job).moved
      BY <1>0, <2>3, <2>4, ByteFits
    <3>2. bus' = Advance(bus) /\ sbt' = "in" /\ job' = job
      BY <2>1, <2>4 DEF ByteLoaded
    <3>3. bus'.phase = bus.phase /\ bus'.len = bus.len /\ bus'.tgt = bus.tgt
      BY <1>0, <3>2 DEF Advance, Buses
    <3>4. Carried(bus', job', sbt')
      BY <2>3, <2>4, <3>1, <3>2, <3>3 DEF Fit, Carried
    <3> QED
      BY <2>2, <2>3, <2>4, <3>2, <3>3, <3>4 DEF DriverOK, Fit, Quiet
  <2>5. CASE bus.phase # "DataIn"
    <3>1. bus' = bus /\ job' = job
      BY <2>1, <2>5 DEF ByteLoaded
    <3>2. Carried(bus', job', sbt')
      BY <2>3, <2>5, <3>1 DEF Fit, Carried
    <3> QED
      BY <2>2, <2>3, <3>1, <3>2 DEF DriverOK, Fit, Quiet
  <2> QED
    BY <2>4, <2>5
<1>6. ASSUME NEW n \in 0..(MaxLen + 1), SetTransferCount(n) PROVE DriverOK'
  BY <1>6 DEF SetTransferCount, DriverOK, Quiet
<1>7. ASSUME NEW t \in Target, SelectAtn(t) PROVE DriverOK'
  <2>1. Settled /\ sbt = "none"
    BY <1>7 DEF SelectAtn, Disciplined, Settled
  <2>2. CASE Command /\ SelectionTimeout
    BY <1>2, <2>1, <2>2
  <2>3. CASE /\ t \in ready /\ ~pio
             /\ bus' = [bus EXCEPT !.phase = "MsgOut", !.tgt = t]
             /\ job' = NoJob /\ follow' = TRUE
             /\ Raise("select")
             /\ UNCHANGED <<guest, pio, sbt, tc, ready>>
    <3>1. bus'.phase = "MsgOut" /\ job' = NoJob /\ csr' = "select" /\ ~pio' /\ sbt' = "none"
      BY <1>0, <2>1, <2>3 DEF Buses, Raise
    <3>2. Fit(bus', job')
      BY <3>1, FreeFits, NoJobUntorn
    <3> QED
      BY <3>1, <3>2 DEF DriverOK, Fit, Carried
  <2> QED
    BY <1>7, <2>2, <2>3 DEF SelectAtn
<1>8. ASSUME NEW t \in Target, NEW cmdPhase \in {"00", "45", "46", "50"}, SelAtnXfer(t, cmdPhase)
      PROVE  DriverOK'
  <2>1. Command /\ sbt = "none" /\ cmdPhase \in {"00", "45", "46"}
        /\ (cmdPhase = "46" => bus.phase = "Status")
    BY <1>8 DEF SelAtnXfer, Disciplined, Settled
  <2>2. Fit(bus, job)
    BY <2>1, DriverFits
  <2>3. CASE SelectionTimeout
    BY <1>2, <2>1, <2>3
  <2>4. CASE Resumes(cmdPhase) /\ Dma(bus, job) /\ UNCHANGED <<pio, sbt>>
    <3>1. Fit(bus', job') /\ (csr' = "done" => Whole(job'))
      BY <1>0, <2>2, <2>4, DmaFits DEF Resumes
    <3> QED
      BY <1>1, <2>1, <2>4, <3>1
  <2>5. CASE Finishes(cmdPhase) /\ CompleteSat(bus, job) /\ UNCHANGED <<pio, sbt, tc>>
    <3>1. bus.phase = "Status"
      BY <2>1, <2>5 DEF Finishes
    <3>2. bus'.phase = "Idle" /\ job' = job
      BY <1>0, <2>5 DEF CompleteSat, Free, Buses
    <3>3. Fit(bus', job') /\ Whole(job')
      BY <2>2, <3>1, <3>2, FreeFits DEF Fit
    <3> QED
      BY <1>1, <2>1, <2>5, <3>3
  <2>6. CASE SatExecute(t) /\ UNCHANGED <<pio, sbt>>
    <3> DEFINE b == [bus EXCEPT !.tgt = t, !.sat = TRUE]
    <3>1. b \in Buses /\ b.tgt = t /\ t # None
      BY <1>0, TargetAssumption DEF Buses
    <3>2. PICK r \in Results(t) :
            \/ r.op = "nodata" /\ CompleteSat(b, JobOf(t, TRUE, r)) /\ UNCHANGED tc
            \/ r.op # "nodata" /\ Dma(InDataPhase(b, r), JobOf(t, TRUE, r))
      BY <2>6 DEF SatExecute
    <3> HIDE DEF b
    <3>3. /\ Untorn(JobOf(t, TRUE, r)) /\ (r.op = "nodata" => Whole(JobOf(t, TRUE, r)))
          /\ (r.op # "nodata" => Fit(InDataPhase(b, r), JobOf(t, TRUE, r)))
      BY <3>1, JobTaken
    <3>4. JobOf(t, TRUE, r) \in Jobs /\ r.len \in 0..MaxLen
      BY ResultsTyped
    <3>5. Fit(bus', job') /\ (csr' = "done" => Whole(job'))
      <4>1. CASE r.op = "nodata" /\ CompleteSat(b, JobOf(t, TRUE, r))
        <5>1. bus'.phase = "Idle" /\ job' = JobOf(t, TRUE, r)
          BY <3>1, <4>1 DEF CompleteSat, Free, Buses
        <5>2. Untorn(job') /\ Whole(job')
          BY <3>3, <4>1, <5>1
        <5>3. Fit(bus', job')
          BY <5>1, <5>2 DEF Fit, Carried
        <5> QED
          BY <5>2, <5>3
      <4>2. CASE r.op # "nodata" /\ Dma(InDataPhase(b, r), JobOf(t, TRUE, r))
        <5>1. Connected(InDataPhase(b, r)) /\ InDataPhase(b, r).phase \in DataPhase
          BY <3>1, <3>4, DataPhaseConnected
        <5> QED
          BY <1>0, <3>3, <3>4, <4>2, <5>1, DmaFits
      <4> QED
        BY <3>2, <4>1, <4>2
    <3> QED
      BY <1>1, <2>1, <2>6, <3>5
  <2> QED
    BY <1>8, <2>3, <2>4, <2>5, <2>6 DEF SelAtnXfer
<1>9. ASSUME NEW dma \in BOOLEAN, XferInfo(dma) PROVE DriverOK'
  <2>1. Command /\ Settled /\ sbt = "none" /\ sbt' = "none" /\ bus.phase # "Idle"
    BY <1>9 DEF XferInfo, Disciplined, Settled
  <2>2. Fit(bus, job)
    BY <2>1, DriverFits
  <2>3. CASE bus.phase \in DataPhase /\ Dma(bus, job) /\ UNCHANGED pio
    <3>1. Fit(bus', job') /\ (csr' = "done" => Whole(job'))
      BY <1>0, <2>2, <2>3, DmaFits
    <3> QED
      BY <1>1, <2>1, <2>3, <3>1
  <2>4. CASE /\ pio' = TRUE
             /\ bus' = IF bus.phase \in {"Status", "MsgIn"}
                         THEN [bus EXCEPT !.off = 0, !.len = 1] ELSE bus
             /\ Armed
             /\ UNCHANGED <<tc, job>>
    <3>1. job' = job /\ ~follow' /\ Quiet'
      BY <2>1, <2>4 DEF Command, FollowAfterCommand, Settled, Quiet, Armed
    <3>2. bus'.phase = bus.phase /\ (bus.phase \in DataPhase => bus' = bus)
      BY <1>0, <2>4 DEF Buses
    <3>3. Fit(bus', job')
      BY <2>2, <3>1, <3>2 DEF Fit, Carried
    <3> QED
      BY <2>1, <3>1, <3>3 DEF DriverOK, Fit, Quiet
  <2> QED
    BY <1>9, <2>1, <2>3, <2>4 DEF XferInfo
<1> QED
  BY <1>3, <1>4, <1>5, <1>6, <1>7, <1>8, <1>9 DEF GuestCommand

\* A byte of a PIO transfer of the driver.
LEMMA DriverPioByte ==
  ASSUME SafeOK, DriverOK, pio, NEW b, NEW j, Connected(b), b.phase = bus.phase,
         j \in Jobs, Fit(b, j), PioByte(b, j)
  PROVE  DriverOK'
<1>1. Quiet /\ sbt' = "none" /\ ~follow'
  BY DEF DriverOK, PioByte
<1>2. CASE pio' = FALSE /\ CompletePhaseTransfer(b, j)
  <2>1. Fit(bus', job') /\ (int' /\ csr' = "done" => Whole(job'))
    BY <1>1, <1>2, PhaseDoneFits DEF SafeOK
  <2> QED
    BY <1>1, <1>2, <2>1, NothingArmed
<1>3. CASE bus' = b /\ job' = j /\ UNCHANGED <<pio, int, csr, owed>>
  BY <1>1, <1>3 DEF DriverOK, Fit, Quiet
<1> QED
  BY <1>2, <1>3 DEF PioByte

\* Every step, for a guest with the discipline.
LEMMA DriverStep == SafeOK /\ guest = "driver" /\ DriverOK /\ [Next]_vars => DriverOK'
<1> SUFFICES ASSUME SafeOK, guest = "driver", DriverOK, [Next]_vars PROVE DriverOK'
  OBVIOUS
<1>0. Connected(bus) /\ bus \in Buses /\ job \in Jobs
  BY DEF SafeOK, Connected
<1>1. CASE GuestCommand
  BY <1>1, DriverCommand
<1>2. ASSUME sbt = "none", bus.phase \in DataPhase
      PROVE  Fit(Advance(bus), Moved(job))
  BY <1>0, <1>2, ByteFits, DriverFits
<1>3. Connected(Advance(bus)) /\ Advance(bus).phase = bus.phase /\ Moved(job) \in Jobs
  BY <1>0, AdvanceConnected, MovedTyped
<1>4. CASE PioRead
  <2>1. pio /\ sbt = "none" /\ bus.phase \in InPhase
    BY <1>4 DEF PioRead, Disciplined, DriverOK
  <2>2. CASE bus.phase = "DataIn"
    <3>1. PioByte(Advance(bus), Moved(job))
      BY <1>4, <2>2 DEF PioRead
    <3> QED
      BY <1>2, <1>3, <2>1, <2>2, <3>1, DriverPioByte
  <2>3. CASE bus.phase \in {"Status", "MsgIn"}
    <3>1. PioByte(Advance(bus), job)
      BY <1>4, <2>3 DEF PioRead
    <3>2. Fit(Advance(bus), job)
      BY <1>3, <2>1, <2>3, DriverFits DEF Fit, Carried
    <3> QED
      BY <1>0, <1>3, <2>1, <3>1, <3>2, DriverPioByte
  <2> QED
    BY <2>1, <2>2, <2>3
<1>5. CASE PioWrite
  <2>1. pio /\ sbt = "none"
    BY <1>5 DEF PioWrite, DriverOK
  <2>2. CASE bus.phase = "DataOut"
    <3>1. PioByte(Advance(bus), Moved(job))
      BY <1>5, <2>2 DEF PioWrite
    <3> QED
      BY <1>2, <1>3, <2>1, <2>2, <3>1, DriverPioByte
  <2>3. CASE bus.phase # "DataOut"
    <3>1. PioByte(bus, job)
      BY <1>5, <2>3 DEF PioWrite
    <3> QED
      BY <1>0, <2>1, <3>1, DriverPioByte, DriverFits
  <2> QED
    BY <2>2, <2>3
<1>6. CASE SbtByte
  <2>1. ~pio' /\ sbt # "none" /\ sbt' = "none" /\ ~follow' /\ Quiet
    BY <1>6 DEF SbtByte, DriverOK
  <2>2. PICK b, j : /\ Connected(b) /\ b.phase = bus.phase /\ j \in Jobs /\ Fit(b, j)
                    /\ CompletePhaseTransfer(b, j)
    <3>1. CASE sbt = "out" /\ bus.phase = "DataOut" /\ CompletePhaseTransfer(Advance(bus), Moved(job))
      <4>1. Fit(bus, job)
        BY <3>1 DEF DriverOK, Fit, Carried
      <4> QED
        BY <1>0, <1>3, <3>1, <4>1, ByteFits
    <3>2. CASE sbt = "in" /\ bus.phase = "DataIn" /\ CompletePhaseTransfer(bus, Moved(job))
      <4>1. /\ Moved(job).op = job.op /\ Moved(job).len = job.len /\ Moved(job).tgt = job.tgt
            /\ Moved(job).commits = job.commits
        BY <1>0 DEF Moved, Jobs
      <4>2. Fit(bus, Moved(job))
        BY <3>2, <4>1 DEF DriverOK, Fit, Carried, Untorn
      <4> QED
        BY <1>0, <1>3, <3>2, <4>2
    <3>3. CASE /\ <<sbt, bus.phase>> \notin {<<"out", "DataOut">>, <<"in", "DataIn">>}
               /\ CompletePhaseTransfer(bus, job)
      <4>1. Fit(bus, job)
        BY <3>3 DEF DriverOK, Fit, Carried
      <4> QED
        BY <1>0, <3>3, <4>1
    <3> QED
      BY <1>6, <3>1, <3>2, <3>3 DEF SbtByte
  <2>3. Fit(bus', job') /\ (int' /\ csr' = "done" => Whole(job'))
    BY <1>0, <2>1, <2>2, PhaseDoneFits
  <2> QED
    BY <2>1, <2>3, NothingArmed
<1>7. CASE ReadCsr
  BY <1>7 DEF ReadCsr, DriverOK, Quiet
<1>8. CASE Tick
  BY <1>8 DEF Tick, MayFollow, Raise, DriverOK, Quiet
<1>9. CASE ResetBusState
  <2>1. bus'.phase = "Idle" /\ job' = NoJob /\ ~pio' /\ sbt' = "none" /\ ~follow' /\ ~int'
    BY <1>9 DEF ResetBusState
  <2>2. Fit(bus', job')
    BY <2>1, FreeFits, NoJobUntorn
  <2> QED
    BY <2>1, <2>2, NothingArmed
<1>10. ASSUME NEW t \in Cdrom, SwapMedium(t) PROVE DriverOK'
  BY <1>10 DEF SwapMedium, DriverOK, Quiet
<1>11. CASE UNCHANGED vars
  BY <1>11 DEF vars, DriverOK, Quiet
<1> QED
  BY <1>1, <1>4, <1>5, <1>6, <1>7, <1>8, <1>9, <1>10, <1>11 DEF Next

-----------------------------------------------------------------------------
(* What follows.                                                           *)

IInv == SafeOK /\ (guest = "driver" => DriverOK)

\* The first state, for either guest.
LEMMA InitEstablishes == Init => IInv
<1> SUFFICES ASSUME Init PROVE IInv
  OBVIOUS
<1>1. ~pio /\ sbt = "none" /\ ~follow /\ ~int /\ bus.phase = "Idle" /\ job = NoJob
  BY DEF Init
<1>2. DriverOK
  BY <1>1, NoJobUntorn DEF DriverOK, Carried
<1> QED
  BY <1>2, InitSafe DEF IInv

\* The guest is the same all along.
LEMMA GuestKept == [Next]_vars => guest' = guest
<1> SUFFICES ASSUME [Next]_vars PROVE guest' = guest
  OBVIOUS
<1>1. CASE GuestCommand
  BY <1>1 DEF GuestCommand, Command, Abort, Reset, UnknownCommand, XferInfoSbt,
              SetTransferCount, SelectAtn, SelAtnXfer, XferInfo
<1>2. CASE PioRead \/ PioWrite \/ SbtByte
  BY <1>2 DEF PioRead, PioWrite, PioByte, SbtByte
<1>3. CASE ReadCsr \/ Tick \/ ResetBusState \/ (\E t \in Cdrom : SwapMedium(t))
  BY <1>3 DEF ReadCsr, Tick, ResetBusState, SwapMedium
<1> QED
  BY <1>1, <1>2, <1>3 DEF Next, vars

\* Both layers together are inductive.
LEMMA NextPreserves == IInv /\ [Next]_vars => IInv'
  BY StepSafe, DriverStep, GuestKept DEF IInv

\* The invariant holds of every behaviour.
LEMMA Inductive == Spec => []IInv
  BY InitEstablishes, NextPreserves, PTL DEF Spec

(* The registers, the bus and the job keep their types; the buffer's       *)
(* offset never passes its length, however long a data phase may be.       *)
THEOREM TypeCorrect == Spec => []TypeOK
<1>1. IInv => TypeOK
  BY DEF IInv, SafeOK, ControlOK, Connected, Buses, Jobs, TypeOK
<1> QED
  BY <1>1, Inductive, PTL

(* The bus is free exactly when no target is selected, whatever the guest  *)
(* does (Wd33c93Device.cpp 791, 853).                                      *)
THEOREM TargetAndPhaseAgree == Spec => []BusFree
<1>1. IInv => BusFree
  BY DEF IInv, SafeOK, Connected, BusFree
<1> QED
  BY <1>1, Inductive, PTL

(* Whatever the guest does, a command without an answer has a transfer     *)
(* armed that will answer it. The idle bus is what could break this: a     *)
(* transfer that ends there answers nothing (CompletePhaseTransfer), so    *)
(* no command may wait while the bus is idle.                              *)
THEOREM EveryCommandAnswered == Spec => []NoSilentCommand
<1>1. IInv => NoSilentCommand
  BY DEF IInv, SafeOK, Awaited, NoSilentCommand
<1> QED
  BY <1>1, Inductive, PTL

(* A status comes after the whole of the data, and after the commit.       *)
THEOREM StatusComesLast == Spec => []StatusAfterData
<1>1. IInv => StatusAfterData
  BY DEF IInv, DriverOK, Whole, StatusAfterData
<1> QED
  BY <1>1, Inductive, PTL

(* What reaches the medium is one whole write, of the target's own.        *)
THEOREM WritesWhole == Spec => []NoTornWrite
<1>1. IInv => NoTornWrite
  <2>1. Untorn(job) => (job.commits > 0 =>
            job.moved = job.len /\ job.commits = 1 /\ job.wrote = job.tgt)
    BY DEF Untorn
  <2> QED
    BY <2>1, Zenon DEF IInv, DriverOK, NoTornWrite
<1> QED
  BY <1>1, Inductive, PTL

(* The follow-up interrupt never outlives its selection's message phase.   *)
THEOREM FollowUpNeverStale == Spec => []FollowUpFresh
<1>1. IInv => FollowUpFresh
  BY DEF IInv, DriverOK, FollowUpFresh
<1> QED
  BY <1>1, Inductive, PTL

-----------------------------------------------------------------------------
(* Level I under a driver whose media nobody swaps. Every target answers,  *)
(* so no failed selection leaves the Level II mark behind, and the bus is  *)
(* marked only while a Level II command is in its data phase.              *)

Marked(b, j) == b.sat => b.phase \in DataPhase /\ j.sat

LevelKept == ready = Target /\ Marked(bus, job)

\* The end of a data transfer, with and without the Level II mark.
LEMMA DataDoneMarked ==
  ASSUME NEW b, NEW j, Connected(b), b.phase \in DataPhase, Marked(b, j), DataDone(b, j)
  PROVE  /\ Marked(bus', job')
         /\ ~b.sat => bus'.phase \in {b.phase, "Status"}
<1>1. CASE bus' = b /\ job' = j
  BY <1>1
<1>2. CASE b.sat /\ CompleteSat(b, Committed(b, j))
  BY <1>2 DEF CompleteSat, Free, Connected, Buses, Marked
<1>3. CASE ~b.sat /\ bus' = [b EXCEPT !.phase = "Status"]
  BY <1>3 DEF Connected, Buses, Marked
<1> QED
  BY <1>1, <1>2, <1>3 DEF DataDone

\* A DMA segment, likewise.
LEMMA DmaMarked ==
  ASSUME NEW b, NEW j, Connected(b), j \in Jobs, b.phase \in DataPhase,
         tc \in 0..(MaxLen + 1), Marked(b, j), Dma(b, j)
  PROVE  /\ Marked(bus', job')
         /\ ~b.sat => bus'.phase \in {b.phase, "Status"}
<1> DEFINE n == Min({tc, b.len - b.off})
           c == [b EXCEPT !.off = @ + n]
           k == [j EXCEPT !.moved = @ + n]
<1>1. n \in Nat /\ n <= b.len - b.off
  <2>1. tc \in Nat /\ b.len - b.off \in Nat
    BY BoundAssumption DEF Connected, Buses
  <2> QED
    BY <2>1, SmallerOfTwo
<1>2. DataDone(c, k)
  BY DEF Dma
<1> HIDE DEF n
<1>3. Connected(c)
  BY <1>1, BoundAssumption DEF Connected, Buses
<1>4. c.phase = b.phase /\ c.sat = b.sat /\ k.sat = j.sat
  BY DEF Connected, Buses, Jobs
<1> HIDE DEF c, k
<1>5. Marked(c, k)
  BY <1>4 DEF Marked
<1> QED
  BY <1>2, <1>3, <1>4, <1>5, DataDoneMarked

\* The end of any transfer, likewise.
LEMMA PhaseDoneMarked ==
  ASSUME NEW b, NEW j, Connected(b), Connected(bus), b.phase = bus.phase, b.sat = bus.sat,
         Marked(b, j), CompletePhaseTransfer(b, j)
  PROVE  /\ Marked(bus', job')
         /\ b.phase \in DataPhase /\ ~b.sat => bus'.phase \in {b.phase, "Status"}
<1>1. CASE b.phase \in DataPhase
  <2>1. DataDone(b, j)
    BY <1>1 DEF CompletePhaseTransfer
  <2> QED
    BY <1>1, <2>1, DataDoneMarked
<1>2. CASE b.phase \in {"MsgOut", "Status", "MsgIn", "Idle"}
  <2>1. ~b.sat
    BY <1>2 DEF Marked
  <2>2. bus'.sat = b.sat
    BY <1>2 DEF CompletePhaseTransfer, Free, Connected, Buses
  <2> QED
    BY <1>2, <2>1, <2>2 DEF Marked
<1>3. CASE b.phase = "Command"
  <2>1. ~bus.sat
    BY <1>3 DEF Marked
  <2>2. ExecuteScsiCommand
    BY <1>3 DEF CompletePhaseTransfer
  <2>3. PICK r : bus' \in {[bus EXCEPT !.phase = "Status"], InDataPhase(bus, r)}
    BY <2>2 DEF ExecuteScsiCommand
  <2>4. bus'.sat = bus.sat
    BY <2>3 DEF InDataPhase, Connected, Buses
  <2> QED
    BY <1>3, <2>1, <2>4 DEF Marked
<1> QED
  BY <1>1, <1>2, <1>3 DEF Connected, Buses

LevelAction ==
    guest = "driver" /\ bus.phase \in DataPhase /\ ~job.sat =>
        \/ bus'.phase \in {bus.phase, "Status"}
        \/ csr' \in {"reset", "disconnect", "timeout", "zero"}

\* A bus that is let go of by the commands that clear the mark.
LEMMA IdleMarked ==
  ASSUME NEW b, b.sat = FALSE, NEW j
  PROVE  Marked(b, j)
  BY DEF Marked

\* The driver's commands, each of which finds its target ready.
LEMMA LevelCommand ==
  ASSUME "driver" \notin Swaps, IInv, guest = "driver", LevelKept, GuestCommand
  PROVE  LevelKept' /\ LevelAction
<1>0. /\ Connected(bus) /\ bus \in Buses /\ job \in Jobs /\ tc \in 0..(MaxLen + 1)
      /\ Marked(bus, job) /\ ready = Target
  BY DEF IInv, SafeOK, Connected, LevelKept
<1>1. CASE Abort \/ Reset
  <2>1. bus'.sat = FALSE /\ ready' = ready /\ csr' \in {"reset", "disconnect"}
    BY <1>0, <1>1 DEF Abort, Reset, Command, Stopped, Free, Buses, Raise
  <2> QED
    BY <1>0, <2>1, IdleMarked DEF LevelKept, LevelAction
<1>2. CASE UnknownCommand
  BY <1>2 DEF UnknownCommand
<1>3. CASE XferInfoSbt
  <2>1. ready' = ready /\ job' = job /\ bus' \in {bus, Advance(bus)}
    BY <1>3 DEF XferInfoSbt, Disciplined, Refused, Command, ByteLoaded
  <2>2. bus'.phase = bus.phase /\ bus'.sat = bus.sat
    BY <1>0, <2>1 DEF Advance, Buses
  <2> QED
    BY <1>0, <2>1, <2>2 DEF LevelKept, Marked, LevelAction
<1>4. ASSUME NEW n \in 0..(MaxLen + 1), SetTransferCount(n) PROVE LevelKept' /\ LevelAction
  BY <1>0, <1>4 DEF SetTransferCount, LevelKept, Marked, LevelAction
<1>5. ASSUME NEW t \in Target, SelectAtn(t) PROVE LevelKept' /\ LevelAction
  <2>1. /\ bus.phase = "Idle" /\ ready' = ready
        /\ bus' = [bus EXCEPT !.phase = "MsgOut", !.tgt = t]
    BY <1>0, <1>5 DEF SelectAtn, Disciplined
  <2>2. bus'.sat = FALSE
    BY <1>0, <2>1 DEF Marked, Buses
  <2> QED
    BY <1>0, <2>1, <2>2, IdleMarked DEF LevelKept, LevelAction
<1>6. ASSUME NEW t \in Target, NEW cmdPhase \in {"00", "45", "46", "50"}, SelAtnXfer(t, cmdPhase)
      PROVE  LevelKept' /\ LevelAction
  <2>1. Command /\ ready' = ready /\ ~(bus.phase \in DataPhase /\ ~job.sat)
    BY <1>6 DEF SelAtnXfer, Disciplined, Command
  <2>2. CASE Dma(bus, job) /\ Resumes(cmdPhase)
    BY <1>0, <2>1, <2>2, DmaMarked DEF LevelKept, LevelAction, Resumes
  <2>3. CASE CompleteSat(bus, job)
    BY <1>0, <2>1, <2>3, IdleMarked DEF CompleteSat, Free, Buses, LevelKept, LevelAction
  <2>4. CASE SatExecute(t)
    <3> DEFINE b == [bus EXCEPT !.tgt = t, !.sat = TRUE]
    <3>1. b \in Buses /\ b.tgt # None /\ b.sat = TRUE
      BY <1>0, TargetAssumption DEF Buses
    <3>2. PICK r \in Results(t) :
            \/ r.op = "nodata" /\ CompleteSat(b, JobOf(t, TRUE, r)) /\ UNCHANGED tc
            \/ r.op # "nodata" /\ Dma(InDataPhase(b, r), JobOf(t, TRUE, r))
      BY <2>4 DEF SatExecute
    <3> HIDE DEF b
    <3>3. JobOf(t, TRUE, r) \in Jobs /\ r.len \in 0..MaxLen
      BY ResultsTyped
    <3>4. Marked(bus', job')
      <4>1. CASE CompleteSat(b, JobOf(t, TRUE, r))
        BY <3>1, <4>1, IdleMarked DEF CompleteSat, Free, Buses
      <4>2. CASE Dma(InDataPhase(b, r), JobOf(t, TRUE, r))
        <5>1. Connected(InDataPhase(b, r)) /\ InDataPhase(b, r).phase \in DataPhase
          BY <3>1, <3>3, DataPhaseConnected
        <5>2. Marked(InDataPhase(b, r), JobOf(t, TRUE, r))
          BY <5>1 DEF Marked, JobOf
        <5> QED
          BY <1>0, <3>3, <4>2, <5>1, <5>2, DmaMarked
      <4> QED
        BY <3>2, <4>1, <4>2
    <3> QED
      BY <1>0, <2>1, <3>4 DEF LevelKept, LevelAction
  <2> QED
    BY <1>0, <1>6, <2>2, <2>3, <2>4 DEF SelAtnXfer
<1>7. ASSUME NEW dma \in BOOLEAN, XferInfo(dma) PROVE LevelKept' /\ LevelAction
  <2>1. ready' = ready /\ bus.phase # "Idle"
    BY <1>7 DEF XferInfo, Disciplined, Command
  <2>2. CASE bus.phase \in DataPhase /\ Dma(bus, job)
    <3>1. Marked(bus', job') /\ (~bus.sat => bus'.phase \in {bus.phase, "Status"})
      BY <1>0, <2>2, DmaMarked
    <3> QED
      BY <1>0, <2>1, <3>1 DEF LevelKept, LevelAction, Marked
  <2>3. CASE /\ bus' = IF bus.phase \in {"Status", "MsgIn"}
                         THEN [bus EXCEPT !.off = 0, !.len = 1] ELSE bus
             /\ UNCHANGED <<tc, job>>
    <3>1. bus'.phase = bus.phase /\ bus'.sat = bus.sat
      BY <1>0, <2>3 DEF Buses
    <3> QED
      BY <1>0, <2>1, <2>3, <3>1 DEF LevelKept, LevelAction, Marked
  <2> QED
    BY <1>7, <2>1, <2>2, <2>3 DEF XferInfo
<1> QED
  BY <1>1, <1>2, <1>3, <1>4, <1>5, <1>6, <1>7 DEF GuestCommand

\* A byte of a PIO transfer.
LEMMA LevelPioByte ==
  ASSUME Connected(bus), job \in Jobs, LevelKept, NEW b \in {bus, Advance(bus)},
         NEW j \in {job, Moved(job)}, PioByte(b, j)
  PROVE  LevelKept' /\ LevelAction
<1>1. /\ Connected(b) /\ b.phase = bus.phase /\ b.sat = bus.sat /\ j.sat = job.sat
      /\ Connected(Advance(bus))
  BY AdvanceConnected DEF Advance, Moved, Jobs, Connected, Buses
<1>2. Marked(b, j)
  BY <1>1 DEF Marked, LevelKept
<1>3. ready' = ready
  BY DEF PioByte
<1>4. CASE CompletePhaseTransfer(b, j)
  BY <1>1, <1>2, <1>3, <1>4, PhaseDoneMarked DEF LevelKept, LevelAction, Marked
<1>5. CASE bus' = b /\ job' = j
  BY <1>1, <1>2, <1>3, <1>5 DEF LevelKept, LevelAction
<1> QED
  BY <1>4, <1>5 DEF PioByte

\* Every step with no swap of a medium.
LEMMA LevelStep ==
  ASSUME "driver" \notin Swaps, IInv, guest = "driver", LevelKept, [Next]_vars
  PROVE  LevelKept' /\ (LevelAction \/ UNCHANGED vars)
<1>0. Connected(bus) /\ bus \in Buses /\ job \in Jobs /\ Marked(bus, job) /\ ready = Target
  BY DEF IInv, SafeOK, Connected, LevelKept
<1>1. CASE GuestCommand
  BY <1>1, LevelCommand
<1>2. CASE PioRead \/ PioWrite
  BY <1>0, <1>2, LevelPioByte DEF PioRead, PioWrite
<1>3. CASE SbtByte
  <2>1. PICK b \in {bus, Advance(bus)}, j \in {job, Moved(job)} : CompletePhaseTransfer(b, j)
    BY <1>3 DEF SbtByte
  <2>2. Connected(b) /\ b.phase = bus.phase /\ b.sat = bus.sat /\ j.sat = job.sat
    BY <1>0, AdvanceConnected DEF Advance, Moved, Jobs, Buses
  <2>3. Marked(b, j)
    BY <1>0, <2>2 DEF Marked
  <2>4. ready' = ready
    BY <1>3 DEF SbtByte
  <2> QED
    BY <1>0, <2>1, <2>2, <2>3, <2>4, PhaseDoneMarked DEF LevelKept, LevelAction, Marked
<1>4. CASE ReadCsr \/ Tick
  BY <1>0, <1>4 DEF ReadCsr, Tick, LevelKept, LevelAction, Marked
<1>5. CASE ResetBusState
  BY <1>0, <1>5 DEF ResetBusState, LevelKept, LevelAction, Marked
<1>6. ASSUME NEW t \in Cdrom, SwapMedium(t) PROVE FALSE
  BY <1>6 DEF SwapMedium
<1>7. CASE UNCHANGED vars
  BY <1>0, <1>7 DEF vars, LevelKept, Marked
<1> QED
  BY <1>1, <1>2, <1>3, <1>4, <1>5, <1>6, <1>7 DEF Next

(* If nobody swaps media under the driver, a command it takes through the  *)
(* phases itself always ends its data phase in Status, however its         *)
(* transfers are cut (Wd33c93DeviceTests.cpp 602-604). A medium taken away *)
(* makes the selection of a resumed Level II command fail, which leaves    *)
(* m_satInProgress set for the next, Level I, command: without the         *)
(* hypothesis the statement is false.                                      *)
THEOREM LevelOneEnds ==
  ASSUME "driver" \notin Swaps
  PROVE  Spec => LevelOneReportsStatus
<1> DEFINE Kept == IInv /\ (guest = "driver" => LevelKept)
<1>1. Init => Kept
  BY InitEstablishes DEF Init, LevelKept, Marked
<1>2. Kept /\ [Next]_vars => Kept'
  BY LevelStep, NextPreserves, GuestKept
<1>3. Kept /\ [Next]_vars => [LevelAction]_vars
  <2> SUFFICES ASSUME Kept, [Next]_vars PROVE LevelAction \/ UNCHANGED vars
    OBVIOUS
  <2>1. CASE guest = "driver"
    BY <2>1, LevelStep
  <2>2. CASE guest # "driver"
    BY <2>2 DEF LevelAction
  <2> QED
    BY <2>1, <2>2
<1> HIDE DEF Kept
<1>4. Spec => [][LevelAction]_vars
  BY <1>1, <1>2, <1>3, PTL DEF Spec
<1> QED
  BY <1>4 DEF LevelOneReportsStatus, LevelAction

-----------------------------------------------------------------------------
(* The console input of the serial controller.                             *)


(* What the mapping needs of the state: its two queues and the keys that     *)
(* arrived are sequences of keys, and the records have the fields it reads.  *)
SerialOK ==
  /\ DOMAIN ch = Channels
  /\ \A n \in Channels : "rx" \in DOMAIN ch[n]
  /\ ch["A"].rx \in Seq(Keys)
  /\ pending \in Seq(Keys)
  /\ "got" \in DOMAIN drv
  /\ drv.got \in Seq(Keys)

Chan == ch["A"].rx \o pending

(* The steps of the channel, said of Chan and of what the guest has got.     *)
PutStep(k) == Chan' = Append(Chan, k) /\ drv'.got = drv.got
GetStep(k) == drv'.got = Append(drv.got, k) /\ Chan = <<k>> \o Chan'
IdleStep   == Chan' = Chan /\ drv'.got = drv.got

(* The receive FIFOs of two values of ch are the same. *)
SameFifo(old, new) ==
  /\ DOMAIN new = DOMAIN old
  /\ \A n \in Channels : "rx" \in DOMAIN new[n] /\ new[n].rx = old[n].rx

(* The queues start empty. *)
LEMMA InitOK == SerialInit => SerialOK
<1> SUFFICES ASSUME SerialInit PROVE SerialOK
  OBVIOUS
<1>1. "rx" \in DOMAIN Idle /\ Idle.rx = <<>>
  BY DEF Idle
<1>2. ch = [n \in Channels |-> Idle] /\ pending = <<>>
  BY DEF SerialInit
<1>3. "got" \in DOMAIN drv /\ drv.got = <<>>
  BY DEF SerialInit
<1>4. /\ DOMAIN ch = Channels
      /\ \A n \in Channels : "rx" \in DOMAIN ch[n] /\ ch[n].rx = <<>>
      /\ "A" \in Channels
  BY <1>1, <1>2 DEF Channels
<1> QED
  BY <1>2, <1>3, <1>4, EmptySeq DEF SerialOK

(* A tick of the transmitter leaves the receive FIFO alone. *)
LEMMA TxTickKeeps ==
  ASSUME NEW c, "rx" \in DOMAIN c
  PROVE  TxTick(c).rx = c.rx /\ DOMAIN TxTick(c) = DOMAIN c
<1>1. /\ [c EXCEPT !.busy = FALSE, !.pend = TRUE, !.idle = 0].rx = c.rx
      /\ DOMAIN [c EXCEPT !.busy = FALSE, !.pend = TRUE, !.idle = 0] = DOMAIN c
  OBVIOUS
<1>2. /\ [c EXCEPT !.pend = TRUE, !.idle = 0].rx = c.rx
      /\ DOMAIN [c EXCEPT !.pend = TRUE, !.idle = 0] = DOMAIN c
  OBVIOUS
<1>3. /\ [c EXCEPT !.txie = TRUE, !.idle = 0].rx = c.rx
      /\ DOMAIN [c EXCEPT !.txie = TRUE, !.idle = 0] = DOMAIN c
  OBVIOUS
<1>4. \A i : /\ [c EXCEPT !.idle = i].rx = c.rx
             /\ DOMAIN [c EXCEPT !.idle = i] = DOMAIN c
  OBVIOUS
<1> QED
  BY <1>1, <1>2, <1>3, <1>4 DEF TxTick

(* Neither do the accesses to WR1, to WR0 and to the transmit buffer. *)
LEMMA AccessesKeepFifo ==
  ASSUME SerialOK, NEW n \in Channels
  PROVE  /\ \A rxie, txie : WriteWR1(n, rxie, txie) => SameFifo(ch, ch')
         /\ ResetTxInt(n) => SameFifo(ch, ch')
         /\ WriteData(n) => SameFifo(ch, ch')
<1> USE DEF SerialOK, SameFifo, Become
<1>1. ASSUME NEW r, "rx" \in DOMAIN r, NEW x, NEW y, NEW z
      PROVE  /\ [r EXCEPT !.rxie = x, !.txie = y, !.pend = z].rx = r.rx
             /\ "rx" \in DOMAIN [r EXCEPT !.rxie = x, !.txie = y, !.pend = z]
             /\ [r EXCEPT !.busy = x, !.pend = y, !.idle = z].rx = r.rx
             /\ "rx" \in DOMAIN [r EXCEPT !.busy = x, !.pend = y, !.idle = z]
             /\ [r EXCEPT !.pend = x].rx = r.rx
             /\ "rx" \in DOMAIN [r EXCEPT !.pend = x]
  BY <1>1
<1>2. ASSUME NEW v, "rx" \in DOMAIN v, v.rx = ch[n].rx,
             ch' = [ch EXCEPT ![n] = v]
      PROVE  SameFifo(ch, ch')
  BY <1>2
<1>3. ASSUME NEW rxie, NEW txie, WriteWR1(n, rxie, txie)
      PROVE  SameFifo(ch, ch')
  BY <1>1, <1>2, <1>3 DEF WriteWR1
<1>4. ASSUME ResetTxInt(n) PROVE SameFifo(ch, ch')
  BY <1>1, <1>2, <1>4 DEF ResetTxInt
<1>5. ASSUME WriteData(n) PROVE SameFifo(ch, ch')
  BY <1>1, <1>2, <1>5 DEF WriteData
<1> QED
  BY <1>3, <1>4, <1>5

(* Concatenation is associative, in the three shapes the channel needs: a    *)
(* key at the front,                                                         *)
LEMMA HeadStaysHead ==
  ASSUME NEW k \in Keys, NEW s \in Seq(Keys), NEW t \in Seq(Keys)
  PROVE  (<<k>> \o s) \o t = <<k>> \o (s \o t)
<1>1. <<k>> \in Seq(Keys)
  OBVIOUS
<1> QED
  BY <1>1, ConcatAssociative

(* a key at the end,                                                         *)
LEMMA LastStaysLast ==
  ASSUME NEW k \in Keys, NEW s \in Seq(Keys), NEW t \in Seq(Keys)
  PROVE  s \o (t \o <<k>>) = (s \o t) \o <<k>>
<1>1. <<k>> \in Seq(Keys)
  OBVIOUS
<1> QED
  BY <1>1, ConcatAssociative

(* and a key that changes sides.                                             *)
LEMMA MiddleStays ==
  ASSUME NEW k \in Keys, NEW s \in Seq(Keys), NEW t \in Seq(Keys)
  PROVE  s \o (<<k>> \o t) = (s \o <<k>>) \o t
<1>1. <<k>> \in Seq(Keys)
  OBVIOUS
<1> QED
  BY <1>1, ConcatAssociative

(* A FIFO of one key is empty once that key is read. *)
LEMMA TailOfOne ==
  ASSUME NEW s \in Seq(Keys), Len(s) = 1
  PROVE  Tail(s) = <<>>
<1>1. s # <<>>
  BY EmptySeq
<1>2. Tail(s) \in Seq(Keys) /\ Len(Tail(s)) = 0
  BY <1>1, HeadTailProperties
<1> QED
  BY <1>2, EmptySeq

(* Reading a key takes the oldest one out of the channel. *)
LEMMA ReadDataTakes ==
  ASSUME SerialOK, NEW k \in Keys, ReadData(k)
  PROVE  /\ DOMAIN ch' = Channels
         /\ \A n \in Channels : "rx" \in DOMAIN ch'[n]
         /\ ch'["A"].rx \in Seq(Keys) /\ pending' \in Seq(Keys)
         /\ Chan = <<k>> \o Chan'
<1> USE DEF SerialOK, Chan
<1>1. ASSUME NEW s, ch' = [ch EXCEPT !["A"].rx = s]
      PROVE  /\ DOMAIN ch' = Channels
             /\ \A n \in Channels : "rx" \in DOMAIN ch'[n]
             /\ ch'["A"].rx = s
  BY <1>1 DEF Channels
<1>2. ASSUME NEW s \in Seq(Keys), s # <<>>, k = Head(s)
      PROVE  Tail(s) \in Seq(Keys) /\ s = <<k>> \o Tail(s)
  BY <1>2
<1>3. <<k>> \in Seq(Keys) /\ <<>> \in Seq(Keys)
  OBVIOUS
<1>4. ASSUME Len(ch["A"].rx) >= 1, k = Head(ch["A"].rx), UNCHANGED pending,
             ch' = [ch EXCEPT !["A"].rx = Tail(ch["A"].rx)]
      PROVE  /\ ch'["A"].rx \in Seq(Keys)
             /\ Chan = <<k>> \o Chan'
  <2>1. ch["A"].rx # <<>>
    BY <1>4
  <2>2. ch'["A"].rx = Tail(ch["A"].rx)
    BY <1>1, <1>4
  <2>3. ch["A"].rx = <<k>> \o ch'["A"].rx /\ ch'["A"].rx \in Seq(Keys)
    BY <1>2, <1>4, <2>1, <2>2
  <2>4. (<<k>> \o ch'["A"].rx) \o pending = <<k>> \o (ch'["A"].rx \o pending)
    BY <2>3, HeadStaysHead
  <2> QED
    BY <1>4, <2>3, <2>4
<1>5. CASE Len(ch["A"].rx) > 1 /\ k = Head(ch["A"].rx) /\ UNCHANGED pending
           /\ ch' = [ch EXCEPT !["A"].rx = Tail(@)]
  <2>1. ch' = [ch EXCEPT !["A"].rx = Tail(ch["A"].rx)] /\ UNCHANGED pending
    BY <1>5
  <2>2. Len(ch["A"].rx) >= 1
    BY <1>5
  <2> QED
    BY <1>1, <1>4, <1>5, <2>1, <2>2
<1>6. CASE Len(ch["A"].rx) = 1 /\ k = Head(ch["A"].rx) /\ UNCHANGED pending
           /\ ch' = [ch EXCEPT !["A"].rx = <<>>]
  <2>1. Tail(ch["A"].rx) = <<>>
    BY <1>6, TailOfOne
  <2>2. ch' = [ch EXCEPT !["A"].rx = Tail(ch["A"].rx)]
    BY <1>6, <2>1, Zenon
  <2>3. Len(ch["A"].rx) >= 1
    BY <1>6
  <2> QED
    BY <1>1, <1>4, <1>6, <2>2, <2>3
<1>7. CASE ch["A"].rx = <<>> /\ pending # <<>> /\ k = Head(pending)
           /\ pending' = Tail(pending) /\ UNCHANGED ch
  <2>1. pending = <<k>> \o pending' /\ pending' \in Seq(Keys)
    BY <1>2, <1>7
  <2>2. Chan = pending /\ Chan' = pending'
    BY <1>7, <2>1, ConcatEmptySeq
  <2> QED
    BY <1>7, <2>1, <2>2
<1> QED
  BY <1>5, <1>6, <1>7 DEF ReadData, Become

(* A tick moves keys within the channel and nothing else. *)
LEMMA TickMoves ==
  ASSUME SerialOK, SerialTick
  PROVE  SerialOK' /\ IdleStep
<1> USE DEF SerialOK, Chan
<1> DEFINE sent == [n \in Channels |-> TxTick(ch[n])]
<1>1. /\ DOMAIN sent = Channels
      /\ \A n \in Channels : "rx" \in DOMAIN sent[n] /\ sent[n].rx = ch[n].rx
  BY TxTickKeeps
<1>2. drv' = drv
  BY DEF SerialTick
<1>3. "A" \in Channels
  BY DEF Channels
<1>4. CASE Promotes(ch["A"])
  <2>1. ch' = [sent EXCEPT !["A"].rx = @ \o pending] /\ pending' = <<>>
    BY <1>4 DEF SerialTick
  <2> HIDE DEF sent
  <2>2. /\ DOMAIN ch' = Channels
        /\ \A n \in Channels : "rx" \in DOMAIN ch'[n]
        /\ ch'["A"].rx = ch["A"].rx \o pending
    BY <1>1, <1>3, <2>1
  <2>3. ch["A"].rx \o pending \in Seq(Keys)
    BY ConcatProperties
  <2>4. ch'["A"].rx \in Seq(Keys) /\ pending' \in Seq(Keys)
    BY <2>1, <2>2, <2>3, EmptySeq
  <2>5. Chan' = Chan
    BY <2>1, <2>2, <2>3, ConcatEmptySeq
  <2> QED
    BY <1>2, <2>2, <2>4, <2>5 DEF IdleStep
<1>5. CASE ~ Promotes(ch["A"])
  <2>1. ch' = sent /\ pending' = pending
    BY <1>5 DEF SerialTick
  <2> HIDE DEF sent
  <2> QED
    BY <1>1, <1>2, <1>3, <2>1 DEF IdleStep
<1> QED
  BY <1>4, <1>5

(* A step that leaves the FIFO, the queue and the keys that arrived alone. *)
LEMMA ElsewhereIdle ==
  ASSUME SerialOK, SameFifo(ch, ch'), pending' = pending,
         "got" \in DOMAIN drv', drv'.got = drv.got
  PROVE  SerialOK' /\ IdleStep
<1>1. "A" \in Channels
  BY DEF Channels
<1> QED
  BY <1>1 DEF SerialOK, SameFifo, IdleStep, Chan

(* The guest reads a key, polling or in its handler. *)
LEMMA KeyTaken ==
  ASSUME SerialOK, NEW k \in Keys, ReadData(k),
         drv' = [drv EXCEPT !.got = Append(@, k)]
  PROVE  SerialOK' /\ GetStep(k)
<1>1. "got" \in DOMAIN drv' /\ drv'.got = Append(drv.got, k)
  BY DEF SerialOK
<1>2. drv'.got \in Seq(Keys)
  BY <1>1, AppendProperties DEF SerialOK
<1> QED
  BY <1>1, <1>2, ReadDataTakes DEF SerialOK, GetStep

(* A key typed goes to the end of the channel. *)
LEMMA KeyTyped ==
  ASSUME SerialOK, NEW k \in Keys, QueueInput(k)
  PROVE  SerialOK' /\ PutStep(k)
<1> USE DEF SerialOK
<1>1. ch' = ch /\ drv' = drv /\ pending' = Append(pending, k)
  BY DEF QueueInput
<1>2. pending' = pending \o <<k>> /\ pending' \in Seq(Keys)
  BY <1>1, AppendIsConcat, AppendProperties
<1>3. <<k>> \in Seq(Keys) /\ Chan \in Seq(Keys)
  BY ConcatProperties DEF Chan
<1>4. Chan' = Append(Chan, k)
  <2>1. Chan' = ch["A"].rx \o (pending \o <<k>>)
    BY <1>1, <1>2 DEF Chan
  <2>2. Chan' = Chan \o <<k>>
    BY <2>1, LastStaysLast DEF Chan
  <2> QED
    BY <1>3, <2>2, AppendIsConcat
<1> QED
  BY <1>1, <1>2, <1>4 DEF PutStep

(* Every step of the controller and its driver keeps SerialOK and is a step  *)
(* of the channel: one case per action.                                      *)
LEMMA StepOfChannel ==
  ASSUME SerialOK, [SerialNext]_serialVars
  PROVE  /\ SerialOK'
         /\ IdleStep \/ \E k \in Keys : PutStep(k) \/ GetStep(k)
<1>1. CASE SerialTick
  BY <1>1, TickMoves
<1>2. ASSUME NEW k \in Keys, QueueInput(k)
      PROVE  SerialOK' /\ PutStep(k)
  BY <1>2, KeyTyped
<1>3. CASE PollKey \/ IsrKey
  BY <1>3, KeyTaken DEF PollKey, IsrKey
<1>4. ASSUME NEW n \in Channels, Request(n)
      PROVE  SerialOK' /\ IdleStep
  <2>1. SameFifo(ch, ch') /\ pending' = pending
    BY <1>4 DEF Request, SameFifo, SerialOK
  <2>2. "got" \in DOMAIN drv' /\ drv'.got = drv.got
    BY <1>4 DEF Request, SerialOK
  <2> QED
    BY <2>1, <2>2, ElsewhereIdle
<1>5. ASSUME NEW n \in Channels, PollPut(n)
      PROVE  SerialOK' /\ IdleStep
  <2>1. SameFifo(ch, ch') /\ pending' = pending
    BY <1>5, AccessesKeepFifo DEF PollPut
  <2>2. "got" \in DOMAIN drv' /\ drv'.got = drv.got
    BY <1>5 DEF PollPut, SerialOK
  <2> QED
    BY <2>1, <2>2, ElsewhereIdle
<1>6. ASSUME NEW n \in Channels, Start(n)
      PROVE  SerialOK' /\ IdleStep
  <2>1. SameFifo(ch, ch)
    BY DEF SameFifo, SerialOK
  <2>2. SameFifo(ch, ch') /\ pending' = pending
    BY <1>6, <2>1, AccessesKeepFifo DEF Start
  <2>3. /\ drv' = [drv EXCEPT !.tie[n] = TRUE, !.waits[n] = TRUE]
    BY <1>6 DEF Start
  <2>4. "got" \in DOMAIN drv' /\ drv'.got = drv.got
    BY <2>3 DEF SerialOK
  <2> QED
    BY <2>2, <2>4, ElsewhereIdle
<1>7. ASSUME NEW n \in Channels, IsrTx(n)
      PROVE  SerialOK' /\ IdleStep
  <2>1. SameFifo(ch, ch') /\ pending' = pending
    BY <1>7, AccessesKeepFifo DEF IsrTx
  <2>2. \/ drv' = [drv EXCEPT !.todo[n] = @ - 1]
        \/ drv' = [drv EXCEPT !.waits[n] = FALSE]
        \/ drv' = [drv EXCEPT !.waits[n] = FALSE, !.tie[n] = FALSE]
    BY <1>7 DEF IsrTx
  <2>3. "got" \in DOMAIN drv' /\ drv'.got = drv.got
    BY <2>2 DEF SerialOK
  <2> QED
    BY <2>1, <2>3, ElsewhereIdle
<1>8. CASE Attach
  <2>1. ch' = [ch EXCEPT !["A"].rxie = TRUE, !["B"].rxie = TRUE]
        /\ pending' = pending /\ drv' = [drv EXCEPT !.mode = "base"]
    BY <1>8 DEF Attach, Become
  <2>2. SameFifo(ch, ch')
    BY <2>1 DEF SameFifo, SerialOK, Channels
  <2>3. "got" \in DOMAIN drv' /\ drv'.got = drv.got
    BY <2>1 DEF SerialOK
  <2> QED
    BY <2>1, <2>2, <2>3, ElsewhereIdle
<1>9. CASE Stop \/ Interrupt \/ IsrDone \/ UNCHANGED serialVars
  <2>1. SameFifo(ch, ch') /\ pending' = pending
    BY <1>9 DEF Stop, Interrupt, IsrDone, serialVars, SameFifo, SerialOK
  <2>2. "got" \in DOMAIN drv' /\ drv'.got = drv.got
    BY <1>9 DEF Stop, Interrupt, IsrDone, serialVars, SerialOK
  <2> QED
    BY <2>1, <2>2, ElsewhereIdle
<1> QED
  BY <1>1, <1>2, <1>3, <1>4, <1>5, <1>6, <1>7, <1>8, <1>9, Zenon DEF SerialNext

(* What is appended to a sequence makes it longer and keeps its beginning. *)
LEMMA AppendExtends ==
  ASSUME NEW s \in Seq(Keys), NEW k \in Keys
  PROVE  /\ Console!IsStrictPrefix(s, Append(s, k))
         /\ \A j \in Len(s) + 1 .. Len(Append(s, k)) : Append(s, k)[j] \in Keys
<1>1. Len(Append(s, k)) = Len(s) + 1 /\ Len(s) \in Nat
  BY AppendProperties
<1>2. Append(s, k) # s
  BY <1>1
<1>3. SubSeq(s, 1, Len(s)) = SubSeq(Append(s, k), 1, Len(s))
  BY <1>1
<1>4. Append(s, k)[Len(s) + 1] \in Keys
  BY AppendProperties
<1> QED
  BY <1>1, <1>2, <1>3, <1>4 DEF Console!IsStrictPrefix, Console!IsPrefix

(* The steps of the channel are those that Fifo allows. *)
LEMMA ChannelStep ==
  ASSUME SerialOK, SerialOK',
         IdleStep \/ \E k \in Keys : PutStep(k) \/ GetStep(k)
  PROVE  [Console!Next]_<<ch["A"].rx \o pending, drv.got, TRUE>>
<1>1. Chan \in Seq(Keys) /\ Chan' \in Seq(Keys) /\ drv.got \in Seq(Keys)
  BY ConcatProperties DEF SerialOK, Chan
<1>2. CASE IdleStep
  BY <1>2 DEF IdleStep, Chan
<1>3. ASSUME NEW k \in Keys, PutStep(k)
      PROVE  Console!Put
  BY <1>1, <1>3, AppendExtends DEF PutStep, Console!Put, Chan
<1>4. ASSUME NEW k \in Keys, GetStep(k)
      PROVE  Console!Get
  <2>1. Console!IsStrictPrefix(drv.got, drv'.got)
    BY <1>1, <1>4, AppendExtends DEF GetStep
  <2>2. Append(drv.got, k) = drv.got \o <<k>>
    BY <1>1, AppendIsConcat
  <2>4. drv.got \o (<<k>> \o Chan') = (drv.got \o <<k>>) \o Chan'
    BY <1>1, MiddleStays
  <2>5. drv.got \o Chan = drv'.got \o Chan'
    BY <1>4, <2>2, <2>4 DEF GetStep
  <2> QED
    BY <2>1, <2>5 DEF Console!Get, Chan
<1> QED
  BY <1>2, <1>3, <1>4 DEF Console!Next

(* The queues of the controller hold keys and nothing else, and so does what *)
(* the guest has got.                                                        *)
THEOREM ConsoleTypeCorrect == SerialSpec => []SerialOK
<1>1. SerialOK /\ [SerialNext]_serialVars => SerialOK'
  BY StepOfChannel
<1> QED
  BY <1>1, InitOK, PTL DEF SerialSpec

(* What is typed reaches the guest once and in order, whether it polls or    *)
(* takes interrupts, and whenever it changes over.                           *)
THEOREM ConsoleImplementsFifo == SerialSpec => TypedInOrder
<1>1. SerialInit => Console!Init
  <2> SUFFICES ASSUME SerialInit PROVE Console!Init
    OBVIOUS
  <2>1. ch["A"].rx = <<>> /\ pending = <<>> /\ drv.got = <<>>
    <3>1. Idle.rx = <<>>
      BY DEF Idle
    <3> QED
      BY <3>1 DEF SerialInit, Channels
  <2>2. <<>> \o <<>> = <<>>
    BY ConcatEmptySeq, EmptySeq
  <2> QED
    BY <2>1, <2>2, Zenon DEF Console!Init
<1>2. SerialOK /\ SerialOK' /\ [SerialNext]_serialVars
        => [Console!Next]_<<ch["A"].rx \o pending, drv.got, TRUE>>
  BY StepOfChannel, ChannelStep
<1> QED
  BY <1>1, <1>2, ConsoleTypeCorrect, PTL DEF SerialSpec, TypedInOrder, Console!Spec

=============================================================================
