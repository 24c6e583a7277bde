------------------------------ MODULE Wd33c93 ------------------------------
(***************************************************************************)
(* The WD33C93 SCSI controller (IO/Wd33c93Device). The guest's driver      *)
(* writes a command; the chip runs it to its end within that write, or     *)
(* arms a transfer that the driver's data accesses then carry. Either way  *)
(* it answers with a CSR code and an interrupt. A selection is followed by *)
(* a second interrupt of its own, which Tick delivers later.               *)
(*                                                                         *)
(* While a PIO transfer is active every access of the data port moves a    *)
(* data byte: no register, not even the command or the CSR, is reachable.  *)
(***************************************************************************)
EXTENDS Integers, FiniteSetsExt

CONSTANTS
    Disk,      \* SCSI disks: fixed media, they accept writes
    Cdrom,     \* CD-ROM drives: the user may take their medium away
    None,      \* no target selected
    MaxLen,    \* bound: bytes of a data phase, and the transfer counts used
    Guests,    \* the guests considered: "driver" keeps a driver's discipline,
               \* "any" gives commands in any order
    Swaps      \* the guests under which the user swaps media

Target == Disk \cup Cdrom

ASSUME TargetAssumption == Disk \cap Cdrom = {} /\ None \notin Target
ASSUME BoundAssumption == MaxLen \in Nat \ {0}
ASSUME GuestAssumption == Guests \subseteq {"driver", "any"} /\ Swaps \subseteq Guests

VARIABLES
    guest,   \* the kind of guest, which never changes
    bus,     \* m_phase, m_selectedTarget, m_satInProgress, m_dataOffset, m_dataLength
    pio,     \* m_pioTransferActive
    sbt,     \* m_sbtPending and m_sbtOutput: "none", "in" or "out"
    tc,      \* the transfer count registers
    follow,  \* m_deferredInterruptCsr is 0x8E
    int,     \* bit 7 of the ASR, which is also the interrupt line
    csr,     \* the CSR register
    ready,   \* targets that are attached and have a medium
    job,     \* the SCSI command given to a target in this selection
    owed     \* the last command of the guest is not answered yet

vars == <<guest, bus, pio, sbt, tc, follow, int, csr, ready, job, owed>>

DataPhase == {"DataIn", "DataOut"}
InPhase == {"DataIn", "Status", "MsgIn"}
OutPhase == {"MsgOut", "Command", "DataOut"}
Phase == InPhase \cup OutPhase \cup {"Idle"}

\* One letter code per CSR value the chip uses; "more" stands for the codes
\* 0x18, 0x19, 0x88 and 0x89 that ask for (more of) a data phase.
Csr == {"zero", "reset", "select", "done", "command", "more", "status",
        "msgIn", "disconnect", "timeout", "reqMsgOut"}

NoJob == [op |-> "none", tgt |-> None, sat |-> FALSE, len |-> 0, moved |-> 0,
          commits |-> 0, wrote |-> None]

-----------------------------------------------------------------------------
(* Answers.                                                                *)

\* SetCsrAndInterrupt.
Raise(code) == int' = TRUE /\ csr' = code /\ owed' = FALSE

\* The command has armed a transfer and answers later.
Armed == owed' = TRUE /\ UNCHANGED <<int, csr>>

Free(b) == [b EXCEPT !.phase = "Idle", !.tgt = None]

\* CompleteSat.
CompleteSat(b, j) ==
    bus' = [Free(b) EXCEPT !.sat = FALSE] /\ job' = j /\ Raise("done")

\* Mutant: a transfer counts as complete one byte early.
DataLeftEarly(b) == b.off + 1 < b.len

DataLeft(b) == b.off < b.len

\* CompleteDataOut: only a write, and only a whole one, reaches the medium.
Committed(b, j) ==
    IF b.phase = "DataOut" /\ j.op = "write" /\ b.len > 0
      THEN [j EXCEPT !.commits = @ + 1, !.wrote = b.tgt] ELSE j

\* The end of a data transfer: ask for more, or finish the command.
DataDone(b, j) ==
    \/ DataLeft(b) /\ bus' = b /\ job' = j /\ Raise("more")
    \/ ~DataLeft(b) /\ b.sat /\ CompleteSat(b, Committed(b, j))
    \/ /\ ~DataLeft(b) /\ ~b.sat
       /\ bus' = [b EXCEPT !.phase = "Status"] /\ job' = Committed(b, j)
       /\ Raise("status")

\* DoDmaDataIn, DoDmaDataOut: one segment in one go.
Dma(b, j) ==
    LET n == Min({tc, b.len - b.off})
    IN  /\ tc' = tc - n
        /\ DataDone([b EXCEPT !.off = @ + n], [j EXCEPT !.moved = @ + n])

-----------------------------------------------------------------------------
(* Executing a SCSI command.                                               *)

\* What ProcessCommand of target t may ask for: no data, or a data phase. A
\* drive without a medium reports CHECK CONDITION.
Results(t) ==
    {[op |-> "nodata", len |-> 0]}
    \cup (IF t \in ready THEN [op : {"read"}, len : 0..MaxLen] ELSE {})
    \cup (IF t \in ready \cap Disk THEN [op : {"write", "modeSelect"}, len : 0..MaxLen] ELSE {})

JobOf(t, sat, r) ==
    [op |-> r.op, tgt |-> t, sat |-> sat, len |-> r.len, moved |-> 0,
     commits |-> 0, wrote |-> None]

InDataPhase(b, r) ==
    [b EXCEPT !.phase = IF r.op = "read" THEN "DataIn" ELSE "DataOut",
              !.off = 0, !.len = r.len]

\* ExecuteScsiCommand: the CDB of a command phase is complete.
ExecuteScsiCommand ==
    \E r \in Results(bus.tgt) :
        /\ job' = JobOf(bus.tgt, FALSE, r)
        /\ \/ /\ r.op = "nodata"
              /\ bus' = [bus EXCEPT !.phase = "Status"]
              /\ Raise("status")
           \/ r.op # "nodata" /\ bus' = InDataPhase(bus, r) /\ Raise("more")

\* CompletePhaseTransfer, with the data offset and the job after the last byte.
CompletePhaseTransfer(b, j) ==
    \/ /\ b.phase = "MsgOut"
       /\ bus' = [b EXCEPT !.phase = "Command"] /\ job' = j /\ Raise("command")
    \/ b.phase = "Command" /\ ExecuteScsiCommand
    \/ b.phase \in DataPhase /\ DataDone(b, j)
    \/ /\ b.phase = "Status"
       /\ bus' = [b EXCEPT !.phase = "MsgIn", !.off = 0, !.len = 1]
       /\ job' = j /\ Raise("msgIn")
    \/ b.phase = "MsgIn" /\ bus' = Free(b) /\ job' = j /\ Raise("disconnect")
    \/ b.phase = "Idle" /\ bus' = b /\ job' = j /\ UNCHANGED <<int, csr, owed>>

-----------------------------------------------------------------------------
(* What the driver does. Its discipline: it issues a command only after it *)
(* has read the answer to the last one, though a follow-up may come between*)
(* its look at the ASR and the command.                                    *)

Disciplined(guard) == guest = "any" \/ guard

Settled == ~owed /\ sbt = "none" /\ (int => csr = "reqMsgOut")

\* Mutant: a command leaves the follow-up interrupt pending.
FollowKept == follow

\* HandleCommand cancels the follow-up interrupt first.
FollowAfterCommand == FALSE

Command == ~pio /\ follow' = FollowAfterCommand /\ UNCHANGED <<guest, ready>>

SetTransferCount(n) ==
    /\ ~pio /\ Disciplined(Settled)
    /\ tc' = n
    /\ UNCHANGED <<guest, bus, pio, sbt, follow, int, csr, ready, job, owed>>

\* Mutant: the Level II mark outlives an abort.
StoppedKeepsSat(b) == Free(b)

\* The bus after the commands that end everything.
Stopped(b) == [Free(b) EXCEPT !.sat = FALSE]

\* HandleAbort, HandleDisconnect: the driver's way out at any time.
Abort ==
    /\ Command
    /\ bus' = Stopped(bus) /\ sbt' = "none" /\ job' = NoJob
    /\ Raise("disconnect")
    /\ UNCHANGED <<pio, tc>>

\* HandleReset.
Reset ==
    /\ Command
    /\ bus' = [Stopped(bus) EXCEPT !.off = 0, !.len = 0]
    /\ sbt' = "none" /\ job' = NoJob
    /\ Raise("reset")
    /\ UNCHANGED <<pio, tc>>

UnknownCommand ==
    /\ guest = "any" /\ Command
    /\ Raise("timeout")
    /\ UNCHANGED <<bus, pio, sbt, tc, job>>

\* A target that is absent or has no medium does not answer a selection.
\* Mutant: the target of the failed selection stays selected.
TimedOutKeepsTarget(b) == [b EXCEPT !.phase = "Idle"]

TimedOut(b) == Free(b)

SelectionTimeout ==
    /\ bus' = TimedOut(bus) /\ job' = NoJob
    /\ Raise("timeout")
    /\ UNCHANGED <<pio, sbt, tc>>

\* HandleSelectAtn: select, and promise the follow-up 0x8E.
SelectAtn(t) ==
    /\ Disciplined(Settled /\ bus.phase = "Idle")
    /\ \/ t \notin ready /\ Command /\ SelectionTimeout
       \/ /\ t \in ready /\ ~pio
          /\ bus' = [bus EXCEPT !.phase = "MsgOut", !.tgt = t]
          /\ job' = NoJob /\ follow' = TRUE
          /\ Raise("select")
          /\ UNCHANGED <<guest, pio, sbt, tc, ready>>

\* HandleSelAtnXfer with command phase $45 during a data phase: continue.
Resumes(cmdPhase) ==
    cmdPhase = "45" /\ bus.sat /\ bus.phase \in DataPhase /\ bus.off < bus.len

\* With command phase $46, or $50 during Level II: report the status.
Finishes(cmdPhase) == cmdPhase = "46" \/ (cmdPhase = "50" /\ bus.sat)

\* A new Level II command: CDB, data and status in one go.
SatExecute(t) ==
    \E r \in Results(t) :
        LET b == [bus EXCEPT !.tgt = t, !.sat = TRUE]
        IN  \/ r.op = "nodata" /\ CompleteSat(b, JobOf(t, TRUE, r)) /\ UNCHANGED tc
            \/ r.op # "nodata" /\ Dma(InDataPhase(b, r), JobOf(t, TRUE, r))

\* HandleSelAtnXfer: resume ($45), finish ($46, $50) or start a command.
SelAtnXfer(t, cmdPhase) ==
    /\ Disciplined(/\ Settled
                   /\ \/ cmdPhase = "00" /\ bus.phase = "Idle"
                      \/ cmdPhase = "45" /\ job.sat /\ bus.phase \in DataPhase /\ t = bus.tgt
                      \/ cmdPhase = "46" /\ bus.phase = "Status" /\ t = bus.tgt)
    /\ Command
    /\ \/ t \notin ready /\ SelectionTimeout
       \/ t \in ready /\ Resumes(cmdPhase) /\ Dma(bus, job) /\ UNCHANGED <<pio, sbt>>
       \/ t \in ready /\ Finishes(cmdPhase) /\ CompleteSat(bus, job) /\ UNCHANGED <<pio, sbt, tc>>
       \/ /\ t \in ready /\ ~Resumes(cmdPhase) /\ ~Finishes(cmdPhase)
          /\ SatExecute(t) /\ UNCHANGED <<pio, sbt>>

\* Mutant: a transfer the phase does not allow is dropped without an answer.
RefusedSilently == UNCHANGED <<bus, job, int, csr>> /\ owed' = TRUE

\* XFER_INFO with nothing connected.
Refused == UNCHANGED <<bus, job>> /\ Raise("timeout")

\* HandleXferInfo without the SBT bit: DMA for data when the guest set the
\* DMA mode, else PIO. Status and message bytes are put in the buffer.
XferInfo(dma) ==
    /\ Disciplined(Settled /\ bus.phase # "Idle")
    /\ Command /\ UNCHANGED sbt
    /\ \/ bus.phase = "Idle" /\ Refused /\ UNCHANGED <<pio, tc>>
       \/ dma /\ bus.phase \in DataPhase /\ Dma(bus, job) /\ UNCHANGED pio
       \/ /\ bus.phase # "Idle" /\ ~(dma /\ bus.phase \in DataPhase)
          /\ pio' = TRUE
          /\ bus' = IF bus.phase \in {"Status", "MsgIn"}
                      THEN [bus EXCEPT !.off = 0, !.len = 1] ELSE bus
          /\ Armed
          /\ UNCHANGED <<tc, job>>

Advance(b) == IF b.off < b.len THEN [b EXCEPT !.off = @ + 1] ELSE b

\* Mutant: arming an output byte takes it from the buffer too.
ByteLoadedBothWays(b) == IF b.phase \in DataPhase THEN Advance(b) ELSE b

\* HandleSbtTransfer puts an input byte into register $19 at once.
ByteLoaded(b) == IF b.phase = "DataIn" THEN Advance(b) ELSE b

\* XFER_INFO with the SBT bit: one byte, through register $19.
XferInfoSbt ==
    /\ Disciplined(Settled /\ bus.phase # "Idle")
    /\ Command /\ tc' = 1 /\ UNCHANGED pio
    /\ \/ bus.phase = "Idle" /\ Refused /\ UNCHANGED sbt
       \/ /\ bus.phase # "Idle" /\ UNCHANGED job /\ Armed
          /\ sbt' = IF bus.phase \in InPhase THEN "in" ELSE "out"
          /\ bus' = ByteLoaded(bus)

-----------------------------------------------------------------------------
(* Data accesses of the guest, and reading the CSR.                        *)

Moved(j) == [j EXCEPT !.moved = IF @ < j.len THEN @ + 1 ELSE @]

\* DecrementTcAndCheck: a count of 0 ends the transfer like a count of 1.
PioByte(b, j) ==
    /\ UNCHANGED <<guest, sbt, follow, ready>>
    /\ \/ tc <= 1 /\ tc' = 0 /\ pio' = FALSE /\ CompletePhaseTransfer(b, j)
       \/ /\ tc > 1 /\ tc' = tc - 1
          /\ bus' = b /\ job' = j
          /\ UNCHANGED <<pio, int, csr, owed>>

\* HandlePioDataRead takes a byte of the buffer, whatever the phase.
PioRead ==
    /\ pio /\ Disciplined(bus.phase \in InPhase)
    /\ PioByte(Advance(bus), IF bus.phase = "DataIn" THEN Moved(job) ELSE job)

\* HandlePioDataWrite stores a byte in a DataOut phase only.
PioWrite ==
    /\ pio /\ Disciplined(bus.phase \in OutPhase)
    /\ IF bus.phase = "DataOut"
         THEN PioByte(Advance(bus), Moved(job)) ELSE PioByte(bus, job)

\* Register $19 is written or read while an SBT transfer waits for it.
SbtByte ==
    /\ ~pio /\ sbt # "none"
    /\ sbt' = "none" /\ tc' = 0
    /\ UNCHANGED <<guest, pio, follow, ready>>
    /\ \/ sbt = "out" /\ bus.phase = "DataOut" /\ CompletePhaseTransfer(Advance(bus), Moved(job))
       \/ sbt = "in" /\ bus.phase = "DataIn" /\ CompletePhaseTransfer(bus, Moved(job))
       \/ /\ <<sbt, bus.phase>> \notin {<<"out", "DataOut">>, <<"in", "DataIn">>}
          /\ CompletePhaseTransfer(bus, job)

\* Reading register $17 drops the interrupt.
ReadCsr ==
    /\ ~pio /\ Disciplined(int)
    /\ int' = FALSE
    /\ UNCHANGED <<guest, bus, pio, sbt, tc, follow, csr, ready, job, owed>>

\* The follow-up waits until the guest has read the previous CSR.
MayFollow == follow /\ ~int

Tick ==
    /\ MayFollow
    /\ follow' = FALSE
    /\ Raise("reqMsgOut")
    /\ UNCHANGED <<guest, bus, pio, sbt, tc, ready, job>>

\* MountImage, UnmountImage of a CD-ROM while the guest runs.
SwapMedium(t) ==
    /\ guest \in Swaps
    /\ ready' = IF t \in ready THEN ready \ {t} ELSE ready \cup {t}
    /\ UNCHANGED <<guest, bus, pio, sbt, tc, follow, int, csr, job, owed>>

\* ResetBusState: the watchdog and a warm reboot.
ResetBusState ==
    /\ bus' = [phase |-> "Idle", tgt |-> None, sat |-> FALSE, off |-> 0, len |-> 0]
    /\ pio' = FALSE /\ sbt' = "none" /\ tc' = 0 /\ follow' = FALSE
    /\ int' = FALSE /\ csr' = "zero" /\ job' = NoJob /\ owed' = FALSE
    /\ UNCHANGED <<guest, ready>>

-----------------------------------------------------------------------------
Init ==
    /\ guest \in Guests
    /\ bus = [phase |-> "Idle", tgt |-> None, sat |-> FALSE, off |-> 0, len |-> 0]
    /\ pio = FALSE /\ sbt = "none" /\ tc = 0 /\ follow = FALSE
    /\ int = FALSE /\ csr = "zero" /\ job = NoJob /\ owed = FALSE
    /\ ready = Target

GuestCommand ==
    \/ Abort \/ Reset \/ UnknownCommand \/ XferInfoSbt
    \/ \E n \in 0..(MaxLen + 1) : SetTransferCount(n)
    \/ \E t \in Target : SelectAtn(t)
    \/ \E t \in Target, cmdPhase \in {"00", "45", "46", "50"} : SelAtnXfer(t, cmdPhase)
    \/ \E dma \in BOOLEAN : XferInfo(dma)

Next ==
    \/ GuestCommand \/ PioRead \/ PioWrite \/ SbtByte \/ ReadCsr \/ Tick
    \/ ResetBusState
    \/ \E t \in Cdrom : SwapMedium(t)

Spec == Init /\ [][Next]_vars

-----------------------------------------------------------------------------
TypeOK ==
    /\ guest \in Guests
    /\ bus \in [phase : Phase, tgt : Target \cup {None}, sat : BOOLEAN,
                off : 0..MaxLen, len : 0..MaxLen]
    /\ bus.off <= bus.len
    /\ pio \in BOOLEAN /\ sbt \in {"none", "in", "out"} /\ tc \in 0..(MaxLen + 1)
    /\ follow \in BOOLEAN /\ int \in BOOLEAN /\ csr \in Csr /\ owed \in BOOLEAN
    /\ ready \in SUBSET Target
    /\ job.op \in {"none", "nodata", "read", "write", "modeSelect"}
    /\ job.tgt \in Target \cup {None} /\ job.sat \in BOOLEAN
    /\ job.len \in 0..MaxLen /\ job.moved \in Nat /\ job.commits \in Nat
    /\ job.wrote \in Target \cup {None}

(* The bus is free exactly when no target is selected: no command, in any  *)
(* order, leaves a target connected to an idle bus or a phase without a    *)
(* target, where the next transfer would have nobody to talk to            *)
(* (Wd33c93Device.cpp 791, 853).                                           *)
BusFree == bus.phase = "Idle" <=> bus.tgt = None

(* A command the chip has not answered has a transfer armed that will      *)
(* answer it: whatever the guest writes, it never waits for an interrupt   *)
(* that nothing can raise. Only ResetBusState forgets a command.           *)
NoSilentCommand == owed => pio \/ sbt # "none"

(* When the chip offers a command's status, all of the command's data has  *)
(* crossed the bus and a write has been handed to the disk once            *)
(* (Wd33c93Device.cpp 744-770, 903-912, 944-955).                          *)
StatusAfterData ==
    guest = "driver" /\ (bus.phase \in {"Status", "MsgIn"} \/ (int /\ csr = "done")) =>
        /\ job.op # "none" /\ job.moved = job.len
        /\ job.op = "write" /\ job.len > 0 => job.commits = 1

(* A disk never gets part of a write, nor another disk's write, nor one    *)
(* write twice: however the transfer was cut into segments and modes, the  *)
(* commit comes with the last byte.                                        *)
NoTornWrite ==
    guest = "driver" /\ job.commits > 0 =>
        job.moved = job.len /\ job.commits = 1 /\ job.wrote = job.tgt

(* A pending follow-up always belongs to a selection still in its message  *)
(* phase; a later phase never sees a stale 0x8E (Wd33c93Device.cpp 222,    *)
(* 347-351).                                                               *)
FollowUpFresh == guest = "driver" /\ follow => bus.phase = "MsgOut"

(* A command the driver takes through the phases itself ends its data      *)
(* phase in Status, for the driver to read (Wd33c93DeviceTests.cpp         *)
(* 602-604 "Data complete -> Status"); only an abort or a reset cuts it.   *)
LevelOneReportsStatus ==
    [][guest = "driver" /\ bus.phase \in DataPhase /\ ~job.sat =>
         \/ bus'.phase \in {bus.phase, "Status"}
         \/ csr' \in {"reset", "disconnect", "timeout", "zero"}]_vars
=============================================================================
