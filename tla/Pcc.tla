-------------------------------- MODULE Pcc --------------------------------
(***************************************************************************)
(* The interrupt path of the MVME147 board: the Peripheral Channel         *)
(* Controller (IO/PccDevice) with its interrupt control registers (ICRs),  *)
(* the interrupt lines of the devices behind it, and the half of the CPU   *)
(* loop (Core/MC68030) that takes an interrupt or runs an instruction.     *)
(*                                                                         *)
(* One call of ExecuteNextFast is two steps here: "check" (the tick        *)
(* handlers, then the interrupt check) and "execute" (one instruction).    *)
(* Every register write of the guest is the effect of one instruction; a   *)
(* timer overflow, and a device raising its line from its own Tick, happen *)
(* in the tick handlers, before the check.                                 *)
(***************************************************************************)
EXTENDS Integers

CONSTANTS
    Latched,      \* sources whose ICR only remembers an event (timers, DMA)
    Device,       \* sources with a level-sensitive line: scc, lance, scsi
    Soft,         \* the two software interrupts
    Scsi,         \* the device whose assertion delays interrupts
    Vec,          \* PCCV_*: a source's vector offset, its order in UpdateIPL
    Levels,       \* interrupt levels the guest programs into an ICR
    Masks,        \* interrupt masks the guest puts in SR
    Bases,        \* vector bases the guest programs
    DefaultBase,  \* the vector base after power-on (0x40)
    SuppressFor   \* argument of SuppressInterrupt (8)

Source == Latched \cup Device \cup Soft

ASSUME SourceAssumption ==
    /\ Scsi \in Device
    /\ Latched \cap Device = {} /\ Latched \cap Soft = {} /\ Device \cap Soft = {}
ASSUME VecAssumption ==
    /\ Vec \in [Source -> 0..11]
    /\ \A s, t \in Source : Vec[s] = Vec[t] => s = t
ASSUME LevelAssumption == Levels \subseteq 0..7 /\ Masks \subseteq 0..7
ASSUME BaseAssumption ==
    Bases \subseteq Nat /\ DefaultBase \in Bases /\ SuppressFor \in Nat \ {0}

VARIABLES
    icr,        \* the ICR of every source: INT latch, IEN, level
    active,     \* m_sccDeviceActive, ...: the line as the PCC remembers it
    line,       \* the line as the device last drove it
    vectorBase, \* m_vectorBase
    ipl,        \* _pendingIPL of the CPU
    vector,     \* _pendingVector of the CPU, -1 for autovector
    suppress,   \* _interruptSuppress of the CPU
    mask,       \* interrupt mask in SR
    stopped,    \* the CPU waits in STOP
    phase,      \* "check" or "execute": where the current loop turn is
    unsynced,   \* a CPU reset dropped the request and no UpdateIPL followed
    ran         \* turns with a request eligible since SCSI last asserted

pccVars == <<icr, active, line, vectorBase>>
cpuVars == <<ipl, vector, suppress, mask, stopped, phase, unsynced, ran>>
vars == <<pccVars, cpuVars>>

Icr == [int : BOOLEAN, ien : BOOLEAN, lvl : 0..7]

-----------------------------------------------------------------------------
(* Choosing the request: UpdateIPL and CheckIcr.                           *)

\* An ICR contributes when INT and IEN are both set.
Pending(ic, s) == ic[s].int /\ ic[s].ien

\* Level 0 counts as level 1.
Level(ic, s) == IF ic[s].lvl = 0 THEN 1 ELSE ic[s].lvl

\* The scan keeps the first source that has a strictly higher level than
\* all before it: the highest level, and in it the lowest offset.
IsWinner(ic, s) ==
    /\ Pending(ic, s)
    /\ \A t \in Source : Pending(ic, t) =>
         \/ Level(ic, t) < Level(ic, s)
         \/ Level(ic, t) = Level(ic, s) /\ Vec[s] <= Vec[t]

\* Mutant: the scan forgets to compare levels.
UpdateIPLAny(ic) ==
    /\ \/ \E s \in Source :
            Pending(ic, s) /\ ipl' = Level(ic, s) /\ vector' = vectorBase + Vec[s]
       \/ (\A s \in Source : ~Pending(ic, s)) /\ ipl' = 0 /\ vector' = -1
    /\ unsynced' = FALSE

\* SetIPL with the winner's level and vector, or level 0 and no vector.
UpdateIPL(ic) ==
    /\ \/ \E s \in Source :
            IsWinner(ic, s) /\ ipl' = Level(ic, s) /\ vector' = vectorBase + Vec[s]
       \/ (\A s \in Source : ~Pending(ic, s)) /\ ipl' = 0 /\ vector' = -1
    /\ unsynced' = FALSE

-----------------------------------------------------------------------------
(* One turn of the CPU loop.                                               *)

\* A request beats the mask; level 7 always does.
Eligible == ipl > 0 /\ (ipl = 7 \/ ipl > mask)

Counted == IF ran < SuppressFor THEN ran + 1 ELSE ran

\* The check finds an eligible request and no suppression: ProcessInterrupt
\* raises the mask to the level, wakes the CPU and ends the turn.
TakeInterrupt ==
    /\ phase = "check" /\ Eligible /\ suppress = 0
    /\ mask' = ipl
    /\ stopped' = FALSE
    /\ UNCHANGED <<pccVars, ipl, vector, suppress, phase, unsynced, ran>>

\* Mutants: the counter runs at every turn, and at none.
CountDownAlways == IF suppress > 0 THEN suppress - 1 ELSE 0
CountDownNever == suppress

\* Only an eligible request counts the suppression down.
CountDown == IF Eligible THEN suppress - 1 ELSE suppress

\* The check finds nothing to take: the turn goes on to its instruction.
PassCheck ==
    /\ phase = "check"
    /\ ~(Eligible /\ suppress = 0)
    /\ suppress' = CountDown
    /\ ran' = IF Eligible THEN Counted ELSE ran
    /\ phase' = "execute"
    /\ UNCHANGED <<pccVars, ipl, vector, mask, stopped, unsynced>>

\* The turn of a stopped CPU ends without an instruction.
Idle ==
    /\ phase = "execute" /\ stopped
    /\ phase' = "check"
    /\ UNCHANGED <<pccVars, ipl, vector, suppress, mask, stopped, unsynced, ran>>

\* The instruction slot of a turn.
Instruction == phase = "execute" /\ ~stopped /\ phase' = "check"

\* An instruction that touches none of this: the guest computes.
Compute ==
    /\ Instruction
    /\ UNCHANGED <<pccVars, ipl, vector, suppress, mask, stopped, unsynced, ran>>

\* MOVE to SR, RTE: the guest changes its interrupt mask.
SetMask(m) ==
    /\ Instruction
    /\ mask' = m
    /\ UNCHANGED <<pccVars, ipl, vector, suppress, stopped, unsynced, ran>>

\* STOP #m: new mask, then wait. A driver that stops has finished its setup.
Stop(m) ==
    /\ Instruction
    /\ mask' = m /\ stopped' = TRUE /\ ran' = SuppressFor
    /\ UNCHANGED <<pccVars, ipl, vector, suppress, unsynced>>

-----------------------------------------------------------------------------
(* Register writes of the guest.                                           *)

\* WriteIcr: writing INT clears it, IEN and level are stored.
WriteIcr(s, clear, ien, lvl) ==
    LET ic == [icr EXCEPT ![s] = [int |-> icr[s].int /\ ~clear, ien |-> ien, lvl |-> lvl]]
    IN  /\ Instruction
        /\ icr' = ic
        /\ UpdateIPL(ic)
        /\ UNCHANGED <<active, line, vectorBase, suppress, mask, stopped, ran>>

\* Mutant: a device's INT is acknowledged like an edge-triggered one.
DeviceIntEdge(d, clear) == icr[d].int /\ ~clear

\* INT of a device latches again while the line is remembered active.
DeviceInt(d, clear) == (icr[d].int /\ ~clear) \/ active[d]

\* WriteDeviceIcr: WriteIcr, followed by the re-latch.
WriteDeviceIcr(d, clear, ien, lvl) ==
    LET ic == [icr EXCEPT ![d] = [int |-> DeviceInt(d, clear), ien |-> ien, lvl |-> lvl]]
    IN  /\ Instruction
        /\ icr' = ic
        /\ UpdateIPL(ic)
        /\ UNCHANGED <<active, line, vectorBase, suppress, mask, stopped, ran>>

\* WriteSoftIcr: INT is stored as written.
WriteSoftIcr(s, int, ien, lvl) ==
    LET ic == [icr EXCEPT ![s] = [int |-> int, ien |-> ien, lvl |-> lvl]]
    IN  /\ Instruction
        /\ icr' = ic
        /\ UpdateIPL(ic)
        /\ UNCHANGED <<active, line, vectorBase, suppress, mask, stopped, ran>>

\* A write of register $2D stores the base and does not call UpdateIPL.
WriteVectorBase(b) ==
    /\ Instruction
    /\ vectorBase' = b
    /\ UNCHANGED <<icr, active, line, ipl, vector, suppress, mask, stopped, unsynced, ran>>

\* HardwareReset clears every ICR and every remembered line.
ClearAll ==
    LET ic == [s \in Source |-> [int |-> FALSE, ien |-> FALSE, lvl |-> 0]]
    IN  /\ icr' = ic
        /\ active' = [d \in Device |-> FALSE]
        /\ UpdateIPL(ic)

\* The RESET instruction: OnResetInstruction runs HardwareReset, which leaves
\* the devices behind the PCC, and the vector base, as they are.
HardwareReset ==
    /\ Instruction
    /\ ClearAll
    /\ UNCHANGED <<line, vectorBase, suppress, mask, stopped, ran>>

\* The guest arms the watchdog: OnWatchdogReset runs HardwareReset, resets the
\* WD33C93, which drops its line, and boots again with all levels masked.
WatchdogReset ==
    /\ Instruction
    /\ ClearAll
    /\ line' = [line EXCEPT ![Scsi] = FALSE]
    /\ mask' = 7
    /\ UNCHANGED <<vectorBase, suppress, stopped, ran>>

-----------------------------------------------------------------------------
(* Device lines and events.                                                *)

\* Mutant: the remembered line is set but never dropped.
RememberedSticky(d, on) == active[d] \/ on

\* The line as the PCC remembers it after the device drives it.
Remembered(d, on) == on

\* SetDeviceInterrupt: the line and the INT latch move together; a SCSI
\* assertion restarts the suppression counter.
SetDeviceInterrupt(d, on) ==
    LET ic == [icr EXCEPT ![d].int = on]
    IN  /\ line' = [line EXCEPT ![d] = on]
        /\ active' = [active EXCEPT ![d] = Remembered(d, on)]
        /\ icr' = ic
        /\ UpdateIPL(ic)
        /\ IF d = Scsi /\ on
             THEN suppress' = SuppressFor /\ ran' = 0
             ELSE UNCHANGED <<suppress, ran>>
        /\ UNCHANGED <<vectorBase, mask, stopped>>

\* An instruction makes a device raise or drop its line (a command write, a
\* status read).
DeviceAccess(d, on) == Instruction /\ SetDeviceInterrupt(d, on)

\* A device raises its line from its Tick.
DeviceTick(d) ==
    /\ phase = "check" /\ ~line[d]
    /\ SetDeviceInterrupt(d, TRUE)
    /\ UNCHANGED phase

\* AdvanceTimer finds an overflow, in the tick handlers; or the instruction
\* that started a DMA transfer comes to SetDmaDone.
LatchEvent(s) ==
    LET ic == [icr EXCEPT ![s].int = TRUE]
    IN  /\ phase = "check" \/ ~stopped
        /\ icr' = ic
        /\ UpdateIPL(ic)
        /\ UNCHANGED <<active, line, vectorBase, suppress, mask, stopped, phase, ran>>

\* The user's Reset command between two turns: MC68030::Reset clears the
\* request (not the suppression counter) and tells the PCC nothing.
CpuReset ==
    /\ phase = "check"
    /\ ipl' = 0 /\ vector' = -1 /\ unsynced' = TRUE
    /\ mask' = 7 /\ stopped' = FALSE
    /\ UNCHANGED <<pccVars, suppress, phase, ran>>

-----------------------------------------------------------------------------
Init ==
    /\ icr = [s \in Source |-> [int |-> FALSE, ien |-> FALSE, lvl |-> 0]]
    /\ active = [d \in Device |-> FALSE]
    /\ line = [d \in Device |-> FALSE]
    /\ vectorBase = DefaultBase
    /\ ipl = 0 /\ vector = -1 /\ suppress = 0 /\ mask = 7
    /\ stopped = FALSE /\ phase = "check" /\ unsynced = FALSE
    /\ ran = SuppressFor

CpuTurn == TakeInterrupt \/ PassCheck \/ Idle

GuestStep ==
    \/ Compute
    \/ \E m \in Masks : SetMask(m) \/ Stop(m)
    \/ \E b \in Bases : WriteVectorBase(b)
    \/ \E f, ien \in BOOLEAN, lvl \in Levels :
         \/ \E s \in Latched : WriteIcr(s, f, ien, lvl)
         \/ \E d \in Device : WriteDeviceIcr(d, f, ien, lvl)
         \/ \E s \in Soft : WriteSoftIcr(s, f, ien, lvl)
    \/ \E d \in Device, on \in BOOLEAN : DeviceAccess(d, on)
    \/ HardwareReset \/ WatchdogReset

DeviceStep ==
    \/ \E d \in Device : DeviceTick(d)
    \/ \E s \in Latched : LatchEvent(s)

Next == CpuTurn \/ GuestStep \/ DeviceStep \/ CpuReset

\* The emulation thread calls ExecuteNextFast in a loop that only a stop
\* request ends, so its turns go on: weak fairness of the loop's own steps.
Fairness == WF_vars(CpuTurn) /\ WF_vars(GuestStep)

Spec == Init /\ [][Next]_vars /\ Fairness

-----------------------------------------------------------------------------
LinesOK ==
    /\ icr \in [Source -> Icr]
    /\ active \in [Device -> BOOLEAN]
    /\ line \in [Device -> BOOLEAN]
    /\ vectorBase \in Bases

RequestOK == ipl \in 0..7 /\ vector \in Nat \cup {-1} /\ mask \in 0..7

CountersOK == suppress \in 0..SuppressFor /\ ran \in 0..SuppressFor

FlagsOK == stopped \in BOOLEAN /\ phase \in {"check", "execute"} /\ unsynced \in BOOLEAN

TypeOK == LinesOK /\ RequestOK /\ CountersOK /\ FlagsOK

(* The request the CPU sees is the one the ICRs call for: its level is the *)
(* winner's, its vector the winner's offset under a base the guest has     *)
(* programmed, and it is absent exactly when no ICR is pending. Every      *)
(* handler of the PCC that changes an ICR must recompute it (PccDevice.cpp *)
(* 182-202); only a CPU reset may drop it.                                 *)
RequestCurrent ==
    ~unsynced =>
      \/ ipl = 0 /\ vector = -1 /\ \A s \in Source : ~Pending(icr, s)
      \/ \E s \in Source : /\ IsWinner(icr, s)
                           /\ ipl = Level(icr, s)
                           /\ \E b \in Bases : vector = b + Vec[s]

(* A device whose line the PCC holds active always has its INT latched: no *)
(* sequence of acknowledgements, resets and line changes can dismiss a     *)
(* level-sensitive interrupt (PccDevice.cpp 370-383).                      *)
ActiveIsLatched == \A d \in Device : active[d] => icr[d].int

(* The PCC never holds active the line of a device that does not drive it. *)
ActiveIsDriven == \A d \in Device : active[d] => line[d]

(* So a level-sensitive interrupt lasts as long as the device's line that    *)
(* the PCC remembers, and that line is one the device really drives.         *)
LineKept == ActiveIsLatched /\ ActiveIsDriven

(* After SCSI asserts, no interrupt is taken before SuppressFor turns with *)
(* an eligible request have run, unless the CPU stopped meanwhile: the     *)
(* driver's window of MC68030.h 362-373, which a masked section must not   *)
(* use up (MC68030.cpp 544-546).                                           *)
DriverWindow == [][TakeInterrupt => ran = SuppressFor]_vars

(* A stopped CPU with a request that beats its mask is woken: neither the  *)
(* suppression counter nor the mask keeps it in STOP for ever.             *)
WakesFromStop == (stopped /\ Eligible) ~> ~stopped
=============================================================================
