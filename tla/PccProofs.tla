------------------------------ MODULE PccProofs ------------------------------
(***************************************************************************)
(* What holds of the PCC: of its interrupt side (Pcc) for every set of     *)
(* sources, every vector base and every length of the suppression window,  *)
(* and of its timers (PccTimer) for any counter width, tick length and     *)
(* credit.                                                                 *)
(*                                                                         *)
(* Two of the checked properties of the interrupts need a strengthening.   *)
(* That the request is current needs the types of the ICRs, and an ICR     *)
(* write to end in UpdateIPL. That the driver keeps its window needs the   *)
(* two counters to add up: the turns still to be suppressed and the turns  *)
(* already run are together the window, so an empty counter means a full   *)
(* window.                                                                 *)
(*                                                                         *)
(* For the timers the arithmetic of AdvanceTimer is taken apart first: a   *)
(* Tick moves what the guest reads by exactly the ticks it credits, over   *)
(* any number of overflows. The rest is bookkeeping over the actions.      *)
(***************************************************************************)
EXTENDS Pcc, PccTimer, TLAPS

Window == suppress + ran >= SuppressFor

-----------------------------------------------------------------------------
(* The operators of the model.                                             *)

(* A pending ICR asks for one of the levels 1 to 7, level 0 included.      *)
LEMMA LevelRange ==
  ASSUME NEW ic \in [Source -> Icr], NEW s \in Source
  PROVE  Level(ic, s) \in 1..7
  BY DEF Level, Icr

(* SetDeviceInterrupt stores into the INT field only.                      *)
LEMMA IntStored ==
  ASSUME NEW ic \in [Source -> Icr], NEW s \in Source, NEW on \in BOOLEAN
  PROVE  /\ [ic EXCEPT ![s].int = on] \in [Source -> Icr]
         /\ [ic EXCEPT ![s].int = on][s].int = on
         /\ \A t \in Source \ {s} : [ic EXCEPT ![s].int = on][t] = ic[t]
  BY DEF Icr

(* A write of a whole ICR leaves the other ICRs alone.                     *)
LEMMA IcrStored ==
  ASSUME NEW ic \in [Source -> Icr], NEW s \in Source,
         NEW int \in BOOLEAN, NEW ien \in BOOLEAN, NEW lvl \in 0..7,
         NEW new, new = [ic EXCEPT ![s] = [int |-> int, ien |-> ien, lvl |-> lvl]]
  PROVE  /\ new \in [Source -> Icr]
         /\ new[s].int = int
         /\ \A t \in Source \ {s} : new[t] = ic[t]
  BY DEF Icr

(* Every call of UpdateIPL that the PCC makes with its own ICRs leaves a   *)
(* request of a legal level, and leaves it current.                        *)
LEMMA UpdateIPLIsCurrent ==
  ASSUME LinesOK, NEW ic \in [Source -> Icr], icr' = ic, UpdateIPL(ic)
  PROVE  /\ ipl' \in 0..7 /\ vector' \in Nat \cup {-1} /\ unsynced' = FALSE
         /\ RequestCurrent'
<1>1. CASE \E s \in Source :
             IsWinner(ic, s) /\ ipl' = Level(ic, s) /\ vector' = vectorBase + Vec[s]
  <2>1. PICK s \in Source :
               IsWinner(ic, s) /\ ipl' = Level(ic, s) /\ vector' = vectorBase + Vec[s]
    BY <1>1
  <2>2. Vec[s] \in 0..11 /\ vectorBase \in Bases /\ Bases \subseteq Nat
    BY VecAssumption, BaseAssumption DEF LinesOK
  <2>3. Level(ic, s) \in 1..7
    BY LevelRange
  <2>4. IsWinner(icr, s)' /\ ipl' = Level(icr, s)'
    BY <2>1 DEF IsWinner, Level, Pending
  <2>5. RequestCurrent'
    BY <2>1, <2>2, <2>4 DEF RequestCurrent
  <2> QED
    BY <2>1, <2>2, <2>3, <2>5 DEF UpdateIPL
<1>2. CASE (\A s \in Source : ~Pending(ic, s)) /\ ipl' = 0 /\ vector' = -1
  BY <1>2 DEF RequestCurrent, Pending, UpdateIPL
<1> QED
  BY <1>1, <1>2 DEF UpdateIPL

-----------------------------------------------------------------------------
(* The actions, by what they do to the ICRs.                               *)

\* The writes of an ICR.
IcrWrite ==
  \E f, ien \in BOOLEAN, lvl \in Levels :
     \/ \E s \in Latched : WriteIcr(s, f, ien, lvl)
     \/ \E d \in Device : WriteDeviceIcr(d, f, ien, lvl)
     \/ \E s \in Soft : WriteSoftIcr(s, f, ien, lvl)

\* A device drives its line, from an instruction or from its Tick.
LineChange == \E d \in Device, on \in BOOLEAN : SetDeviceInterrupt(d, on)

Event == \E s \in Latched : LatchEvent(s)

\* The two resets that reach the PCC.
BoardReset == HardwareReset \/ WatchdogReset

\* The actions that leave ICRs and request alone.
Quiet ==
  \/ TakeInterrupt \/ PassCheck \/ Idle \/ Compute
  \/ \E m \in Masks : SetMask(m) \/ Stop(m)
  \/ \E b \in Bases : WriteVectorBase(b)

(* Every step is of one of these kinds.                                    *)
LEMMA NextKinds ==
  [Next]_vars => Quiet \/ IcrWrite \/ LineChange \/ Event \/ BoardReset
                 \/ CpuReset \/ UNCHANGED vars
  BY Zenon DEF Next, CpuTurn, GuestStep, DeviceStep, DeviceAccess, DeviceTick,
     Quiet, IcrWrite, LineChange, Event, BoardReset

(* A quiet step touches neither the ICRs nor the lines nor the request.    *)
LEMMA QuietLeaves ==
  Quiet => UNCHANGED <<icr, active, line, ipl, vector, unsynced>>
  BY DEF Quiet, TakeInterrupt, PassCheck, Idle, Compute, SetMask, Stop,
     WriteVectorBase, pccVars

(* A write of an ICR stores a typed ICR, keeps the others, and ends in     *)
(* UpdateIPL. A device's INT stays latched while its line is active.       *)
LEMMA IcrWriteDoes ==
  ASSUME LinesOK, IcrWrite
  PROVE  /\ icr' \in [Source -> Icr]
         /\ UpdateIPL(icr')
         /\ UNCHANGED <<active, line, vectorBase, suppress, ran, mask, stopped>>
         /\ phase' = "check"
         /\ ActiveIsLatched => ActiveIsLatched'
<1>1. PICK f \in BOOLEAN, ien \in BOOLEAN, lvl \in Levels :
        \/ \E s \in Latched : WriteIcr(s, f, ien, lvl)
        \/ \E d \in Device : WriteDeviceIcr(d, f, ien, lvl)
        \/ \E s \in Soft : WriteSoftIcr(s, f, ien, lvl)
  BY Zenon DEF IcrWrite
<1>2. lvl \in 0..7
  BY LevelAssumption
<1>3. icr \in [Source -> Icr] /\ active \in [Device -> BOOLEAN]
  BY DEF LinesOK
<1>4. CASE \E s \in Latched : WriteIcr(s, f, ien, lvl)
  <2>1. PICK s \in Latched : WriteIcr(s, f, ien, lvl)
    BY <1>4
  <2> DEFINE int == icr[s].int /\ ~f
  <2>2. s \in Source /\ s \notin Device
    BY SourceAssumption DEF Source
  <2>3. int \in BOOLEAN
    BY Zenon
  <2>4. icr' = [icr EXCEPT ![s] = [int |-> int, ien |-> ien, lvl |-> lvl]]
    BY <2>1, Zenon DEF WriteIcr
  <2> HIDE DEF int
  <2>5. icr' \in [Source -> Icr] /\ \A t \in Source \ {s} : icr'[t] = icr[t]
    BY <1>2, <1>3, <2>2, <2>3, <2>4, IcrStored
  <2>6. UNCHANGED <<active, line, vectorBase, suppress, ran, mask, stopped>>
        /\ UpdateIPL(icr') /\ phase' = "check"
    BY <2>1 DEF WriteIcr, Instruction
  <2>7. ActiveIsLatched => ActiveIsLatched'
    BY <2>2, <2>5, <2>6 DEF ActiveIsLatched, Source
  <2> QED
    BY <2>5, <2>6, <2>7
<1>5. CASE \E d \in Device : WriteDeviceIcr(d, f, ien, lvl)
  <2>1. PICK d \in Device : WriteDeviceIcr(d, f, ien, lvl)
    BY <1>5
  <2> DEFINE int == (icr[d].int /\ ~f) \/ active[d]
  <2>2. d \in Source
    BY DEF Source
  <2>3. int \in BOOLEAN
    BY Zenon
  <2>4. icr' = [icr EXCEPT ![d] = [int |-> int, ien |-> ien, lvl |-> lvl]]
    BY <2>1, Zenon DEF WriteDeviceIcr, DeviceInt
  <2> HIDE DEF int
  <2>5. /\ icr' \in [Source -> Icr] /\ icr'[d].int = int
        /\ \A t \in Source \ {d} : icr'[t] = icr[t]
    BY <1>2, <1>3, <2>2, <2>3, <2>4, IcrStored
  <2>6. UNCHANGED <<active, line, vectorBase, suppress, ran, mask, stopped>>
        /\ UpdateIPL(icr') /\ phase' = "check"
    BY <2>1 DEF WriteDeviceIcr, Instruction
  <2>7. ActiveIsLatched => ActiveIsLatched'
    BY <2>5, <2>6 DEF ActiveIsLatched, Source, int
  <2> QED
    BY <2>5, <2>6, <2>7
<1>6. CASE \E s \in Soft : WriteSoftIcr(s, f, ien, lvl)
  <2>1. PICK s \in Soft : WriteSoftIcr(s, f, ien, lvl)
    BY <1>6
  <2>2. s \in Source /\ s \notin Device
    BY SourceAssumption DEF Source
  <2>3. icr' = [icr EXCEPT ![s] = [int |-> f, ien |-> ien, lvl |-> lvl]]
    BY <2>1, Zenon DEF WriteSoftIcr
  <2>4. icr' \in [Source -> Icr] /\ \A t \in Source \ {s} : icr'[t] = icr[t]
    BY <1>2, <1>3, <2>2, <2>3, IcrStored
  <2>5. UNCHANGED <<active, line, vectorBase, suppress, ran, mask, stopped>>
        /\ UpdateIPL(icr') /\ phase' = "check"
    BY <2>1 DEF WriteSoftIcr, Instruction
  <2>6. ActiveIsLatched => ActiveIsLatched'
    BY <2>2, <2>4, <2>5 DEF ActiveIsLatched, Source
  <2> QED
    BY <2>4, <2>5, <2>6
<1> QED
  BY <1>1, <1>4, <1>5, <1>6

(* A device's line, the line the PCC remembers and the latch move together.*)
LEMMA LineChangeDoes ==
  ASSUME LinesOK, LineChange
  PROVE  /\ LinesOK' /\ UpdateIPL(icr')
         /\ ActiveIsLatched => ActiveIsLatched'
         /\ ActiveIsDriven => ActiveIsDriven'
         /\ UNCHANGED <<mask, stopped>>
         /\ \/ suppress' = SuppressFor /\ ran' = 0
            \/ UNCHANGED <<suppress, ran>>
<1>1. PICK d \in Device, on \in BOOLEAN : SetDeviceInterrupt(d, on)
  BY DEF LineChange
<1>2. d \in Source
  BY DEF Source
<1>3. icr \in [Source -> Icr] /\ icr' = [icr EXCEPT ![d].int = on]
  BY <1>1, Zenon DEF SetDeviceInterrupt, LinesOK
<1>4. /\ icr' \in [Source -> Icr] /\ icr'[d].int = on
      /\ \A t \in Source \ {d} : icr'[t] = icr[t]
  BY <1>2, <1>3, IntStored
<1>5. /\ active' = [active EXCEPT ![d] = on] /\ line' = [line EXCEPT ![d] = on]
      /\ UpdateIPL(icr') /\ vectorBase' = vectorBase
      /\ UNCHANGED <<mask, stopped>>
      /\ \/ suppress' = SuppressFor /\ ran' = 0
         \/ UNCHANGED <<suppress, ran>>
  BY <1>1 DEF SetDeviceInterrupt, Remembered
<1>6. LinesOK'
  BY <1>4, <1>5 DEF LinesOK
<1>7. ActiveIsLatched => ActiveIsLatched'
  BY <1>4, <1>5 DEF ActiveIsLatched, Source, LinesOK
<1>8. ActiveIsDriven => ActiveIsDriven'
  BY <1>5 DEF ActiveIsDriven, LinesOK
<1> QED
  BY <1>5, <1>6, <1>7, <1>8

(* An overflow or a finished DMA latches INT of a source without a line.   *)
LEMMA EventDoes ==
  ASSUME LinesOK, Event
  PROVE  /\ LinesOK' /\ UpdateIPL(icr')
         /\ ActiveIsLatched => ActiveIsLatched'
         /\ UNCHANGED <<active, line, vectorBase, suppress, ran, mask, stopped, phase>>
<1>1. PICK s \in Latched : LatchEvent(s)
  BY DEF Event
<1>2. s \in Source /\ s \notin Device
  BY SourceAssumption DEF Source
<1>3. PICK on \in BOOLEAN : icr' = [icr EXCEPT ![s].int = on]
  BY <1>1, Zenon DEF LatchEvent
<1>4. icr' \in [Source -> Icr] /\ \A t \in Source \ {s} : icr'[t] = icr[t]
  BY <1>2, <1>3, IntStored DEF LinesOK
<1>5. UNCHANGED <<active, line, vectorBase, suppress, ran, mask, stopped, phase>>
      /\ UpdateIPL(icr')
  BY <1>1 DEF LatchEvent
<1>6. LinesOK'
  BY <1>4, <1>5 DEF LinesOK
<1>7. ActiveIsLatched => ActiveIsLatched'
  BY <1>2, <1>4, <1>5 DEF ActiveIsLatched, Source
<1> QED
  BY <1>5, <1>6, <1>7

(* A reset empties the ICRs and the remembered lines.                      *)
LEMMA BoardResetDoes ==
  ASSUME LinesOK, BoardReset
  PROVE  /\ LinesOK' /\ UpdateIPL(icr') /\ ActiveIsLatched' /\ ActiveIsDriven'
         /\ UNCHANGED <<suppress, ran, stopped>> /\ phase' = "check"
         /\ mask' \in {mask, 7}
<1>1. ClearAll /\ vectorBase' = vectorBase /\ phase' = "check" /\ mask' \in {mask, 7}
      /\ UNCHANGED <<suppress, ran, stopped>>
  BY DEF BoardReset, HardwareReset, WatchdogReset, Instruction
<1>2. line' \in [Device -> BOOLEAN]
  <2>1. CASE HardwareReset
    BY <2>1 DEF HardwareReset, LinesOK
  <2>2. CASE WatchdogReset
    BY <2>2 DEF WatchdogReset, LinesOK
  <2> QED
    BY <2>1, <2>2 DEF BoardReset
<1> DEFINE cleared == [int |-> FALSE, ien |-> FALSE, lvl |-> 0]
<1>3. icr' = [s \in Source |-> cleared] /\ UpdateIPL(icr')
  BY <1>1, Zenon DEF ClearAll
<1>4. cleared \in Icr
  BY DEF Icr
<1> HIDE DEF cleared
<1>5. icr' \in [Source -> Icr]
  BY <1>3, <1>4
<1>6. active' \in [Device -> BOOLEAN] /\ \A d \in Device : active'[d] = FALSE
  BY <1>1, Zenon DEF ClearAll
<1>7. ActiveIsLatched' /\ ActiveIsDriven'
  BY <1>6, Zenon DEF ActiveIsLatched, ActiveIsDriven
<1> QED
  BY <1>1, <1>2, <1>3, <1>5, <1>6, <1>7 DEF LinesOK

-----------------------------------------------------------------------------
(* The invariants.                                                         *)

IInv == TypeOK /\ RequestCurrent /\ ActiveIsLatched /\ ActiveIsDriven /\ Window

(* After power-on nothing is latched, asserted or suppressed.              *)
LEMMA InitEstablishes == Init => IInv
<1> SUFFICES ASSUME Init PROVE IInv
  OBVIOUS
<1> DEFINE cleared == [int |-> FALSE, ien |-> FALSE, lvl |-> 0]
<1>1. cleared \in Icr
  BY DEF Icr
<1>2. icr = [s \in Source |-> cleared]
  BY Zenon DEF Init
<1>3. \A s \in Source : icr[s].int = FALSE
  BY <1>2
<1> HIDE DEF cleared
<1>4. icr \in [Source -> Icr]
  BY <1>1, <1>2
<1>5. /\ active \in [Device -> BOOLEAN] /\ line \in [Device -> BOOLEAN]
      /\ \A d \in Device : active[d] = FALSE
  BY Zenon DEF Init
<1>6. LinesOK
  BY <1>4, <1>5, BaseAssumption DEF Init, LinesOK
<1>7. RequestOK
  BY DEF Init, RequestOK
<1>8. CountersOK /\ Window
  BY BaseAssumption DEF Init, CountersOK, Window
<1>9. FlagsOK
  BY Zenon DEF Init, FlagsOK
<1>10. RequestCurrent
  BY <1>3, Zenon DEF Init, RequestCurrent, Pending
<1>11. ActiveIsLatched /\ ActiveIsDriven
  BY <1>5, Zenon DEF ActiveIsLatched, ActiveIsDriven
<1> QED
  BY <1>6, <1>7, <1>8, <1>9, <1>10, <1>11 DEF IInv, TypeOK

(* ICRs and lines keep their types, and a line held active its latch.      *)
LEMMA LinesPreserved ==
  IInv /\ [Next]_vars => LinesOK' /\ ActiveIsLatched' /\ ActiveIsDriven'
<1> SUFFICES ASSUME IInv, [Next]_vars
             PROVE  LinesOK' /\ ActiveIsLatched' /\ ActiveIsDriven'
  OBVIOUS
<1> USE DEF IInv, TypeOK
<1>1. CASE Quiet
  <2>1. vectorBase' \in Bases
    BY <1>1 DEF Quiet, TakeInterrupt, PassCheck, Idle, Compute, SetMask, Stop,
       WriteVectorBase, pccVars, LinesOK
  <2> QED
    BY <1>1, <2>1, QuietLeaves DEF LinesOK, ActiveIsLatched, ActiveIsDriven
<1>2. CASE IcrWrite
  BY <1>2, IcrWriteDoes DEF LinesOK, ActiveIsDriven
<1>3. CASE LineChange
  BY <1>3, LineChangeDoes
<1>4. CASE Event
  BY <1>4, EventDoes DEF ActiveIsDriven
<1>5. CASE BoardReset
  BY <1>5, BoardResetDoes
<1>6. CASE CpuReset
  BY <1>6 DEF CpuReset, pccVars, LinesOK, ActiveIsLatched, ActiveIsDriven
<1>7. CASE UNCHANGED vars
  BY <1>7 DEF vars, pccVars, LinesOK, ActiveIsLatched, ActiveIsDriven
<1> QED
  BY <1>1, <1>2, <1>3, <1>4, <1>5, <1>6, <1>7, NextKinds

(* The request follows the ICRs.                                           *)
LEMMA RequestPreserved ==
  IInv /\ [Next]_vars => RequestCurrent' /\ ipl' \in 0..7 /\ vector' \in Nat \cup {-1}
<1> SUFFICES ASSUME IInv, [Next]_vars
             PROVE  RequestCurrent' /\ ipl' \in 0..7 /\ vector' \in Nat \cup {-1}
  OBVIOUS
<1> USE DEF IInv, TypeOK
<1>1. CASE Quiet \/ UNCHANGED vars
  <2>1. UNCHANGED <<icr, ipl, vector, unsynced>>
    BY <1>1, QuietLeaves DEF vars, pccVars, cpuVars
  <2> QED
    BY <2>1, Zenon DEF RequestCurrent, RequestOK, IsWinner, Pending, Level
<1>2. CASE IcrWrite \/ LineChange \/ Event \/ BoardReset
  <2>1. icr' \in [Source -> Icr] /\ UpdateIPL(icr')
    BY <1>2, IcrWriteDoes, LineChangeDoes, EventDoes, BoardResetDoes DEF LinesOK
  <2> QED
    BY <2>1, UpdateIPLIsCurrent
<1>3. CASE CpuReset
  BY <1>3 DEF CpuReset, RequestCurrent
<1> QED
  BY <1>1, <1>2, <1>3, NextKinds

(* The counters of the suppression add up to the window.                   *)
LEMMA WindowPreserved == IInv /\ [Next]_vars => CountersOK' /\ Window'
<1> SUFFICES ASSUME IInv, [Next]_vars PROVE CountersOK' /\ Window'
  OBVIOUS
<1> USE BaseAssumption DEF IInv, TypeOK, CountersOK, Window
<1>1. CASE PassCheck
  BY <1>1 DEF PassCheck, CountDown, Counted
<1>2. CASE TakeInterrupt \/ Idle \/ Compute
  BY <1>2 DEF TakeInterrupt, Idle, Compute
<1>3. CASE \E m \in Masks : SetMask(m) \/ Stop(m)
  BY <1>3 DEF SetMask, Stop
<1>4. CASE \E b \in Bases : WriteVectorBase(b)
  BY <1>4 DEF WriteVectorBase
<1>5. CASE LineChange
  BY <1>5, LineChangeDoes
<1>6. CASE IcrWrite \/ Event \/ BoardReset
  BY <1>6, IcrWriteDoes, EventDoes, BoardResetDoes
<1>7. CASE CpuReset
  BY <1>7 DEF CpuReset
<1>8. CASE UNCHANGED vars
  BY <1>8 DEF vars, cpuVars
<1> QED
  BY <1>1, <1>2, <1>3, <1>4, <1>5, <1>6, <1>7, <1>8, NextKinds DEF Quiet

(* The mask stays a level.                                                 *)
LEMMA MaskPreserved == IInv /\ [Next]_vars => mask' \in 0..7
<1> SUFFICES ASSUME IInv, [Next]_vars PROVE mask' \in 0..7
  OBVIOUS
<1> USE DEF IInv, TypeOK, RequestOK
<1>1. CASE Quiet
  BY <1>1, LevelAssumption DEF Quiet, TakeInterrupt, PassCheck, Idle, Compute,
     SetMask, Stop, WriteVectorBase
<1>2. CASE IcrWrite \/ LineChange \/ Event \/ BoardReset
  BY <1>2, IcrWriteDoes, LineChangeDoes, EventDoes, BoardResetDoes
<1>3. CASE CpuReset \/ UNCHANGED vars
  BY <1>3 DEF CpuReset, vars, cpuVars
<1> QED
  BY <1>1, <1>2, <1>3, NextKinds

(* Every step leaves the loop in one of its two places.                    *)
LEMMA FlagsPreserved == FlagsOK /\ [Next]_vars => FlagsOK'
<1> SUFFICES ASSUME FlagsOK, [Next]_vars PROVE FlagsOK'
  OBVIOUS
<1> USE Zenon DEF FlagsOK, UpdateIPL, Instruction
<1>1. CASE CpuTurn
  BY <1>1 DEF CpuTurn, TakeInterrupt, PassCheck, Idle
<1>2. CASE Compute
  BY <1>2 DEF Compute
<1>3. CASE \E m \in Masks : SetMask(m) \/ Stop(m)
  BY <1>3 DEF SetMask, Stop
<1>4. CASE \E b \in Bases : WriteVectorBase(b)
  BY <1>4 DEF WriteVectorBase
<1>5. CASE IcrWrite
  <2>1. PICK f \in BOOLEAN, ien \in BOOLEAN, lvl \in Levels :
          \/ \E s \in Latched : WriteIcr(s, f, ien, lvl)
          \/ \E d \in Device : WriteDeviceIcr(d, f, ien, lvl)
          \/ \E s \in Soft : WriteSoftIcr(s, f, ien, lvl)
    BY <1>5 DEF IcrWrite
  <2>2. CASE \E s \in Latched : WriteIcr(s, f, ien, lvl)
    BY <2>2 DEF WriteIcr
  <2>3. CASE \E d \in Device : WriteDeviceIcr(d, f, ien, lvl)
    BY <2>3 DEF WriteDeviceIcr
  <2>4. CASE \E s \in Soft : WriteSoftIcr(s, f, ien, lvl)
    BY <2>4 DEF WriteSoftIcr
  <2> QED
    BY <2>1, <2>2, <2>3, <2>4
<1>6. CASE \E d \in Device, on \in BOOLEAN : DeviceAccess(d, on)
  <2>1. stopped' = stopped /\ phase' = "check" /\ unsynced' = FALSE
    BY <1>6 DEF DeviceAccess, SetDeviceInterrupt
  <2> QED
    BY <2>1
<1>7. CASE BoardReset
  <2>1. stopped' = stopped /\ phase' = "check" /\ unsynced' = FALSE
    BY <1>7 DEF BoardReset, HardwareReset, WatchdogReset, ClearAll
  <2> QED
    BY <2>1
<1>8. CASE DeviceStep
  <2>1. stopped' = stopped /\ phase' = phase /\ unsynced' = FALSE
    BY <1>8 DEF DeviceStep, DeviceTick, LatchEvent, SetDeviceInterrupt
  <2> QED
    BY <2>1
<1>9. CASE CpuReset
  BY <1>9 DEF CpuReset
<1>10. CASE UNCHANGED vars
  BY <1>10 DEF vars, cpuVars
<1> QED
  BY <1>1, <1>2, <1>3, <1>4, <1>5, <1>6, <1>7, <1>8, <1>9, <1>10
  DEF Next, GuestStep, IcrWrite, BoardReset

(* Every step of the board preserves the invariant.                        *)
LEMMA NextPreserves == IInv /\ [Next]_vars => IInv'
  BY LinesPreserved, RequestPreserved, WindowPreserved, MaskPreserved, FlagsPreserved
  DEF IInv, TypeOK, RequestOK

LEMMA Inductive == Spec => []IInv
  BY InitEstablishes, NextPreserves, PTL DEF Spec

-----------------------------------------------------------------------------
(* Every register keeps the range the code relies on; in particular the    *)
(* suppression counter never runs below zero.                              *)
THEOREM TypeCorrect == Spec => []TypeOK
<1>1. IInv => TypeOK
  BY DEF IInv
<1> QED
  BY <1>1, Inductive, PTL

(* The CPU never sees a request the ICRs do not call for, nor misses one,  *)
(* until somebody resets the CPU without telling the PCC.                  *)
THEOREM RequestFollowsIcrs == Spec => []RequestCurrent
<1>1. IInv => RequestCurrent
  BY DEF IInv
<1> QED
  BY <1>1, Inductive, PTL

(* No order of line changes, acknowledgements and resets loses the         *)
(* interrupt of a line the PCC holds active, and that line a device drives. *)
THEOREM LevelSensitive == Spec => []LineKept
<1>1. IInv => LineKept
  BY DEF IInv, LineKept
<1> QED
  BY <1>1, Inductive, PTL

(* A SCSI assertion gives the driver its whole window of turns, for every  *)
(* window length.                                                          *)
THEOREM WindowKept == Spec => DriverWindow
<1>1. IInv => (TakeInterrupt => ran = SuppressFor)
  <2> SUFFICES ASSUME IInv, suppress = 0 PROVE ran = SuppressFor
    BY Zenon DEF TakeInterrupt
  <2> QED
    BY BaseAssumption DEF IInv, TypeOK, CountersOK, Window
<1> QED
  BY <1>1, Inductive, PTL DEF Spec, DriverWindow

-----------------------------------------------------------------------------
(* The timers: arithmetic.                                                 *)

\* Quotient and remainder.
LEMMA DivMod ==
  ASSUME NEW a \in Nat, NEW b \in Nat \ {0}
  PROVE  /\ a \div b \in Nat /\ a % b \in 0..(b - 1)
         /\ a = (a \div b) * b + (a % b)
<1>1. a \div b \in Int
  OBVIOUS
<1>2. a \div b >= 0
  OBVIOUS
<1>3. a % b \in 0..(b - 1)
  OBVIOUS
<1>4. a % b = a - b * (a \div b)
  BY SMTT(60)
<1>5. b * (a \div b) = (a \div b) * b /\ (a \div b) * b \in Int
  BY <1>1
<1>6. a = (a \div b) * b + (a % b)
  <2> DEFINE d == a \div b
             r == a % b
             m == d * b
  <2>1. r = a - m /\ m \in Int
    BY <1>4, <1>5
  <2> HIDE DEF m, r
  <2>2. a = m + r
    BY <2>1
  <2> QED
    BY <2>2 DEF m, r
<1>7. a \div b \in Nat
  <2> DEFINE d == a \div b
  <2>1. d \in Int /\ d >= 0
    BY <1>1, <1>2
  <2> HIDE DEF d
  <2>2. d \in Nat
    BY <2>1
  <2> QED
    BY <2>2 DEF d
<1> QED
  BY <1>3, <1>6, <1>7

\* Quotients are ordered as their dividends.
LEMMA DivMonotone ==
  ASSUME NEW a \in Nat, NEW c \in Nat, a <= c, NEW b \in Nat \ {0}
  PROVE  a \div b <= c \div b
  OBVIOUS

\* Less than one divisor makes no quotient.
LEMMA DivSmall ==
  ASSUME NEW b \in Nat \ {0}, NEW a \in 0..(b - 1)
  PROVE  a \div b = 0
  OBVIOUS

\* A product of a sum.
LEMMA Distribute ==
  ASSUME NEW a \in Int, NEW b \in Int, NEW c \in Int
  PROVE  (a + b) * c = a * c + b * c /\ a * c \in Int /\ b * c \in Int
  OBVIOUS

\* More overflows are later on the guest's clock.
LEMMA ProductOrdered ==
  ASSUME NEW a \in Nat, NEW b \in Nat, a <= b, NEW c \in Nat
  PROVE  a * c \in Nat /\ b * c \in Nat /\ a * c <= b * c
<1>1. b - a \in Nat
  OBVIOUS
<1>2. (b - a) * c \in Nat /\ a * c \in Nat
  BY <1>1
<1>3. (a + (b - a)) * c = a * c + (b - a) * c
  BY Distribute
<1>4. a + (b - a) = b
  OBVIOUS
<1>5. b * c = a * c + (b - a) * c
  BY <1>3, <1>4
<1> QED
  BY <1>2, <1>5

-----------------------------------------------------------------------------
(* The counter: what AdvanceTimer makes of some ticks.                     *)

CounterOK ==
  /\ count \in 0..(Wrap - 1) /\ preload \in 0..(Wrap - 1)
  /\ coc \in BOOLEAN

\* A reload value leaves room for at least one tick.
LEMMA PeriodPositive ==
  ASSUME CounterOK
  PROVE  /\ ReloadValue \in 0..(Wrap - 1)
         /\ Period \in Nat \ {0} /\ Period = Wrap - ReloadValue
<1>1. ReloadValue \in 0..(Wrap - 1)
  BY WrapAssumption DEF CounterOK, ReloadValue
<1> QED
  BY <1>1, WrapAssumption DEF Period

\* Some ticks advance the reading by as many, over any number of overflows.
LEMMA TicksAdvance ==
  ASSUME CounterOK, NEW t \in Nat, NEW o \in Nat
  PROVE  /\ CountAfter(t) \in 0..(Wrap - 1) /\ Overflows(t) \in Nat
         /\ Reading(o + Overflows(t), CountAfter(t)) = Reading(o, count) + t
         /\ Reading(o, count) \in Int
<1> DEFINE R == ReloadValue
           P == Period
           over == t - (Wrap - count)
           d == over \div P
           r == over % P
<1>1. R \in 0..(Wrap - 1) /\ P \in Nat \ {0} /\ P = Wrap - R
  BY PeriodPositive
<1>2. count \in 0..(Wrap - 1) /\ Wrap \in Nat /\ over \in Int
  BY WrapAssumption DEF CounterOK
<1>3. o * P \in Int
  BY <1>1
<1>4. Reading(o, count) = o * P + count - R /\ Reading(o, count) \in Int
  BY <1>1, <1>2, <1>3 DEF Reading
<1>5. CASE t < Wrap - count
  <2>1. Overflows(t) = 0 /\ CountAfter(t) = count + t
    BY <1>5 DEF Overflows, CountAfter
  <2>2. o + Overflows(t) = o
    BY <2>1
  <2>3. Reading(o + Overflows(t), CountAfter(t)) = o * P + (count + t) - R
    BY <2>1, <2>2 DEF Reading
  <2>4. o * P + (count + t) - R = (o * P + count - R) + t
    BY <1>1, <1>2, <1>3
  <2> HIDE DEF R, P
  <2>5. Reading(o + Overflows(t), CountAfter(t)) = Reading(o, count) + t
    BY <1>4, <2>3, <2>4
  <2>6. CountAfter(t) \in 0..(Wrap - 1) /\ Overflows(t) \in Nat
    BY <1>2, <1>5, <2>1
  <2> QED
    BY <1>4, <2>5, <2>6
<1>6. CASE ~(t < Wrap - count)
  <2>1. Overflows(t) = 1 + d /\ CountAfter(t) = R + r
    BY <1>6 DEF Overflows, CountAfter
  <2>2. over \in Nat
    BY <1>2, <1>6
  <2>3. d \in Nat /\ r \in 0..(P - 1) /\ over = d * P + r
    BY <1>1, <2>2, DivMod
  <2> HIDE DEF R, P, d, r
  <2>4. (o + (1 + d)) * P = o * P + (1 + d) * P
    BY <1>1, <2>3, Distribute
  <2>5. (1 + d) * P = 1 * P + d * P /\ 1 * P = P /\ d * P \in Int
    BY <1>1, <2>3, Distribute
  <2>6. (o + (1 + d)) * P = o * P + P + d * P
    BY <1>1, <1>3, <2>4, <2>5
  <2>7. Reading(o + Overflows(t), CountAfter(t))
          = (o + (1 + d)) * P + (R + r) - R
    BY <2>1 DEF Reading, R, P
  <2>8. (o * P + P + d * P) + (R + r) - R = (o * P + count - R) + t
    BY <1>1, <1>2, <1>3, <2>3, <2>5
  <2>9. CountAfter(t) \in 0..(Wrap - 1)
    BY <1>1, <1>2, <2>1, <2>3
  <2>10. Reading(o + Overflows(t), CountAfter(t)) = Reading(o, count) + t
    BY <1>4, <2>6, <2>7, <2>8
  <2>11. Overflows(t) \in Nat
    BY <2>1, <2>3
  <2> QED
    BY <1>4, <2>1, <2>9, <2>10, <2>11
<1> QED
  BY <1>5, <1>6

-----------------------------------------------------------------------------
(* The types of a timer.                                                   *)

\* The time a Tick credits and the ticks it makes of it.
Credit == IF elapsed > MaxCredit THEN MaxCredit ELSE elapsed
Ticks == (frac + Credit) \div PerTick

\* A Tick credits whole ticks and keeps less than one.
LEMMA CreditDivides ==
  ASSUME TimerTypeOK
  PROVE  /\ frac + Credit \in Nat /\ Ticks \in Nat
         /\ Fraction(frac + Credit) \in 0..(PerTick - 1)
<1>1. frac + Credit \in Nat
  BY TimeAssumption DEF TimerTypeOK, Credit
<1> QED
  BY <1>1, TimeAssumption, DivMod DEF Ticks, Fraction

\* What a Tick does, in the terms above.
LEMMA TickDoes ==
  ASSUME Tick
  PROVE  /\ elapsed' = 0
         /\ IF cen
              THEN /\ frac' = Fraction(frac + Credit)
                   /\ count' = CountAfter(Ticks)
                   /\ ovf' = Saturated(ovf + Overflows(Ticks))
                   /\ latch' = (latch \/ Overflows(Ticks) > 0)
                   /\ given' = IF ovf + Overflows(Ticks) < OvfCap
                                 THEN given + Ticks ELSE given
              ELSE UNCHANGED <<frac, count, ovf, latch, given>>
         /\ UNCHANGED <<preload, cen, coc, start, lastRead>>
BY DEF Tick, Credit, Ticks

\* A reading is an integer.
LEMMA ReadingInt ==
  ASSUME CounterOK, NEW o \in Nat, NEW c \in Int
  PROVE  Reading(o, c) \in Int
<1>1. Period \in Nat /\ ReloadValue \in Int
  BY PeriodPositive
<1>2. o * Period \in Int
  BY <1>1
<1> QED
  BY <1>1, <1>2 DEF Reading

\* The count a guest reads is a count.
LEMMA CurrentCountOK ==
  ASSUME TimerTypeOK
  PROVE  CurrentCount \in count..(Wrap - 1)
<1>1. frac + elapsed \in Nat
  BY TimeAssumption DEF TimerTypeOK
<1>2. (frac + elapsed) \div PerTick \in Nat
  BY <1>1, TimeAssumption, DivMod
<1> QED
  BY <1>2, WrapAssumption DEF TimerTypeOK, CurrentCount

\* A guest write starts the observation from a reading.
LEMMA StartInt ==
  ASSUME count' \in Int, preload' \in Int, ovf' \in Int, coc' \in BOOLEAN
  PROVE  Reading(ovf, count)' \in Int
<1>1. ReloadValue' \in Int
  BY DEF ReloadValue
<1>2. Period' \in Int /\ (ovf * Period)' = ovf' * Period'
  BY <1>1, WrapAssumption DEF Period
<1>3. Reading(ovf, count)' = ovf' * Period' + count' - ReloadValue'
  BY DEF Reading
<1>4. ovf' * Period' \in Int
  BY <1>2
<1> QED
  BY <1>1, <1>3, <1>4

\* Each action keeps the types.
LEMMA TypeStep == TimerTypeOK /\ [TimerNext]_timerVars => TimerTypeOK'
<1> SUFFICES ASSUME TimerTypeOK, [TimerNext]_timerVars PROVE TimerTypeOK'
  OBVIOUS
<1>a. CounterOK /\ ovf \in Nat
  BY TimeAssumption DEF TimerTypeOK, CounterOK
<1>0. ASSUME count' \in 0..(Wrap - 1), preload' \in 0..(Wrap - 1),
             cen' \in BOOLEAN, coc' \in BOOLEAN, ovf' \in 0..OvfCap, Restart
      PROVE  TimerTypeOK'
  <2>1. start' \in Int
    BY <1>0, StartInt, WrapAssumption, TimeAssumption DEF Restart
  <2> QED
    BY <1>0, <2>1 DEF TimerTypeOK, Restart
<1>1. CASE TimePasses
  BY <1>1, TimeAssumption DEF TimerTypeOK, TimePasses, regs
<1>2. CASE Tick
  <2>1. CASE cen
    <3>1. Ticks \in Nat /\ frac' \in 0..(PerTick - 1)
      BY <1>2, <2>1, CreditDivides, TickDoes
    <3>2. CountAfter(Ticks) \in 0..(Wrap - 1) /\ Overflows(Ticks) \in Nat
      BY <1>a, <3>1, TicksAdvance
    <3>3. count' \in 0..(Wrap - 1) /\ ovf' = Saturated(ovf + Overflows(Ticks))
      BY <1>2, <2>1, <3>2, TickDoes
    <3>4. ovf' \in 0..OvfCap
      BY <1>a, <3>2, <3>3, TimeAssumption DEF Saturated
    <3>5. given' \in Nat
      BY <1>2, <2>1, <3>1, TickDoes DEF TimerTypeOK
    <3>6. latch' \in BOOLEAN
      BY <1>2, <2>1, TickDoes DEF TimerTypeOK
    <3>7. elapsed' \in 0..MaxGap /\ UNCHANGED <<preload, cen, coc, start, lastRead>>
      BY <1>2, TickDoes, TimeAssumption
    <3> QED
      BY <3>1, <3>3, <3>4, <3>5, <3>6, <3>7 DEF TimerTypeOK
  <2>2. CASE ~cen
    <3>1. /\ elapsed' \in 0..MaxGap
          /\ UNCHANGED <<frac, count, ovf, latch, given, preload, cen, coc, start, lastRead>>
      BY <1>2, <2>2, TickDoes, TimeAssumption
    <3> QED
      BY <3>1 DEF TimerTypeOK
  <2> QED
    BY <2>1, <2>2 DEF TimerTypeOK
<1>3. CASE Acknowledge
  BY <1>3 DEF TimerTypeOK, Acknowledge, regs
<1>4. CASE Read
  <2>1. lastRead' \in Int
    BY <1>a, <1>4, CurrentCountOK, ReadingInt, WrapAssumption DEF Read, TimerTypeOK
  <2> QED
    BY <1>4, <2>1 DEF TimerTypeOK, Read, regs
<1>5. CASE TimerReset
  <2>1. 0 \in 0..(Wrap - 1) /\ 0 \in 0..(PerTick - 1)
    BY WrapAssumption, TimeAssumption
  <2>2. 0 \in 0..OvfCap /\ 0 \in 0..MaxGap /\ 0 \in Nat /\ 0 \in Int /\ -1 \in Int
    BY TimeAssumption
  <2>3. count' \in 0..(Wrap - 1) /\ preload' \in 0..(Wrap - 1) /\ frac' \in 0..(PerTick - 1)
    BY <1>5, <2>1 DEF TimerTypeOK, TimerReset
  <2>4. /\ cen' \in BOOLEAN /\ coc' \in BOOLEAN /\ latch' \in BOOLEAN
        /\ ovf' \in 0..OvfCap /\ elapsed' \in 0..MaxGap
    BY <1>5, <2>2 DEF TimerReset
  <2>5. given' \in Nat /\ start' \in Int /\ lastRead' \in Int
    BY <1>5, <2>2 DEF TimerReset
  <2> QED
    BY <2>3, <2>4, <2>5 DEF TimerTypeOK
<1>6. ASSUME NEW e \in BOOLEAN, NEW r \in BOOLEAN, NEW k \in BOOLEAN,
             WriteControl(e, r, k)
      PROVE  TimerTypeOK'
  <2>1. /\ count' \in 0..(Wrap - 1) /\ preload' \in 0..(Wrap - 1)
        /\ cen' \in BOOLEAN /\ coc' \in BOOLEAN /\ ovf' \in 0..OvfCap
        /\ Restart
    BY <1>6, TimeAssumption DEF TimerTypeOK, WriteControl
  <2> QED
    BY <2>1, <1>0
<1>7. ASSUME NEW p \in Preloads, WritePreload(p) PROVE TimerTypeOK'
  <2>1. /\ count' \in 0..(Wrap - 1) /\ preload' \in 0..(Wrap - 1)
        /\ cen' \in BOOLEAN /\ coc' \in BOOLEAN /\ ovf' \in 0..OvfCap
        /\ Restart
    BY <1>7, PreloadAssumption DEF TimerTypeOK, WritePreload
  <2> QED
    BY <2>1, <1>0
<1>8. ASSUME NEW p \in Preloads, WriteCount(p) PROVE TimerTypeOK'
  <2>1. /\ count' \in 0..(Wrap - 1) /\ preload' \in 0..(Wrap - 1)
        /\ cen' \in BOOLEAN /\ coc' \in BOOLEAN /\ ovf' \in 0..OvfCap
        /\ Restart
    BY <1>8, PreloadAssumption DEF TimerTypeOK, WriteCount
  <2> QED
    BY <2>1, <1>0
<1>9. CASE UNCHANGED timerVars
  BY <1>9 DEF TimerTypeOK, timerVars, regs
<1> QED
  BY <1>1, <1>2, <1>3, <1>4, <1>5, <1>6, <1>7, <1>8, <1>9 DEF TimerNext

-----------------------------------------------------------------------------
(* No tick lost.                                                           *)

\* A Tick that stays below saturation reports every overflow it makes.
LEMMA TickReports ==
  ASSUME TimerTypeOK, Tick, cen, ovf' < OvfCap
  PROVE  /\ ovf' = ovf + Overflows(Ticks) /\ Overflows(Ticks) \in Nat
         /\ ovf < OvfCap
         /\ given' = given + Ticks
<1>1. Ticks \in Nat /\ CounterOK /\ ovf \in Nat
  BY CreditDivides, TimeAssumption DEF TimerTypeOK, CounterOK
<1>2. Overflows(Ticks) \in Nat
  BY <1>1, TicksAdvance
<1>3. ovf' = Saturated(ovf + Overflows(Ticks))
  BY TickDoes
<1>4. ovf + Overflows(Ticks) < OvfCap /\ ovf' = ovf + Overflows(Ticks)
  BY <1>1, <1>2, <1>3, TimeAssumption DEF Saturated
<1> QED
  BY <1>1, <1>2, <1>4, TickDoes, TimeAssumption

\* The next state's reading, in the values of this one.
LEMMA ReadingNext ==
  ASSUME UNCHANGED <<preload, coc>>
  PROVE  Reading(ovf, count)' = Reading(ovf', count')
BY DEF Reading, Period, ReloadValue

\* An observation starts with nothing given.
LEMMA StartHolds ==
  ASSUME count' \in Int, preload' \in Int, ovf' \in Int, coc' \in BOOLEAN,
         Restart
  PROVE  Reading(ovf, count)' = start' + given'
<1>1. start' = Reading(ovf, count)' /\ given' = 0
  BY DEF Restart
<1>2. Reading(ovf, count)' \in Int
  BY StartInt
<1> QED
  BY <1>1, <1>2

\* Each action keeps the account of ticks.
LEMMA TickStep ==
  TimerTypeOK /\ TimerTypeOK' /\ NoTickLost /\ [TimerNext]_timerVars => NoTickLost'
<1> SUFFICES ASSUME TimerTypeOK, TimerTypeOK', NoTickLost,
                    [TimerNext]_timerVars, ovf' < OvfCap
             PROVE  Reading(ovf, count)' = start' + given'
  BY DEF NoTickLost
<1>a. CounterOK /\ ovf \in Nat /\ Ticks \in Nat
  BY CreditDivides, TimeAssumption DEF TimerTypeOK, CounterOK
<1>b. count' \in Int /\ preload' \in Int /\ ovf' \in Int /\ coc' \in BOOLEAN
  BY WrapAssumption, TimeAssumption DEF TimerTypeOK
<1>0. CASE UNCHANGED <<regs, given, start>>
  <2>1. ovf < OvfCap /\ Reading(ovf, count)' = Reading(ovf, count)
    BY <1>0, ReadingNext DEF regs
  <2>2. Reading(ovf, count) = start + given
    BY <2>1 DEF NoTickLost
  <2> QED
    BY <1>0, <2>1, <2>2
<1>1. CASE TimePasses
  BY <1>0, <1>1 DEF TimePasses
<1>2. CASE Tick
  <2>1. CASE cen
    <3>1. /\ ovf' = ovf + Overflows(Ticks) /\ ovf < OvfCap
          /\ given' = given + Ticks
      BY <1>2, <2>1, TickReports
    <3>2. count' = CountAfter(Ticks) /\ UNCHANGED <<preload, coc, start>>
      BY <1>2, <2>1, TickDoes
    <3>3. Reading(ovf, count)' = Reading(ovf + Overflows(Ticks), CountAfter(Ticks))
      BY <3>1, <3>2, ReadingNext
    <3>4. Reading(ovf, count)' = Reading(ovf, count) + Ticks
      BY <1>a, <3>3, TicksAdvance
    <3>5. Reading(ovf, count) = start + given
      BY <3>1 DEF NoTickLost
    <3>6. start \in Int /\ given \in Int /\ start' = start
      BY <3>2 DEF TimerTypeOK
    <3> QED
      BY <1>a, <3>1, <3>4, <3>5, <3>6
  <2>2. CASE ~cen
    BY <1>0, <1>2, <2>2, TickDoes DEF regs
  <2> QED
    BY <2>1, <2>2
<1>3. CASE Acknowledge
  BY <1>0, <1>3 DEF Acknowledge
<1>4. CASE Read
  BY <1>0, <1>4 DEF Read
<1>5. CASE TimerReset
  <2>1. start' = 0 /\ given' = 0 /\ ovf' = 0 /\ count' = 0 /\ coc' = FALSE
    BY <1>5 DEF TimerReset
  <2>2. ReloadValue' = 0
    BY <2>1 DEF ReloadValue
  <2>3. Period' = Wrap
    BY <2>2, WrapAssumption DEF Period
  <2>4. Reading(ovf, count)' = ovf' * Period' + count' - ReloadValue'
    BY DEF Reading
  <2>5. 0 * Wrap + 0 - 0 = 0 + 0
    BY WrapAssumption
  <2> QED
    BY <2>1, <2>2, <2>3, <2>4, <2>5
<1>6. ASSUME NEW e \in BOOLEAN, NEW r \in BOOLEAN, NEW k \in BOOLEAN,
             WriteControl(e, r, k)
      PROVE  Reading(ovf, count)' = start' + given'
  BY <1>b, <1>6, StartHolds DEF WriteControl
<1>7. ASSUME NEW p \in Preloads, WritePreload(p)
      PROVE  Reading(ovf, count)' = start' + given'
  BY <1>b, <1>7, StartHolds DEF WritePreload
<1>8. ASSUME NEW p \in Preloads, WriteCount(p)
      PROVE  Reading(ovf, count)' = start' + given'
  BY <1>b, <1>8, StartHolds DEF WriteCount
<1>9. CASE UNCHANGED timerVars
  BY <1>0, <1>9 DEF timerVars
<1> QED
  BY <1>1, <1>2, <1>3, <1>4, <1>5, <1>6, <1>7, <1>8, <1>9 DEF TimerNext

-----------------------------------------------------------------------------
(* The guest's clock.                                                      *)

(* What the guest has read is never ahead of what it would read now: the   *)
(* guess between two Ticks stays below the overflow, and the next Tick     *)
(* credits at least as much.                                               *)
ReadBehind ==
  lastRead # -1 /\ ovf < OvfCap => lastRead <= Reading(ovf, CurrentCount)

\* A later count reads later.
LEMMA ReadingOrdered ==
  ASSUME CounterOK, NEW o \in Nat, NEW c \in Int, NEW d \in Int, c <= d
  PROVE  Reading(o, c) <= Reading(o, d)
<1>1. Period \in Nat /\ ReloadValue \in Int
  BY PeriodPositive
<1>2. o * Period \in Int
  BY <1>1
<1> QED
  BY <1>1, <1>2 DEF Reading

\* The guess grows with the time not yet credited.
LEMMA GuessGrows ==
  ASSUME TimerTypeOK, TimePasses
  PROVE  CurrentCount <= CurrentCount'
<1> DEFINE early == (frac + elapsed) \div PerTick
           late  == (frac + (elapsed + 1)) \div PerTick
<1>1. frac \in Nat /\ elapsed \in Nat /\ PerTick \in Nat \ {0}
  BY TimeAssumption DEF TimerTypeOK
<1>2. early \in Nat /\ late \in Nat /\ early <= late
  BY <1>1, DivMod, DivMonotone
<1>3. UNCHANGED <<count, frac, cen>> /\ elapsed' = elapsed + 1
  BY DEF TimePasses, regs
<1>4. (frac' + elapsed') \div PerTick = late
  BY <1>3
<1>5. count \in Int /\ Wrap \in Int
  BY WrapAssumption DEF TimerTypeOK
<1> HIDE DEF early, late
<1>6. CurrentCount = IF ~cen THEN count
        ELSE count + (IF early > Wrap - count - 1 THEN Wrap - count - 1 ELSE early)
  BY DEF CurrentCount, early
<1>7. CurrentCount' = IF ~cen THEN count
        ELSE count + (IF late > Wrap - count - 1 THEN Wrap - count - 1 ELSE late)
  BY <1>3, <1>4 DEF CurrentCount
<1> QED
  BY <1>2, <1>5, <1>6, <1>7

\* The guess made of a count c, a fraction f and the time e since the Tick.
LEMMA GuessBounds ==
  ASSUME NEW c \in 0..(Wrap - 1), NEW f \in 0..(PerTick - 1), NEW e \in 0..MaxGap,
         NEW run \in BOOLEAN, NEW g,
         g = IF ~run THEN c
             ELSE c + (IF (f + e) \div PerTick > Wrap - c - 1
                         THEN Wrap - c - 1 ELSE (f + e) \div PerTick)
  PROVE  c \in Int /\ g \in Int /\ c <= g
<1> DEFINE extra == (f + e) \div PerTick
           room  == Wrap - c - 1
<1>1. f + e \in Nat /\ PerTick \in Nat \ {0}
  BY TimeAssumption
<1>2. extra \in Nat
  BY <1>1, DivMod
<1>3. c \in Int /\ room \in Nat
  BY WrapAssumption
<1>4. g = IF ~run THEN c ELSE c + (IF extra > room THEN room ELSE extra)
  OBVIOUS
<1> HIDE DEF extra, room
<1> QED
  BY <1>2, <1>3, <1>4

\* A guess is never below the stored count.
LEMMA GuessNotBehind ==
  ASSUME TimerTypeOK'
  PROVE  count' \in Int /\ CurrentCount' \in Int /\ count' <= CurrentCount'
<1>1. /\ count' \in 0..(Wrap - 1) /\ frac' \in 0..(PerTick - 1)
      /\ elapsed' \in 0..MaxGap /\ cen' \in BOOLEAN
  BY DEF TimerTypeOK
<1>2. CurrentCount' = IF ~cen' THEN count'
        ELSE count' + (IF (frac' + elapsed') \div PerTick > Wrap - count' - 1
                         THEN Wrap - count' - 1 ELSE (frac' + elapsed') \div PerTick)
  BY DEF CurrentCount
<1> QED
  BY <1>1, <1>2, GuessBounds

\* A guess is never above what a Tick at this moment would credit.
LEMMA GuessNotAhead ==
  ASSUME TimerTypeOK, MaxGap <= MaxCredit, cen
  PROVE  CurrentCount \in Int /\ CurrentCount <= count + Ticks
<1>1. Credit = elapsed
  BY TimeAssumption DEF TimerTypeOK, Credit
<1>2. Ticks = (frac + elapsed) \div PerTick /\ Ticks \in Nat
  BY <1>1, CreditDivides DEF Ticks
<1>3. count \in Int /\ Wrap \in Int
  BY WrapAssumption DEF TimerTypeOK
<1>4. CurrentCount = count + (IF Ticks > Wrap - count - 1
                                THEN Wrap - count - 1 ELSE Ticks)
  BY <1>2 DEF CurrentCount
<1> QED
  BY <1>2, <1>3, <1>4

\* A Tick catches up with every guess made before it.
LEMMA TickCatchesUp ==
  ASSUME TimerTypeOK, TimerTypeOK', MaxGap <= MaxCredit, Tick, ovf' < OvfCap
  PROVE  Reading(ovf, CurrentCount) <= Reading(ovf, CurrentCount)'
<1>a. CounterOK /\ ovf \in Nat /\ Ticks \in Nat /\ count \in Int
  BY CreditDivides, WrapAssumption, TimeAssumption DEF TimerTypeOK, CounterOK
<1>b. count' \in Int /\ CurrentCount' \in Int /\ count' <= CurrentCount'
  BY GuessNotBehind
<1>c. UNCHANGED <<preload, coc, cen>>
  BY TickDoes
<1>d. Reading(ovf, CurrentCount)' = Reading(ovf', CurrentCount')
  BY <1>c DEF Reading, Period, ReloadValue
<1>1. CASE cen
  <2>1. ovf' = ovf + Overflows(Ticks) /\ ovf' \in Nat
    BY <1>1, <1>a, TickReports
  <2>2. count' = CountAfter(Ticks)
    BY <1>1, TickDoes
  <2>3. Reading(ovf', count') = Reading(ovf, count) + Ticks
    BY <1>a, <2>1, <2>2, TicksAdvance
  <2>4. CurrentCount \in Int /\ CurrentCount <= count + Ticks
    BY <1>1, GuessNotAhead
  <2>5. Reading(ovf, CurrentCount) <= Reading(ovf, count + Ticks)
    BY <1>a, <2>4, ReadingOrdered
  <2>6. Reading(ovf, count + Ticks) = Reading(ovf, count) + Ticks
    <3>1. Period \in Nat /\ ReloadValue \in Int
      BY <1>a, PeriodPositive
    <3>2. ovf * Period \in Int
      BY <1>a, <3>1
    <3> QED
      BY <1>a, <3>1, <3>2 DEF Reading
  <2>7. Reading(ovf', count') <= Reading(ovf', CurrentCount')
    BY <1>a, <1>b, <2>1, ReadingOrdered
  <2>8. /\ Reading(ovf, CurrentCount) \in Int
        /\ Reading(ovf', count') \in Int
        /\ Reading(ovf', CurrentCount') \in Int
    BY <1>a, <1>b, <2>1, <2>4, ReadingInt
  <2> QED
    BY <1>d, <2>3, <2>5, <2>6, <2>7, <2>8
<1>2. CASE ~cen
  <2>1. UNCHANGED <<count, ovf>>
    BY <1>2, TickDoes
  <2>2. CurrentCount = count /\ CurrentCount' = count'
    BY <1>2, <1>c DEF CurrentCount
  <2>3. Reading(ovf, count) \in Int
    BY <1>a, ReadingInt
  <2> QED
    BY <1>d, <2>1, <2>2, <2>3
<1> QED
  BY <1>1, <1>2

\* Each action keeps the guest's last reading behind.
LEMMA ReadStep ==
  ASSUME MaxGap <= MaxCredit
  PROVE  TimerTypeOK /\ TimerTypeOK' /\ ReadBehind /\ [TimerNext]_timerVars => ReadBehind'
<1> SUFFICES ASSUME TimerTypeOK, TimerTypeOK', ReadBehind, [TimerNext]_timerVars,
                    lastRead' # -1, ovf' < OvfCap
             PROVE  lastRead' <= Reading(ovf, CurrentCount)'
  BY DEF ReadBehind
<1>a. CounterOK /\ ovf \in Nat /\ lastRead \in Int
  BY DEF TimerTypeOK, CounterOK
<1>b. CurrentCount \in Int
  BY CurrentCountOK, WrapAssumption DEF TimerTypeOK
<1>c. Reading(ovf, CurrentCount) \in Int
  BY <1>a, <1>b, ReadingInt
<1>0. CASE UNCHANGED <<regs, elapsed, lastRead>>
  <2>1. Reading(ovf, CurrentCount)' = Reading(ovf, CurrentCount)
    BY <1>0 DEF regs, Reading, Period, ReloadValue, CurrentCount
  <2> QED
    BY <1>0, <2>1 DEF ReadBehind, regs
<1>1. CASE TimePasses
  <2>1. UNCHANGED <<regs, lastRead>>
    BY <1>1 DEF TimePasses
  <2>2. Reading(ovf, CurrentCount)' = Reading(ovf, CurrentCount')
    BY <2>1 DEF regs, Reading, Period, ReloadValue
  <2>3. CurrentCount <= CurrentCount' /\ CurrentCount' \in Int
    BY <1>1, GuessGrows, GuessNotBehind
  <2>4. Reading(ovf, CurrentCount) <= Reading(ovf, CurrentCount')
    BY <1>a, <1>b, <2>3, ReadingOrdered
  <2>5. Reading(ovf, CurrentCount') \in Int
    BY <1>a, <2>3, ReadingInt
  <2>6. lastRead <= Reading(ovf, CurrentCount)
    BY <2>1 DEF ReadBehind, regs
  <2> QED
    BY <1>a, <1>c, <2>1, <2>2, <2>4, <2>5, <2>6
<1>2. CASE Tick
  <2>1. lastRead' = lastRead /\ ovf < OvfCap
    <3>1. lastRead' = lastRead /\ (~cen => ovf' = ovf)
      BY <1>2, TickDoes
    <3>2. cen => ovf < OvfCap
      BY <1>2, TickReports
    <3> QED
      BY <3>1, <3>2
  <2>2. lastRead <= Reading(ovf, CurrentCount)
    BY <2>1 DEF ReadBehind
  <2>3. Reading(ovf, CurrentCount) <= Reading(ovf, CurrentCount)'
    BY <1>2, TickCatchesUp
  <2>4. Reading(ovf, CurrentCount)' \in Int
    <3>1. count' \in Int /\ preload' \in Int /\ ovf' \in Int /\ coc' \in BOOLEAN
      BY WrapAssumption, TimeAssumption DEF TimerTypeOK
    <3>2. ReloadValue' \in Int
      BY <3>1 DEF ReloadValue
    <3>3. Period' \in Int
      BY <3>2, WrapAssumption DEF Period
    <3>4. ovf' * Period' \in Int
      BY <3>1, <3>3
    <3>5. Reading(ovf, CurrentCount)' = ovf' * Period' + CurrentCount' - ReloadValue'
      BY DEF Reading
    <3>6. CurrentCount' \in Int
      BY GuessNotBehind
    <3> QED
      BY <3>2, <3>4, <3>5, <3>6
  <2> QED
    BY <1>a, <1>c, <2>1, <2>2, <2>3, <2>4
<1>3. CASE Acknowledge
  BY <1>0, <1>3 DEF Acknowledge
<1>4. CASE Read
  <2>1. UNCHANGED <<regs, elapsed>> /\ lastRead' = Reading(ovf, CurrentCount)
    BY <1>4 DEF Read
  <2>2. Reading(ovf, CurrentCount)' = Reading(ovf, CurrentCount)
    BY <2>1 DEF regs, Reading, Period, ReloadValue, CurrentCount
  <2> QED
    BY <1>c, <2>1, <2>2
<1>5. CASE TimerReset
  BY <1>5 DEF TimerReset
<1>6. ASSUME NEW e \in BOOLEAN, NEW r \in BOOLEAN, NEW k \in BOOLEAN,
             WriteControl(e, r, k)
      PROVE  FALSE
  BY <1>6 DEF WriteControl, Restart
<1>7. ASSUME NEW p \in Preloads, WritePreload(p) PROVE FALSE
  BY <1>7 DEF WritePreload, Restart
<1>8. ASSUME NEW p \in Preloads, WriteCount(p) PROVE FALSE
  BY <1>8 DEF WriteCount, Restart
<1>9. CASE UNCHANGED timerVars
  BY <1>0, <1>9 DEF timerVars
<1> QED
  BY <1>1, <1>2, <1>3, <1>4, <1>5, <1>6, <1>7, <1>8, <1>9 DEF TimerNext

\* A reading follows the one before it.
LEMMA ReadFollows ==
  ASSUME TimerTypeOK, ReadBehind, [TimerNext]_timerVars,
         lastRead # -1, lastRead' # -1, ovf < OvfCap
  PROVE  lastRead' >= lastRead
<1>a. lastRead \in Int
  BY DEF TimerTypeOK
<1>0. CASE lastRead' = lastRead
  BY <1>a, <1>0
<1>1. CASE Read
  <2>1. lastRead' = Reading(ovf, CurrentCount) /\ lastRead <= Reading(ovf, CurrentCount)
    BY <1>1 DEF Read, ReadBehind
  <2>2. Reading(ovf, CurrentCount) \in Int
    BY CurrentCountOK, ReadingInt, WrapAssumption DEF TimerTypeOK, CounterOK
  <2> QED
    BY <1>a, <2>1, <2>2
<1>2. ASSUME NEW e \in BOOLEAN, NEW r \in BOOLEAN, NEW k \in BOOLEAN,
             WriteControl(e, r, k)
      PROVE  FALSE
  BY <1>2 DEF WriteControl, Restart
<1>3. ASSUME NEW p \in Preloads, WritePreload(p) \/ WriteCount(p) PROVE FALSE
  BY <1>3 DEF WritePreload, WriteCount, Restart
<1>4. CASE TimePasses \/ Tick \/ Acknowledge \/ TimerReset
  BY <1>0, <1>4, TickDoes DEF TimePasses, Acknowledge, TimerReset
<1>5. CASE UNCHANGED timerVars
  BY <1>0, <1>5 DEF timerVars
<1> QED
  BY <1>1, <1>2, <1>3, <1>4, <1>5 DEF TimerNext

-----------------------------------------------------------------------------
(* The theorems.                                                           *)

\* The timer after a cold start.
LEMMA InitOK == TimerInit => TimerTypeOK /\ NoTickLost /\ ReadBehind
<1> SUFFICES ASSUME TimerInit PROVE TimerTypeOK /\ NoTickLost /\ ReadBehind
  OBVIOUS
<1>1. 0 \in 0..(Wrap - 1) /\ 0 \in 0..(PerTick - 1)
  BY WrapAssumption, TimeAssumption
<1>2. 0 \in 0..OvfCap /\ 0 \in 0..MaxGap /\ 0 \in Nat /\ 0 \in Int /\ -1 \in Int
  BY TimeAssumption
<1>3. TimerTypeOK
  BY <1>1, <1>2 DEF TimerInit, TimerTypeOK
<1>4. ReloadValue = 0 /\ Period = Wrap
  BY WrapAssumption DEF TimerInit, ReloadValue, Period
<1>5. Reading(ovf, count) = 0 * Wrap + 0 - 0
  BY <1>4 DEF TimerInit, Reading
<1>6. NoTickLost
  BY <1>5, WrapAssumption DEF TimerInit, NoTickLost
<1>7. ReadBehind
  BY DEF TimerInit, ReadBehind
<1> QED
  BY <1>3, <1>6, <1>7

(* Types: the count stays below the modulus, the fraction below a tick     *)
(* and the overflow counter below its top (PccDevice.cpp 133-158), for     *)
(* any width, tick length and credit.                                      *)
THEOREM TimerTypeCorrect == TimerSpec => []TimerTypeOK
BY InitOK, TypeStep, PTL DEF TimerSpec

(* Until the overflow counter saturates, overflow counter and count show   *)
(* every tick credited since the guest's last write, however many          *)
(* overflows one Tick makes (PccDevice.cpp 133-158).                       *)
THEOREM TicksKept == TimerSpec => []NoTickLost
BY InitOK, TypeStep, TickStep, PTL DEF TimerSpec

(* When no two Ticks are further apart than the time one Tick credits, the *)
(* clock a guest builds from its readings never goes backwards             *)
(* (PccDevice.cpp 68-70 and 121-128).                                      *)
THEOREM ClockKept ==
  ASSUME MaxGap <= MaxCredit
  PROVE  TimerSpec => ClockMonotonic
<1>1. TimerSpec => [](TimerTypeOK /\ ReadBehind)
  BY InitOK, TypeStep, ReadStep, PTL DEF TimerSpec
<1>2. TimerTypeOK /\ ReadBehind /\ [TimerNext]_timerVars
        => [lastRead # -1 /\ lastRead' # -1 /\ ovf < OvfCap
              => lastRead' >= lastRead]_timerVars
  BY ReadFollows
<1> QED
  BY <1>1, <1>2, PTL DEF TimerSpec, ClockMonotonic
=============================================================================
