----------------------------- MODULE PccTimer -----------------------------
(***************************************************************************)
(* One of the two timers of the PCC (IO/PccDevice.cpp): a 16-bit counter   *)
(* driven by the host's clock. Tick credits the wall-clock time since the  *)
(* previous Tick in one piece, after the fact; a read in between guesses   *)
(* the current count from the time not yet credited. Both timers run this  *)
(* code on fields of their own and share only the time of the last Tick.   *)
(***************************************************************************)
EXTENDS Integers

CONSTANTS
    Wrap,        \* the counter's modulus (0x10000)
    PerTick,     \* host clock units per timer tick (6250 ns)
    MaxCredit,   \* the most time one Tick credits (100 ms)
    OvfCap,      \* the overflow counter saturates here (15)
    Preloads,    \* preload values the guest writes
    MaxGap       \* bound: the longest time between two Ticks

ASSUME WrapAssumption == Wrap \in Nat /\ Wrap > 1
ASSUME TimeAssumption ==
    /\ PerTick \in Nat \ {0} /\ OvfCap \in Nat \ {0}
    /\ MaxCredit \in Nat \ {0} /\ MaxGap \in Nat
ASSUME PreloadAssumption == Preloads \subseteq 0..(Wrap - 1) /\ 0 \in Preloads

VARIABLES
    count,     \* m_timer1Count
    frac,      \* m_timer1Fractional, in host clock units
    preload,   \* m_timer1Preload
    cen,       \* control bit 2: counting
    coc,       \* control bit 1: reload the preload on overflow
    ovf,       \* m_timer1OverflowCount
    latch,     \* INT latch of m_timer1Icr
    elapsed,   \* host time since m_lastTimerTimestamp
    given,     \* ticks credited since the guest last wrote a timer register,
               \* counted until the overflow counter saturates
    start,     \* what the timer showed at that write
    lastRead   \* the guest's last reading since that write, -1 for none

regs == <<count, frac, preload, cen, coc, ovf>>
timerVars == <<regs, latch, elapsed, given, start, lastRead>>

-----------------------------------------------------------------------------
(* The counter's arithmetic.                                               *)

ReloadValue == IF coc THEN preload ELSE 0

Period == Wrap - ReloadValue

\* AdvanceTimer with ticks > 0 ticks: how often it overflows, where it stops.
Overflows(ticks) ==
    IF ticks < Wrap - count THEN 0 ELSE 1 + (ticks - (Wrap - count)) \div Period

\* Mutant: the ticks left after an overflow are dropped.
CountAfterDrop(ticks) ==
    IF ticks < Wrap - count THEN count + ticks ELSE ReloadValue

CountAfter(ticks) ==
    IF ticks < Wrap - count
      THEN count + ticks
      ELSE ReloadValue + ((ticks - (Wrap - count)) % Period)

\* Mutant: a read shows an overflow that Tick has not reported.
CurrentCountWraps ==
    IF ~cen THEN count ELSE (count + (frac + elapsed) \div PerTick) % Wrap

\* GetCurrentTimerCount: the stored count plus the time not yet credited,
\* held below the overflow that only Tick may report.
CurrentCount ==
    LET extra == (frac + elapsed) \div PerTick
        room  == Wrap - count - 1
    IN  IF ~cen THEN count
        ELSE count + (IF extra > room THEN room ELSE extra)

\* The time a guest computes from the overflow counter and a count.
Reading(o, c) == o * Period + c - ReloadValue

\* The 4-bit overflow counter stops at its top.
Saturated(o) == IF o > OvfCap THEN OvfCap ELSE o

\* Mutant: each Tick starts from a whole timer tick.
FractionDropped(time) == 0

\* The time too short for a tick is kept for the next Tick.
Fraction(time) == time % PerTick

-----------------------------------------------------------------------------
TimePasses ==
    /\ elapsed < MaxGap
    /\ elapsed' = elapsed + 1
    /\ UNCHANGED <<regs, latch, given, start, lastRead>>

\* PccDevice::Tick: credit at most MaxCredit, keep the fraction of a tick.
Tick ==
    LET credit == IF elapsed > MaxCredit THEN MaxCredit ELSE elapsed
        sum    == frac + credit
        ticks  == sum \div PerTick
        newOvf == ovf + Overflows(ticks)
    IN  /\ elapsed > 0
        /\ elapsed' = 0
        /\ IF cen
             THEN /\ frac' = Fraction(sum)
                  /\ count' = CountAfter(ticks)
                  /\ ovf' = Saturated(newOvf)
                  /\ latch' = (latch \/ Overflows(ticks) > 0)
                  /\ given' = IF newOvf < OvfCap THEN given + ticks ELSE given
             ELSE UNCHANGED <<frac, count, ovf, latch, given>>
        /\ UNCHANGED <<preload, cen, coc, start, lastRead>>

\* A guest write starts a new observation of the timer.
Restart ==
    /\ given' = 0 /\ lastRead' = -1
    /\ start' = Reading(ovf, count)'
    /\ UNCHANGED <<latch, elapsed, frac>>

\* WriteTimerControl: CCI clear reloads the counter; any write clears the
\* overflow counter. No Tick runs first.
WriteControl(enable, reload, keepCount) ==
    /\ count' = IF keepCount THEN count ELSE preload
    /\ ovf' = 0
    /\ cen' = enable /\ coc' = reload
    /\ UNCHANGED preload
    /\ Restart

WritePreload(p) ==
    /\ preload' = p
    /\ UNCHANGED <<count, cen, coc, ovf>>
    /\ Restart

WriteCount(c) ==
    /\ count' = c
    /\ UNCHANGED <<preload, cen, coc, ovf>>
    /\ Restart

\* WriteIcr with bit 7: the guest acknowledges the interrupt.
Acknowledge ==
    /\ latch /\ latch' = FALSE
    /\ UNCHANGED <<regs, elapsed, given, start, lastRead>>

\* The guest reads the overflow counter and the count with no Tick between.
Read ==
    /\ lastRead' = Reading(ovf, CurrentCount)
    /\ UNCHANGED <<regs, latch, elapsed, given, start>>

\* PccDevice::HardwareReset: the preload stays.
TimerReset ==
    /\ count' = 0 /\ frac' = 0 /\ ovf' = 0
    /\ cen' = FALSE /\ coc' = FALSE /\ latch' = FALSE
    /\ elapsed' = 0 /\ given' = 0 /\ lastRead' = -1
    /\ start' = 0
    /\ UNCHANGED preload

TimerInit ==
    /\ count = 0 /\ frac = 0 /\ preload = 0 /\ ovf = 0
    /\ cen = FALSE /\ coc = FALSE /\ latch = FALSE
    /\ elapsed = 0 /\ given = 0 /\ start = 0 /\ lastRead = -1

TimerNext ==
    \/ TimePasses \/ Tick \/ Acknowledge \/ Read \/ TimerReset
    \/ \E enable, reload, keepCount \in BOOLEAN : WriteControl(enable, reload, keepCount)
    \/ \E p \in Preloads : WritePreload(p) \/ WriteCount(p)

\* The CPU loop runs its tick handlers every TickInterval instructions.
TimerFairness == WF_timerVars(TimePasses) /\ WF_timerVars(Tick)

TimerSpec == TimerInit /\ [][TimerNext]_timerVars /\ TimerFairness

-----------------------------------------------------------------------------
TimerTypeOK ==
    /\ count \in 0..(Wrap - 1) /\ preload \in 0..(Wrap - 1)
    /\ frac \in 0..(PerTick - 1)
    /\ cen \in BOOLEAN /\ coc \in BOOLEAN /\ latch \in BOOLEAN
    /\ ovf \in 0..OvfCap /\ elapsed \in 0..MaxGap
    /\ given \in Nat /\ start \in Int /\ lastRead \in Int

(* Until the overflow counter saturates, what the timer shows is what it   *)
(* showed at the last write plus every tick credited since, however many   *)
(* overflows one Tick makes (PccDevice.cpp 133-158).                       *)
NoTickLost == ovf < OvfCap => Reading(ovf, count) = start + given

(* The clock a guest builds from the overflow counter and the count never  *)
(* goes backwards: a read must not run ahead of what the next Tick will    *)
(* credit, nor fall back at an overflow (PccDevice.cpp 121-128).           *)
ClockMonotonic ==
    [][lastRead # -1 /\ lastRead' # -1 /\ ovf < OvfCap
         => lastRead' >= lastRead]_timerVars

(* A running timer that the guest only watches overflows, whatever the     *)
(* rhythm of the Ticks: time too short for a timer tick is kept for the    *)
(* next Tick (PccDevice.cpp 84-88).                                        *)
OverflowComes == <>[][TimePasses \/ Tick \/ Read]_timerVars => <>[](cen => latch)
=============================================================================
