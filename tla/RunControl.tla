----------------------------- MODULE RunControl -----------------------------
(***************************************************************************)
(* Starting and stopping the emulation (ViewModels/MainViewModel): the UI  *)
(* thread, the emulation thread it creates and joins, and the dispatcher   *)
(* queue through which a thread that stopped by itself asks the UI thread  *)
(* to clean up. A joinable std::thread is any thread not yet joined, ended *)
(* or not.                                                                 *)
(***************************************************************************)
EXTENDS Integers

CONSTANT MaxQueue  \* bound: clean-ups waiting in the dispatcher queue

ASSUME QueueAssumption == MaxQueue \in Nat \ {0}

VARIABLES
    ui,       \* what the UI thread does: see UiState
    thread,   \* m_emulationThread: see ThreadState
    stopReq,  \* m_stopRequested
    running,  \* m_isRunning: what menus, buttons and settings go by
    cursor,   \* m_runToCursorAddress has a value
    stepOut,  \* m_stepOutSP has a value
    cpuHalted, \* the CPU's Halted flag
    queue     \* FinalizeStop calls in the dispatcher queue

runVars == <<ui, thread, stopReq, running, cursor, stepOut, cpuHalted, queue>>

\* "idle": in the message loop. "stop", "final", "full": joining in
\* StopEmulation, in FinalizeStop, in DoFullReset's Stop. "cpu": executing an
\* instruction or a reset on the CPU. "rebuild": replacing devices and memory.
UiState == {"idle", "stop", "final", "full", "cpu", "rebuild"}

\* "none": not joinable. "leaving": it has asked for the clean-up.
ThreadState == {"none", "looping", "leaving", "ended"}

Joinable == thread # "none"

-----------------------------------------------------------------------------
(* The emulation thread: EmulationThreadLoop.                              *)

\* A goal, a breakpoint, a watchpoint or a halted CPU ends the loop from the
\* inside: RequestStopOnUI, then return.
StopItself ==
    /\ thread = "looping" /\ queue < MaxQueue
    /\ thread' = "leaving" /\ queue' = queue + 1
    /\ cpuHalted' \in {cpuHalted, TRUE}
    /\ UNCHANGED <<ui, stopReq, running, cursor, stepOut>>

\* The loop condition is looked at after each batch of instructions.
SeeStopRequest ==
    /\ thread = "looping" /\ stopReq
    /\ thread' = "ended"
    /\ UNCHANGED <<ui, stopReq, running, cursor, stepOut, cpuHalted, queue>>

Leave ==
    /\ thread = "leaving"
    /\ thread' = "ended"
    /\ UNCHANGED <<ui, stopReq, running, cursor, stepOut, cpuHalted, queue>>

-----------------------------------------------------------------------------
(* Commands of the user. The menu and the keys call the handlers directly, *)
(* whatever the commands' CanExecute says.                                 *)

\* StartEmulation.
StartEmulation ==
    IF Joinable
      THEN UNCHANGED <<thread, stopReq, running>>
      ELSE thread' = "looping" /\ stopReq' = FALSE /\ running' = TRUE

Run ==
    /\ ui = "idle" /\ ~cpuHalted
    /\ cursor' = FALSE
    /\ StartEmulation
    /\ UNCHANGED <<ui, stepOut, cpuHalted, queue>>

\* Also StepOver on a subroutine call.
RunToCursor ==
    /\ ui = "idle" /\ ~cpuHalted
    /\ cursor' = TRUE
    /\ StartEmulation
    /\ UNCHANGED <<ui, stepOut, cpuHalted, queue>>

StepOut ==
    /\ ui = "idle" /\ ~cpuHalted
    /\ stepOut' = TRUE /\ cursor' = FALSE
    /\ StartEmulation
    /\ UNCHANGED <<ui, cpuHalted, queue>>

\* Step, and StepOver on any other instruction: ExecuteStep on the UI thread.
Step ==
    /\ ui = "idle" /\ ~cpuHalted
    /\ ui' = "cpu"
    /\ cpuHalted' \in BOOLEAN
    /\ UNCHANGED <<thread, stopReq, running, cursor, stepOut, queue>>

\* DoReset.
Reset ==
    /\ ui = "idle"
    /\ ui' = "cpu" /\ cpuHalted' = FALSE
    /\ UNCHANGED <<thread, stopReq, running, cursor, stepOut, queue>>

\* The end of either. Replacing the hardware ends with a reset of the CPU.
CpuDone ==
    /\ ui \in {"cpu", "rebuild"}
    /\ ui' = "idle"
    /\ cpuHalted' = (ui = "cpu" /\ cpuHalted)
    /\ UNCHANGED <<thread, stopReq, running, cursor, stepOut, queue>>

\* Mutant: the step-out goal outlives the run it was set for.
NoGoalKeepsStepOut == cursor' = FALSE /\ UNCHANGED stepOut

NoGoal == cursor' = FALSE /\ stepOut' = FALSE

\* What FinalizeStop and StopEmulation do once the thread is joined.
Cleaned == NoGoal /\ running' = FALSE /\ thread' = "none"

\* Mutant: the thread is joined without being told to stop.
StopRequestForgotten == stopReq

StopRequest == TRUE

\* StopEmulation up to its join; a thread that is not joinable is not waited for.
StopEmulation(state) ==
    /\ stopReq' = StopRequest
    /\ IF Joinable
         THEN ui' = state /\ UNCHANGED <<thread, running, cursor, stepOut>>
         ELSE Cleaned /\ ui' = IF state = "full" THEN "rebuild" ELSE "idle"

Stop ==
    /\ ui = "idle"
    /\ StopEmulation("stop")
    /\ UNCHANGED <<cpuHalted, queue>>

\* Mutant: a full reset relies on the thread having stopped itself.
MustStopIfHalted == running /\ ~cpuHalted

MustStop == running

\* DoFullReset: stop if m_isRunning, then replace devices and memory.
FullReset ==
    /\ ui = "idle"
    /\ IF MustStop
         THEN StopEmulation("full")
         ELSE ui' = "rebuild" /\ UNCHANGED <<stopReq, thread, running, cursor, stepOut>>
    /\ UNCHANGED <<cpuHalted, queue>>

\* Mutant: the clean-up marks the emulation stopped without joining it.
WaitNeverNeeded == FALSE

WaitNeeded == Joinable

CleanUpAsked == queue > 0

\* FinalizeStop, taken from the queue. It asks no thread to stop.
FinalizeStop ==
    /\ ui = "idle" /\ CleanUpAsked
    /\ queue' = queue - 1
    /\ IF WaitNeeded
         THEN ui' = "final" /\ UNCHANGED <<thread, running, cursor, stepOut>>
         ELSE NoGoal /\ running' = FALSE /\ UNCHANGED <<ui, thread>>
    /\ UNCHANGED <<stopReq, cpuHalted>>

\* std::thread::join returns once the thread has ended.
JoinReturns ==
    /\ ui \in {"stop", "final", "full"} /\ thread = "ended"
    /\ Cleaned
    /\ ui' = IF ui = "full" THEN "rebuild" ELSE "idle"
    /\ UNCHANGED <<stopReq, cpuHalted, queue>>

-----------------------------------------------------------------------------
RunInit ==
    /\ ui = "idle" /\ thread = "none" /\ stopReq = FALSE /\ running = FALSE
    /\ cursor = FALSE /\ stepOut = FALSE /\ cpuHalted = FALSE /\ queue = 0

ThreadStep == SeeStopRequest \/ Leave

UiStep == JoinReturns \/ CpuDone

UserCommand == Run \/ RunToCursor \/ StepOut \/ Step \/ Reset \/ Stop \/ FullReset

RunNext == ThreadStep \/ StopItself \/ UiStep \/ FinalizeStop \/ UserCommand

\* Both threads are scheduled. Nothing makes a guest program reach a goal, and
\* nothing makes the user give a command.
Fairness == WF_runVars(ThreadStep) /\ WF_runVars(UiStep) /\ WF_runVars(FinalizeStop)

RunSpec == RunInit /\ [][RunNext]_runVars /\ Fairness

-----------------------------------------------------------------------------
ControlOK == ui \in UiState /\ thread \in ThreadState /\ queue \in 0..MaxQueue

RunFlagsOK ==
    /\ stopReq \in BOOLEAN /\ running \in BOOLEAN /\ cpuHalted \in BOOLEAN
    /\ cursor \in BOOLEAN /\ stepOut \in BOOLEAN

RunTypeOK == ControlOK /\ RunFlagsOK

(* m_isRunning is TRUE exactly while a thread exists that was not joined:  *)
(* menus, settings and full reset, which all go by it, are never wrong     *)
(* about the other thread, however clean-ups and commands interleave.      *)
RunningIsTruthful == running <=> Joinable

(* A run that ended leaves no goal behind: the next plain Run does not     *)
(* stop at an address, or an RTS, the user asked for earlier               *)
(* (MainViewModel.cpp 1464-1465, 1498-1499).                               *)
NoStaleGoal == ~Joinable => ~cursor /\ ~stepOut

(* Devices and memory are replaced only when no emulation thread is left   *)
(* that could run on the old ones (MainViewModel.cpp 1542-1566).           *)
RebuildAlone == ui = "rebuild" => ~Joinable

(* Stop always comes back to the user: the thread sees the request even if *)
(* it was about to stop itself.                                            *)
StopReturns == ui \in {"stop", "full"} ~> ui = "idle"

(* "Stop: Halt CPU execution" (user_guide.md 59): whatever the user did    *)
(* before, the UI thread gets back to where Stop can be given.             *)
StopAvailable == []<>(ui = "idle")
=============================================================================
