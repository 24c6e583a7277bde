------------------------------ MODULE CpuProofs ------------------------------
(***************************************************************************)
(* What holds of the CPU's loop (CpuFault) for any guest code and any      *)
(* depth of nested exceptions, of the thread that runs it (RunControl) for *)
(* any number of waiting clean-ups, and of the numbers that a guest        *)
(* computes word by word (MultiWord) for any width and any length.         *)
(*                                                                         *)
(* The loop's invariant follows the stack pointers through the turn:       *)
(* balanced while the instruction has not begun, and, once a fault is      *)
(* pending, balanced again as soon as the loop has rolled back. A fault in *)
(* a push or a vector read is the exception: the bus error then faults as  *)
(* well and the CPU halts.                                                 *)
(*                                                                         *)
(* The invariant of a chain of instructions relates the words it has       *)
(* written to those it has read: as far as it has come, they are the sum,  *)
(* the difference, the product or the quotient, and what is still owed to  *)
(* the next word stands in X, in Z or in the register that is carried on.  *)
(***************************************************************************)
EXTENDS CpuFault, RunControl, MultiWord, WellFoundedInduction, TLAPS

SavedOK == "sr" \in DOMAIN saved /\ "a7" \in DOMAIN saved /\ saved.sr \in Status

FlagsOK ==
    /\ sr \in Status /\ SavedOK
    /\ where \in Where /\ pending = (where # "none")
    /\ phase \in Phase /\ jit \in BOOLEAN /\ needed \in BOOLEAN

\* The stacks, for a status register and an A7 that may be the saved ones.
Balanced(s, sp) == IF s.s THEN sp = live /\ usp = User ELSE sp = User /\ ssp = live

\* Between turns and before the instruction: a fault that is left over is that
\* of an access, and the register snapshot was taken.
AtTurn ==
    phase = "turn" /\ ~halted =>
        Balanced(sr, a7) /\ (pending => jit /\ where = "access" /\ ~needed)

InDecoder ==
    phase \in {"exec", "fallback"} =>
        /\ Balanced(sr, a7) /\ saved.sr = sr /\ needed
        /\ pending => where = "access"
        /\ phase = "fallback" => jit

AtCheck ==
    phase = "check" =>
        /\ ~pending => Balanced(sr, a7)
        /\ where = "access" => Balanced(saved.sr, RolledBack)

IInv == FlagsOK /\ AtTurn /\ InDecoder /\ AtCheck

\* Reset leaves the supervisor stack empty and nothing pending.
LEMMA InitEstablishes == Init => IInv
<1> SUFFICES ASSUME Init PROVE IInv
  OBVIOUS
<1>1. sr \in Status /\ sr.s
  BY DEF Init, Status
<1>2. saved.sr \in Status /\ SavedOK
  BY <1>1 DEF Init, SavedOK
<1>3. FlagsOK
  BY <1>1, <1>2, FaultAssumptions DEF Init, FlagsOK, Where, Phase
<1>4. AtTurn
  BY <1>1 DEF Init, AtTurn, Balanced
<1> QED
  BY <1>3, <1>4 DEF Init, IInv, InDecoder, AtCheck

\* How a fault is recorded.
LEMMA FaultRecorded ==
  ASSUME FlagsOK, NEW kind \in Where, NEW outcome \in Outcome(kind), Faulted(outcome)
  PROVE  /\ where' \in Where /\ pending' = (where' # "none")
         /\ pending' => where' = IF pending THEN where ELSE kind
  BY DEF FlagsOK, Outcome, Faulted, Where

\* The snapshot, for an instruction that has not taken it.
LEMMA SnapshotTaken ==
  ASSUME FlagsOK, needed, EnsureRegSnapshot
  PROVE  needed' = FALSE /\ SavedOK' /\ saved'.sr = saved.sr /\ saved'.a7 = a7
  BY DEF FlagsOK, SavedOK, EnsureRegSnapshot, Snapshot

-----------------------------------------------------------------------------
(* One lemma for each kind of step.                                        *)

\* An interrupt, which is taken from a balanced state. Its push or vector may
\* fault, or the fault that a block has left over is still pending.
LEMMA InterruptKeeps ==
  ASSUME IInv, TakeInterrupt
  PROVE  IInv'
<1>1. Balanced(sr, a7) /\ (pending => jit /\ where = "access" /\ ~needed)
  BY DEF IInv, AtTurn, TakeInterrupt
<1>2. /\ saved' = [pc |-> pc, sr |-> sr, a7 |-> a7]
      /\ sr' = [s |-> TRUE, mask |-> TRUE]
      /\ usp' = SavedUsp(sr, a7) /\ phase' = "check"
      /\ ssp' = ssp /\ needed' = needed /\ jit' = jit
  BY DEF TakeInterrupt
<1>3. PICK outcome \in Outcome("push") \cup Outcome("vector") :
        /\ Faulted(outcome)
        /\ Pushed(ExceptionStack(sr, a7), [pc |-> pc, sr |-> sr],
                  ~pending /\ outcome # "push")
        /\ IF pending' THEN pc' = 0 /\ UNCHANGED live
                       ELSE pc' \in Address /\ live' = live + 1
  BY DEF TakeInterrupt
<1>4. /\ where' \in Where /\ pending' = (where' # "none")
      /\ pending' => where' \in {"push", "vector"} \/ (pending /\ where' = where)
  BY <1>3, FaultRecorded DEF IInv, Where
<1>5. sr' \in Status /\ SavedOK'
  BY <1>2 DEF IInv, FlagsOK, SavedOK, Status
<1>6. FlagsOK'
  BY <1>2, <1>4, <1>5 DEF IInv, FlagsOK, Phase
<1>7. ~pending' => Balanced(sr, a7)'
  BY <1>1, <1>2, <1>3 DEF Balanced, Pushed, ExceptionStack, SavedUsp
<1>8. where' = "access" => Balanced(saved.sr, RolledBack)'
  <2> SUFFICES ASSUME where' = "access" PROVE Balanced(saved.sr, RolledBack)'
    OBVIOUS
  <2>1. pending' /\ pending
    BY <1>4
  <2>2. ~needed' /\ live' = live
    BY <1>1, <1>2, <1>3, <2>1
  <2> QED
    BY <1>1, <1>2, <2>2 DEF Balanced, RolledBack, SavedUsp
<1> QED
  BY <1>2, <1>6, <1>7, <1>8 DEF IInv, AtTurn, InDecoder, AtCheck

\* An instruction begins; a fault left over stays pending.
LEMMA StartKeeps ==
  ASSUME IInv, StartInstruction
  PROVE  IInv'
<1>1. Balanced(sr, a7) /\ (pending => where = "access")
  BY DEF IInv, AtTurn, StartInstruction
<1>2. /\ saved'.sr = sr /\ SavedOK' /\ needed' = TRUE /\ phase' = "exec"
      /\ UNCHANGED <<pc, sr, stack, pending, where, stopped, halted, irq, jit, live>>
  BY DEF IInv, FlagsOK, SavedOK, StartInstruction
<1>3. FlagsOK'
  BY <1>2 DEF IInv, FlagsOK, Phase
<1> QED
  BY <1>1, <1>2, <1>3 DEF IInv, AtTurn, InDecoder, AtCheck, Balanced, stack

\* A block, whose faults wait for a later turn.
LEMMA BlockKeeps ==
  ASSUME IInv, RunBlock
  PROVE  IInv'
<1>1. Balanced(sr, a7) /\ saved.sr = sr /\ (pending => where = "access") /\ jit
  BY DEF IInv, InDecoder, RunBlock
<1>2. /\ saved'.sr = saved.sr /\ SavedOK'
      /\ UNCHANGED <<sr, stack, stopped, halted, irq, jit, live>>
  BY DEF IInv, FlagsOK, SavedOK, RunBlock, Snapshot
<1>3. Balanced(sr, a7)'
  BY <1>1, <1>2 DEF Balanced, stack
<1>4. CASE /\ \E outcome \in Outcome("access") : Faulted(outcome)
           /\ needed' = FALSE /\ phase' = "turn"
  <2>1. /\ where' \in Where /\ pending' = (where' # "none")
        /\ pending' => where' = "access"
    BY <1>1, <1>4, FaultRecorded DEF IInv, Where
  <2>2. FlagsOK'
    BY <1>2, <1>4, <2>1 DEF IInv, FlagsOK, Phase
  <2> QED
    BY <1>1, <1>2, <1>3, <1>4, <2>1, <2>2 DEF IInv, AtTurn, InDecoder, AtCheck
<1>5. CASE needed' = TRUE /\ phase' = "fallback" /\ UNCHANGED <<pc, pending, where>>
  <2>1. FlagsOK'
    BY <1>2, <1>5 DEF IInv, FlagsOK, Phase
  <2> QED
    BY <1>1, <1>2, <1>3, <1>5, <2>1 DEF IInv, AtTurn, InDecoder, AtCheck
<1> QED
  BY <1>4, <1>5 DEF RunBlock

\* Where an instruction ends, for whatever it has done to the state.
LEMMA DecodedKeeps ==
  ASSUME FlagsOK', phase' = Decoded, phase = "exec" \/ (phase = "fallback" /\ jit'),
         ~pending' => Balanced(sr, a7)',
         where' = "access" => Balanced(saved.sr, RolledBack)',
         phase = "fallback" => Balanced(sr, a7)' /\ ~needed' /\ where' \in {"none", "access"}
  PROVE  IInv'
<1>1. CASE phase = "exec"
  <2>1. phase' = "check"
    BY <1>1 DEF Decoded
  <2> QED
    BY <2>1 DEF IInv, AtTurn, InDecoder, AtCheck
<1>2. CASE phase = "fallback"
  <2>1. phase' = "turn" /\ (pending' => where' = "access")
    BY <1>2 DEF Decoded, FlagsOK
  <2> QED
    BY <1>2, <2>1 DEF IInv, AtTurn, InDecoder, AtCheck
<1> QED
  BY <1>1, <1>2

\* An access that faults leaves A7 and SR alone.
LEMMA AccessKeeps ==
  ASSUME IInv, FetchFaults \/ MemoryInstruction
  PROVE  IInv'
<1>1. /\ phase \in {"exec", "fallback"} /\ \E outcome \in Outcome("access") : Faulted(outcome)
      /\ EnsureRegSnapshot /\ phase' = Decoded
      /\ UNCHANGED <<sr, stack, stopped, halted, irq, jit, live>>
  BY DEF FetchFaults, MemoryInstruction, Decoding
<1>2. Balanced(sr, a7) /\ saved.sr = sr /\ needed /\ (pending => where = "access")
      /\ (phase = "fallback" => jit)
  BY <1>1 DEF IInv, InDecoder
<1>3. /\ where' \in Where /\ pending' = (where' # "none")
      /\ pending' => where' = "access"
  BY <1>1, <1>2, FaultRecorded DEF IInv, Where
<1>4. needed' = FALSE /\ SavedOK' /\ saved'.sr = saved.sr /\ saved'.a7 = a7
  BY <1>1, <1>2, SnapshotTaken DEF IInv
<1>5. FlagsOK'
  BY <1>1, <1>3, <1>4 DEF IInv, FlagsOK, Phase, Decoded
<1>6. Balanced(sr, a7)'
  BY <1>1, <1>2 DEF Balanced, stack
<1>7. Balanced(saved.sr, RolledBack)'
  BY <1>1, <1>2, <1>4 DEF Balanced, RolledBack, stack
<1>8. where' \in {"none", "access"}
  BY <1>3
<1> QED
  BY <1>1, <1>2, <1>4, <1>5, <1>6, <1>7, <1>8, DecodedKeeps

\* An instruction of registers only, which takes no snapshot.
LEMMA FastKeeps ==
  ASSUME IInv, FastInstruction
  PROVE  IInv'
<1>1. /\ phase = "exec" /\ ~pending /\ phase' = "check"
      /\ UNCHANGED <<sr, stack, pending, where, needed, saved, jit, live, halted>>
  BY DEF FastInstruction, Decoding, Decoded
<1>2. Balanced(sr, a7) /\ where = "none"
  BY <1>1 DEF IInv, InDecoder, FlagsOK
<1>3. FlagsOK'
  BY <1>1 DEF IInv, FlagsOK, SavedOK, Phase
<1> QED
  BY <1>1, <1>2, <1>3 DEF IInv, AtTurn, InDecoder, AtCheck, Balanced, stack

\* Loading SR, from an operand or from a frame.
LEMMA StatusKeeps ==
  ASSUME IInv, LoadStatus \/ Rte
  PROVE  IInv'
<1>1. /\ phase = "exec" /\ ~pending /\ sr.s /\ phase' = "check"
      /\ EnsureRegSnapshot
      /\ UNCHANGED <<usp, frames, halted, irq, jit>>
  BY DEF LoadStatus, Rte, Decoding, Decoded
<1>2. Balanced(sr, a7) /\ saved.sr = sr /\ needed /\ where = "none" /\ a7 = live /\ usp = User
  BY <1>1 DEF IInv, InDecoder, FlagsOK, Balanced
<1>3. needed' = FALSE /\ SavedOK' /\ saved'.sr = saved.sr /\ saved'.a7 = a7
  BY <1>1, <1>2, SnapshotTaken DEF IInv
<1>4. /\ where' \in Where /\ pending' = (where' # "none") /\ sr' \in Status
      /\ \E sp : /\ SetSR(sr', sp)
                 /\ IF pending' THEN live' = live ELSE sp = live'
  <2>1. CASE LoadStatus
    <3>1. PICK outcome \in Outcome("access"), new \in Status :
             Faulted(outcome) /\ SetSR(new, a7)
      BY <2>1 DEF LoadStatus
    <3>2. live' = live /\ sr' = new
      BY <2>1, <3>1 DEF LoadStatus, SetSR
    <3>3. where' \in Where /\ pending' = (where' # "none")
      BY <3>1, FaultRecorded DEF IInv, Where
    <3> QED
      BY <1>2, <3>1, <3>2, <3>3
  <2>2. CASE Rte
    <3>1. PICK outcome \in Outcome("access"), new \in Status :
             Faulted(outcome) /\ SetSR(new, Popped(a7))
      BY <2>2 DEF Rte
    <3>2. sr' = new /\ IF pending' THEN live' = live ELSE live' = Popped(a7)
      BY <1>2, <2>2, <3>1 DEF Rte, SetSR, Popped
    <3>3. where' \in Where /\ pending' = (where' # "none")
      BY <3>1, FaultRecorded DEF IInv, Where
    <3> QED
      BY <3>1, <3>2, <3>3
  <2> QED
    BY <2>1, <2>2
<1>5. FlagsOK'
  BY <1>1, <1>3, <1>4 DEF IInv, FlagsOK, Phase
<1>6. ~pending' => Balanced(sr, a7)'
  BY <1>1, <1>2, <1>4 DEF Balanced, SetSR
<1>7. pending' => Balanced(saved.sr, RolledBack)'
  BY <1>1, <1>2, <1>3, <1>4 DEF Balanced, RolledBack
<1> QED
  BY <1>1, <1>4, <1>5, <1>6, <1>7 DEF IInv, AtTurn, InDecoder, AtCheck

\* An exception of the instruction; a fault in it is fatal.
LEMMA RaiseKeeps ==
  ASSUME IInv, RaiseException
  PROVE  IInv'
<1>1. /\ phase = "exec" /\ ~pending /\ phase' = "check"
      /\ usp' = SavedUsp(sr, a7) /\ EnsureRegSnapshot
      /\ UNCHANGED <<ssp, stopped, halted, irq, jit>>
  BY DEF RaiseException, Decoding, Decoded
<1>2. Balanced(sr, a7) /\ saved.sr = sr /\ needed /\ where = "none"
  BY <1>1 DEF IInv, InDecoder, FlagsOK
<1>3. needed' = FALSE /\ SavedOK'
  BY <1>1, <1>2, SnapshotTaken DEF IInv
<1>4. PICK outcome \in Outcome("push") \cup Outcome("vector"), next \in Address :
        /\ Faulted(outcome)
        /\ IF outcome = "push"
             THEN /\ IF sr.s THEN Pushed(a7, [pc |-> next, sr |-> sr], FALSE)
                             ELSE UNCHANGED <<a7, frames>>
                  /\ pc' = next /\ UNCHANGED <<sr, live>>
             ELSE /\ Pushed(ExceptionStack(sr, a7), [pc |-> next, sr |-> sr], TRUE)
                  /\ sr' = [sr EXCEPT !.s = TRUE]
                  /\ IF pending' THEN pc' = 0 /\ UNCHANGED live
                                 ELSE pc' \in Address /\ live' = live + 1
  BY DEF RaiseException
<1>5. /\ where' \in Where /\ pending' = (where' # "none")
      /\ pending' => where' \in {"push", "vector"}
  BY <1>1, <1>4, FaultRecorded DEF IInv, Where
<1>6. sr' \in Status /\ (outcome # "push" => sr'.s)
  BY <1>4 DEF IInv, FlagsOK, Status
<1>7. FlagsOK'
  BY <1>1, <1>3, <1>5, <1>6 DEF IInv, FlagsOK, Phase
<1>8. ~pending' => Balanced(sr, a7)'
  <2> SUFFICES ASSUME ~pending' PROVE Balanced(sr, a7)'
    OBVIOUS
  <2>1. outcome # "push"
    BY <1>4 DEF Faulted
  <2> QED
    BY <1>1, <1>2, <1>4, <1>6, <2>1 DEF Balanced, Pushed, ExceptionStack, SavedUsp
<1> QED
  BY <1>1, <1>5, <1>7, <1>8 DEF IInv, AtTurn, InDecoder, AtCheck

\* The bus error. Its own frame gets through only where the fault was that of
\* an access, and then it lies on the stack the loop has rolled back to.
LEMMA BusErrorKeeps ==
  ASSUME IInv, ~SplitVectors, HandleBusError
  PROVE  IInv'
<1>1. /\ phase = "check" /\ pending /\ phase' = "turn" /\ pending' = FALSE /\ where' = "none"
      /\ usp' = SavedUsp(saved.sr, RolledBack)
      /\ sr' = [saved.sr EXCEPT !.s = TRUE]
      /\ UNCHANGED <<ssp, needed, saved, stopped, irq, jit>>
  BY DEF HandleBusError
<1>2. PICK double \in FrameFaults :
        /\ Pushed(ExceptionStack(saved.sr, RolledBack),
                  [pc |-> saved.pc, sr |-> saved.sr], ~double)
        /\ halted' = double
        /\ IF double THEN pc' = saved.pc /\ UNCHANGED live
                     ELSE pc' \in Address /\ live' = live + 1
  BY DEF HandleBusError
<1>3. sr' \in Status /\ sr'.s
  BY <1>1 DEF IInv, FlagsOK, SavedOK, Status
<1>4. FlagsOK'
  BY <1>1, <1>3 DEF IInv, FlagsOK, SavedOK, Phase, Where
<1>5. ~halted' => Balanced(sr, a7)'
  <2> SUFFICES ASSUME ~halted' PROVE Balanced(sr, a7)'
    OBVIOUS
  <2>1. double = FALSE
    BY <1>2 DEF FrameFaults
  <2>2. where = "access"
    BY <1>1, <1>2, <2>1 DEF FrameFaults, IInv, FlagsOK, Where
  <2>3. Balanced(saved.sr, RolledBack)
    BY <1>1, <2>2 DEF IInv, AtCheck
  <2>4. a7' = live' /\ usp' = User
    BY <1>1, <1>2, <2>1, <2>3 DEF Balanced, Pushed, ExceptionStack, SavedUsp
  <2> QED
    BY <1>3, <2>4 DEF Balanced
<1> QED
  BY <1>1, <1>4, <1>5 DEF IInv, AtTurn, InDecoder, AtCheck

\* Every step of the loop, with the vectors on one page.
LEMMA NextPreserves == IInv /\ ~SplitVectors /\ [Next]_vars => IInv'
<1> SUFFICES ASSUME IInv, ~SplitVectors, [Next]_vars PROVE IInv'
  OBVIOUS
<1>1. CASE TakeInterrupt \/ StartInstruction \/ RunBlock
  BY <1>1, InterruptKeeps, StartKeeps, BlockKeeps
<1>2. CASE Decode
  BY <1>2, AccessKeeps, FastKeeps, StatusKeeps, RaiseKeeps DEF Decode
<1>3. CASE NoFault
  <2>1. /\ phase = "check" /\ ~pending /\ phase' = "turn"
        /\ UNCHANGED <<pc, sr, stack, pending, where, needed, saved, stopped,
                       halted, irq, jit, live>>
    BY <1>3 DEF NoFault
  <2>2. FlagsOK'
    BY <2>1 DEF IInv, FlagsOK, SavedOK, Phase
  <2>3. Balanced(sr, a7)'
    BY <2>1 DEF IInv, AtCheck, Balanced, stack
  <2> QED
    BY <2>1, <2>2, <2>3 DEF IInv, AtTurn, InDecoder, AtCheck
<1>4. CASE HandleBusError
  BY <1>4, BusErrorKeeps
<1>5. CASE IrqChanges \/ UNCHANGED vars
  <2>1. UNCHANGED <<pc, sr, stack, pending, where, needed, saved, stopped,
                    halted, jit, phase, live>>
    BY <1>5 DEF IrqChanges, vars, stack
  <2>2. FlagsOK'
    BY <2>1 DEF IInv, FlagsOK, SavedOK
  <2>3. AtTurn' /\ InDecoder' /\ AtCheck'
    BY <2>1 DEF IInv, AtTurn, InDecoder, AtCheck, Balanced, RolledBack, stack
  <2> QED
    BY <2>2, <2>3 DEF IInv
<1> QED
  BY <1>1, <1>2, <1>3, <1>4, <1>5 DEF Next

(* No fault in a push, a pop, a vector read or an operand leaks a frame or *)
(* hands the user program the supervisor's stack, however deep exceptions  *)
(* nest and whatever the JIT does. It needs the vectors on one page: with  *)
(* the bus error's vector on a readable page and an interrupt's not, the   *)
(* rollback takes the A7 of after the interrupt's push (MC68030.cpp 612).  *)
THEOREM StacksKept ==
  ASSUME ~SplitVectors
  PROVE  Spec => []StackBalanced
<1>1. IInv => StackBalanced
  BY DEF IInv, AtTurn, StackBalanced, Balanced
<1> QED
  BY <1>1, InitEstablishes, NextPreserves, PTL DEF Spec

-----------------------------------------------------------------------------
(* The interpreter, for which the vectors may be on any pages.             *)

\* Only the JIT runs the decoder as a fallback, and only the JIT leaves a turn
\* without a look at the flag.
Looked == (phase = "fallback" => jit) /\ (phase = "turn" /\ pending => jit)

\* Every step, wherever the vectors are.
LEMMA LookedPreserved == Looked /\ [Next]_vars => Looked'
<1> SUFFICES ASSUME Looked, [Next]_vars PROVE Looked'
  OBVIOUS
<1>1. CASE TakeInterrupt \/ StartInstruction \/ RunBlock
  BY <1>1 DEF Looked, TakeInterrupt, StartInstruction, RunBlock
<1>2. CASE Decode
  <2>1. jit' = jit /\ phase' = Decoded /\ phase \in {"exec", "fallback"}
    BY <1>2 DEF Decode, FetchFaults, FastInstruction, MemoryInstruction, LoadStatus,
                Rte, RaiseException, Decoding
  <2> QED
    BY <2>1 DEF Looked, Decoded
<1>3. CASE NoFault \/ HandleBusError
  BY <1>3 DEF Looked, NoFault, HandleBusError
<1>4. CASE IrqChanges \/ UNCHANGED vars
  BY <1>4 DEF Looked, IrqChanges, vars
<1> QED
  BY <1>1, <1>2, <1>3, <1>4 DEF Next

(* Without the JIT no turn begins with a fault the guest was not told of.  *)
THEOREM InterpreterLooks == Spec => []FaultTaken
<1>1. Init => Looked
  BY DEF Init, Looked
<1>2. Looked => FaultTaken
  BY DEF Looked, FaultTaken
<1> QED
  BY <1>1, <1>2, LookedPreserved, PTL DEF Spec
-----------------------------------------------------------------------------
(* The thread that runs the loop. Its invariant is the conjunction of the  *)
(* four checked ones: each needs the others, because the handlers go by    *)
(* m_isRunning where they mean the thread.                                 *)

RunInv == RunTypeOK /\ RunningIsTruthful /\ NoStaleGoal /\ RebuildAlone

(* The program starts with no thread, no goal and nothing running.         *)
LEMMA RunInitEstablishes == RunInit => RunInv
<1> SUFFICES ASSUME RunInit PROVE RunInv
  OBVIOUS
<1>1. ControlOK
  BY QueueAssumption DEF RunInit, ControlOK, UiState, ThreadState
<1>2. RunFlagsOK
  BY Zenon DEF RunInit, RunFlagsOK
<1>3. RunningIsTruthful /\ NoStaleGoal /\ RebuildAlone
  BY Zenon DEF RunInit, RunningIsTruthful, NoStaleGoal, RebuildAlone, Joinable
<1> QED
  BY <1>1, <1>2, <1>3 DEF RunInv, RunTypeOK

(* Where the two threads are, and how many clean-ups wait.                 *)
LEMMA ControlPreserved == ControlOK /\ [RunNext]_runVars => ControlOK'
<1> SUFFICES ASSUME ControlOK, [RunNext]_runVars PROVE ControlOK'
  OBVIOUS
<1> USE DEF ControlOK, UiState, ThreadState
<1>1. CASE ThreadStep \/ StopItself
  <2>1. CASE StopItself
    <3>1. thread = "looping" /\ thread' = "leaving" /\ queue < MaxQueue
          /\ queue' = queue + 1 /\ ui' = ui
      BY <2>1, Zenon DEF StopItself
    <3> QED
      BY <3>1, QueueAssumption
  <2>2. CASE ThreadStep
    BY <2>2 DEF ThreadStep, SeeStopRequest, Leave
  <2> QED
    BY <1>1, <2>1, <2>2
<1>2. CASE JoinReturns \/ CpuDone \/ FinalizeStop
  BY <1>2, QueueAssumption DEF JoinReturns, CpuDone, FinalizeStop, CleanUpAsked, Cleaned
<1>3. CASE Run \/ RunToCursor \/ StepOut \/ Step \/ Reset
  BY <1>3 DEF Run, RunToCursor, StepOut, Step, Reset, StartEmulation
<1>4. CASE Stop \/ FullReset
  BY <1>4 DEF Stop, FullReset, StopEmulation, Cleaned
<1>5. CASE UNCHANGED runVars
  BY <1>5 DEF runVars
<1> QED
  BY <1>1, <1>2, <1>3, <1>4, <1>5 DEF RunNext, UiStep, UserCommand

(* The flags stay flags.                                                   *)
LEMMA RunFlagsPreserved == RunFlagsOK /\ [RunNext]_runVars => RunFlagsOK'
<1> SUFFICES ASSUME RunFlagsOK, [RunNext]_runVars PROVE RunFlagsOK'
  OBVIOUS
<1> USE DEF RunFlagsOK
<1>1. CASE ThreadStep
  BY <1>1, Zenon DEF ThreadStep, SeeStopRequest, Leave
<1>2. CASE StopItself
  BY <1>2, Zenon DEF StopItself
<1>3. CASE JoinReturns
  BY <1>3, Zenon DEF JoinReturns, Cleaned, NoGoal
<1>4. CASE CpuDone
  BY <1>4, Zenon DEF CpuDone
<1>5. CASE FinalizeStop
  BY <1>5, Zenon DEF FinalizeStop, NoGoal
<1>6. CASE Run \/ RunToCursor \/ StepOut
  BY <1>6, Zenon DEF Run, RunToCursor, StepOut, StartEmulation
<1>7. CASE Step \/ Reset
  BY <1>7, Zenon DEF Step, Reset
<1>8. CASE Stop
  BY <1>8, Zenon DEF Stop, StopEmulation, StopRequest, Cleaned, NoGoal
<1>9. CASE FullReset
  BY <1>9, Zenon DEF FullReset, StopEmulation, StopRequest, Cleaned, NoGoal
<1>10. CASE UNCHANGED runVars
  BY <1>10, Zenon DEF runVars
<1> QED
  BY <1>1, <1>2, <1>3, <1>4, <1>5, <1>6, <1>7, <1>8, <1>9, <1>10
  DEF RunNext, UiStep, UserCommand

(* Flags and thread agree after every step: a start sets a goal only with  *)
(* a thread that may reach it, and a stop lowers m_isRunning, drops the    *)
(* goals and joins the thread together.                                    *)
LEMMA AgreementPreserved ==
  RunInv /\ [RunNext]_runVars => (RunningIsTruthful /\ NoStaleGoal)'
<1> SUFFICES ASSUME RunInv, [RunNext]_runVars PROVE (RunningIsTruthful /\ NoStaleGoal)'
  OBVIOUS
<1> USE DEF RunInv, RunningIsTruthful, NoStaleGoal, Joinable
<1>1. CASE ThreadStep \/ StopItself
  BY <1>1 DEF ThreadStep, SeeStopRequest, Leave, StopItself
<1>2. CASE JoinReturns
  BY <1>2, Zenon DEF JoinReturns, Cleaned, NoGoal
<1>3. CASE FinalizeStop
  <2>1. CASE thread = "none"
    BY <1>3, <2>1, Zenon DEF FinalizeStop, WaitNeeded, NoGoal
  <2>2. CASE thread # "none"
    BY <1>3, <2>2, Zenon DEF FinalizeStop, WaitNeeded
  <2> QED
    BY <2>1, <2>2
<1>4. CASE Run \/ RunToCursor \/ StepOut
  <2>1. CASE thread = "none"
    BY <1>4, <2>1 DEF Run, RunToCursor, StepOut, StartEmulation
  <2>2. CASE thread # "none"
    BY <1>4, <2>2, Zenon DEF Run, RunToCursor, StepOut, StartEmulation
  <2> QED
    BY <2>1, <2>2
<1>5. CASE Step \/ Reset \/ CpuDone
  <2>1. thread' = thread /\ running' = running /\ cursor' = cursor /\ stepOut' = stepOut
    BY <1>5, Zenon DEF Step, Reset, CpuDone
  <2> QED
    BY <2>1, Zenon
<1>6. CASE Stop
  <2>1. CASE thread = "none"
    BY <1>6, <2>1, Zenon DEF Stop, StopEmulation, Cleaned, NoGoal
  <2>2. CASE thread # "none"
    BY <1>6, <2>2, Zenon DEF Stop, StopEmulation
  <2> QED
    BY <2>1, <2>2
<1>7. CASE FullReset
  <2>1. CASE thread = "none"
    BY <1>7, <2>1, Zenon DEF FullReset, MustStop, StopEmulation, Cleaned, NoGoal
  <2>2. CASE thread # "none"
    BY <1>7, <2>2, Zenon DEF FullReset, MustStop, StopEmulation
  <2> QED
    BY <2>1, <2>2
<1>8. CASE UNCHANGED runVars
  BY <1>8, Zenon DEF runVars
<1> QED
  BY <1>1, <1>2, <1>3, <1>4, <1>5, <1>6, <1>7, <1>8
  DEF RunNext, UiStep, UserCommand

(* The hardware is replaced only after a join, or when m_isRunning says    *)
(* that there is nothing to join; while it is, nobody starts a thread.     *)
LEMMA RebuildPreserved == RunInv /\ [RunNext]_runVars => RebuildAlone'
<1> SUFFICES ASSUME RunInv, [RunNext]_runVars PROVE RebuildAlone'
  OBVIOUS
<1> USE DEF RunInv, RunningIsTruthful, RebuildAlone, Joinable
<1>1. CASE ThreadStep \/ StopItself
  BY <1>1 DEF ThreadStep, SeeStopRequest, Leave, StopItself
<1>2. CASE JoinReturns \/ CpuDone
  BY <1>2, Zenon DEF JoinReturns, CpuDone, Cleaned
<1>3. CASE FinalizeStop \/ Run \/ RunToCursor \/ StepOut \/ Step \/ Reset
  BY <1>3 DEF FinalizeStop, Run, RunToCursor, StepOut, Step, Reset
<1>4. CASE Stop
  BY <1>4 DEF Stop, StopEmulation, Cleaned
<1>5. CASE FullReset
  BY <1>5 DEF FullReset, MustStop, StopEmulation, Cleaned
<1>6. CASE UNCHANGED runVars
  BY <1>6 DEF runVars
<1> QED
  BY <1>1, <1>2, <1>3, <1>4, <1>5, <1>6 DEF RunNext, UiStep, UserCommand

(* Every step of the program preserves the invariant.                      *)
LEMMA RunNextPreserves == RunInv /\ [RunNext]_runVars => RunInv'
  BY ControlPreserved, RunFlagsPreserved, AgreementPreserved, RebuildPreserved
  DEF RunInv, RunTypeOK

LEMMA RunInductive == RunSpec => []RunInv
  BY RunInitEstablishes, RunNextPreserves, PTL DEF RunSpec

(* The variables keep their types; the queue never exceeds its bound.      *)
THEOREM RunTypeCorrect == RunSpec => []RunTypeOK
<1>1. RunInv => RunTypeOK
  BY DEF RunInv
<1> QED
  BY <1>1, RunInductive, PTL

(* m_isRunning tells the truth about the emulation thread.                 *)
THEOREM RunningTruth == RunSpec => []RunningIsTruthful
<1>1. RunInv => RunningIsTruthful
  BY DEF RunInv
<1> QED
  BY <1>1, RunInductive, PTL

(* A finished run leaves no run-to-cursor and no step-out goal.            *)
THEOREM GoalsCleared == RunSpec => []NoStaleGoal
<1>1. RunInv => NoStaleGoal
  BY DEF RunInv
<1> QED
  BY <1>1, RunInductive, PTL

(* The hardware is never replaced under an emulation thread.               *)
THEOREM RebuildSafe == RunSpec => []RebuildAlone
<1>1. RunInv => RebuildAlone
  BY DEF RunInv
<1> QED
  BY <1>1, RunInductive, PTL

-----------------------------------------------------------------------------
\* From zero upwards, one step after the other.
LEMMA Climbs ==
  ASSUME NEW n \in Nat, NEW S, 0 \in S, \A m \in 0..n - 1 : m \in S => m + 1 \in S
  PROVE  \A m \in 0..n : m \in S
<1> DEFINE T == {m \in 0..n : m \notin S}
           R == OpToRel(<, Nat)
<1> SUFFICES ASSUME T # {} PROVE FALSE
  OBVIOUS
<1>1. T \in SUBSET Nat
  OBVIOUS
<1>2. IsWellFoundedOn(R, Nat)
  BY NatLessThanWellFounded
<1>3. \A x, y \in Nat : y < x => <<y, x>> \in R
  <2> SUFFICES ASSUME NEW x \in Nat, NEW y \in Nat, y < x PROVE <<y, x>> \in R
    OBVIOUS
  <2> DEFINE ss == <<y, x>>
  <2>1. ss \in Nat \X Nat /\ ss[1] = y /\ ss[2] = x
    OBVIOUS
  <2> HIDE DEF ss
  <2>2. ss \in R
    BY <2>1 DEF OpToRel
  <2> QED
    BY <2>2 DEF ss
<1> HIDE DEF R
<1>4. \E x \in T : \A y \in T : ~ (<<y, x>> \in R)
  <2> HIDE DEF T
  <2> QED
    BY <1>1, <1>2, WFMin
<1>5. PICK x \in T : \A y \in T : ~ (<<y, x>> \in R)
  BY <1>4
<1>6. x \in 1..n /\ x - 1 \in 0..n - 1 /\ (x - 1) + 1 = x /\ x \notin S
  OBVIOUS
<1>7. x - 1 \in T
  BY <1>6
<1>8. <<x - 1, x>> \in R
  BY <1>1, <1>3, <1>6, <1>7
<1> QED
  BY <1>5, <1>7, <1>8

\* A recursion over 0 .. n has a solution.
Solves(f, n, V, z, G) ==
  f \in [0..n -> V] /\ \A k \in 0..n : f[k] = IF k = 0 THEN z ELSE G[k][f[k - 1]]

\* Recursions of one step to the next have a solution.
LEMMA Recursion ==
  ASSUME NEW n \in Nat, NEW V, NEW z \in V, NEW G \in [0..n -> [V -> V]]
  PROVE  \E f : Solves(f, n, V, z, G)
<1> DEFINE Upto(m) == \E f \in [0..n -> V] :
                        \A k \in 0..m : f[k] = IF k = 0 THEN z ELSE G[k][f[k - 1]]
           S == {m \in 0..n : Upto(m)}
<1>1. 0 \in S
  <2> DEFINE f == [k \in 0..n |-> z]
  <2>1. f \in [0..n -> V] /\ \A k \in 0..0 : f[k] = z /\ k = 0
    OBVIOUS
  <2> HIDE DEF f
  <2>2. Upto(0)
    BY <2>1
  <2> QED
    BY <2>2
<1>2. ASSUME NEW m \in 0..n - 1, m \in S PROVE m + 1 \in S
  <2>1. PICK f \in [0..n -> V] :
          \A k \in 0..m : f[k] = IF k = 0 THEN z ELSE G[k][f[k - 1]]
    BY <1>2
  <2> DEFINE g == [k \in 0..n |-> IF k = m + 1 THEN G[k][f[k - 1]] ELSE f[k]]
  <2>2. m + 1 \in 0..n /\ m \in 0..n /\ (m + 1) - 1 = m
    OBVIOUS
  <2>3. f[m] \in V /\ G[m + 1][f[m]] \in V
    BY <2>2
  <2>4. g \in [0..n -> V]
    BY <2>2, <2>3
  <2>5. \A k \in 0..m + 1 : g[k] = IF k = 0 THEN z ELSE G[k][g[k - 1]]
    <3> TAKE k \in 0..m + 1
    <3>1. CASE k = m + 1
      <4>1. g[k] = G[k][f[m]] /\ g[k - 1] = f[m]
        BY <2>2, <3>1
      <4> QED
        BY <3>1, <4>1
    <3>2. CASE k # m + 1
      <4>1. k \in 0..m /\ k \in 0..n /\ g[k] = f[k]
        BY <3>2
      <4>2. k # 0 => k - 1 \in 0..n /\ g[k - 1] = f[k - 1]
        BY <3>2
      <4> QED
        BY <2>1, <4>1, <4>2
    <3> QED
      BY <3>1, <3>2
  <2> HIDE DEF g
  <2> QED
    BY <2>2, <2>4, <2>5
<1> HIDE DEF S
<1>3. n \in S
  <2>1. \A m \in 0..n : m \in S
    BY <1>1, <1>2, Climbs
  <2> QED
    BY <2>1
<1> QED
  BY <1>3 DEF S, Solves

Positive == Nat \ {0}

\* Division with a remainder, and the only one.
LEMMA Divides ==
  ASSUME NEW x \in Int, NEW m \in Positive
  PROVE  /\ x % m \in 0..m - 1 /\ x \div m \in Int /\ x = (x \div m) * m + (x % m)
         /\ \A q \in Int, r \in 0..m - 1 : x = q * m + r => q = x \div m /\ r = x % m
<1>0. m \in Int /\ m > 0 /\ m # 0
  BY DEF Positive
<1>1. x % m \in 0..m - 1
  BY <1>0
<1>2. x \div m \in Int
  BY <1>0
<1>3. x % m = x - m * (x \div m)
  BY <1>0, SMTT(60)
<1> DEFINE d == x \div m
           e == x % m
<1>4. x = d * m + e
  BY <1>0, <1>1, <1>2, <1>3
<1> HIDE DEF d, e
<1>5. ASSUME NEW q \in Int, NEW r \in 0..m - 1, x = q * m + r PROVE q = d /\ r = e
  <2>0. d \in Int /\ e \in 0..m - 1
    BY <1>1, <1>2 DEF d, e
  <2>1. (q - d) * m = e - r
    BY <1>0, <1>4, <1>5, <2>0
  <2>2. q - d >= 1 => (q - d) * m >= m
    BY <1>0, <2>0
  <2>3. q - d <= -1 => (q - d) * m <= -m
    <3>1. (d - q - 1) * m = d * m - q * m - m
      BY <1>0, <2>0
    <3>2. (q - d) * m = q * m - d * m
      BY <1>0, <2>0
    <3>3. d - q - 1 \in Nat => (d - q - 1) * m >= 0
      BY <1>0, <2>0
    <3> QED
      BY <1>0, <2>0, <3>1, <3>2, <3>3
  <2>4. q = d
    BY <1>0, <2>0, <2>1, <2>2, <2>3
  <2> QED
    BY <1>0, <1>4, <1>5, <2>0, <2>4
<1> QED
  BY <1>1, <1>2, <1>4, <1>5 DEF d, e

\* Multiples of the modulus do not times.
LEMMA Multiples ==
  ASSUME NEW x \in Int, NEW k \in Int, NEW m \in Positive
  PROVE  (x + k * m) % m = x % m
<1> DEFINE d == x \div m
           e == x % m
<1>0. m \in Int /\ m > 0
  BY DEF Positive
<1>1. d \in Int /\ e \in 0..m - 1 /\ x = d * m + e
  BY Divides DEF d, e
<1> HIDE DEF d, e
<1>2. x + k * m = (d + k) * m + e /\ x + k * m \in Int
  BY <1>0, <1>1
<1>3. d + k \in Int
  BY <1>1
<1>4. e = (x + k * m) % m
  BY <1>1, <1>2, <1>3, Divides
<1> QED
  BY <1>4 DEF e

\* A remainder of what is already small is the number itself.
LEMMA Small ==
  ASSUME NEW m \in Positive, NEW x \in 0..m - 1
  PROVE  x % m = x /\ x \div m = 0
<1>1. x \in Int /\ x = 0 * m + x /\ 0 \in Int
  BY DEF Positive
<1> QED
  BY <1>1, Divides


-----------------------------------------------------------------------------
(* Radixes, and the numbers that words make up.                            *)

\* Words are even in number, and a number has more than one.
LEMMA Sizes ==
  M \in Positive /\ N \in Nat /\ N > 1 /\ \E h \in Positive : M = 2 * h
<1>1. M \in Positive /\ N \in Nat /\ N > 1 /\ M % 2 = 0 /\ 2 \in Positive
  BY WordAssumption DEF Positive
<1>2. M = (M \div 2) * 2 + (M % 2) /\ M \div 2 \in Int
  BY <1>1, Divides DEF Positive
<1> DEFINE h == M \div 2
<1>3. h \in Int /\ M = h * 2
  BY <1>1, <1>2
<1> HIDE DEF h
<1>4. h \in Positive /\ M = 2 * h
  BY <1>1, <1>3 DEF Positive
<1> QED
  BY <1>1, <1>4

\* The powers of a radix.
LEMMA PowersUnfold ==
  ASSUME NEW r \in Positive
  PROVE  /\ Powers(r) \in [0..N -> Positive] /\ Powers(r)[0] = 1
         /\ \A i \in 1..N : Powers(r)[i] = r * Powers(r)[i - 1]
<1> DEFINE V == Positive
           G == [i \in 0..N |-> [v \in V |-> r * v]]
           p == Powers(r)
<1>0. N \in Nat /\ 1 \in V /\ \A v \in V : r * v \in V
  BY Sizes DEF Positive
<1>1. p = CHOOSE q : q = [i \in 0..N |-> IF i = 0 THEN 1 ELSE r * q[i - 1]]
  BY DEF Powers
<1>2. G \in [0..N -> [V -> V]] /\ \A i \in 0..N : \A v \in V : G[i][v] = r * v
  BY <1>0
<1> HIDE DEF V, G, p
<1>3. PICK f : Solves(f, N, V, 1, G)
  BY <1>0, <1>2, Recursion
<1>4. f \in [0..N -> V] /\ \A i \in 0..N : f[i] = IF i = 0 THEN 1 ELSE G[i][f[i - 1]]
  BY <1>3 DEF Solves
<1>5. \A i \in 0..N : i # 0 => G[i][f[i - 1]] = r * f[i - 1]
  <2> SUFFICES ASSUME NEW i \in 0..N, i # 0 PROVE G[i][f[i - 1]] = r * f[i - 1]
    OBVIOUS
  <2>1. i - 1 \in 0..N
    BY <1>0
  <2> QED
    BY <1>2, <1>4, <2>1
<1>6. f = [i \in 0..N |-> IF i = 0 THEN 1 ELSE r * f[i - 1]]
  BY <1>4, <1>5
<1>7. p = [i \in 0..N |-> IF i = 0 THEN 1 ELSE r * p[i - 1]]
  BY <1>1, <1>6
<1>8. \A i \in 0..N : p[i] = IF i = 0 THEN 1 ELSE r * p[i - 1]
  BY <1>7
<1> DEFINE S == {i \in 0..N : p[i] \in V}
<1>9. 0 \in S
  BY <1>0, <1>8
<1>10. ASSUME NEW m \in 0..N - 1, m \in S PROVE m + 1 \in S
  <2>1. m + 1 \in 0..N /\ m + 1 # 0 /\ (m + 1) - 1 = m /\ p[m] \in V
    BY <1>0, <1>10
  <2> QED
    BY <1>0, <1>8, <2>1
<1> HIDE DEF S
<1>11. \A m \in 0..N : m \in S
  BY <1>0, <1>9, <1>10, Climbs
<1>12. \A i \in 0..N : p[i] \in V
  BY <1>11 DEF S
<1>13. p = [i \in 0..N |-> p[i]]
  BY <1>7
<1>14. p \in [0..N -> V]
  BY <1>12, <1>13
<1>15. p[0] = 1 /\ \A i \in 1..N : p[i] = r * p[i - 1]
  BY <1>0, <1>8
<1> QED
  BY <1>14, <1>15 DEF V, p

\* Words of a number, of any radix.
Digits == [1..N -> Int]

\* What the words up to each place stand for.
LEMMA LeadingUnfolds ==
  ASSUME NEW r \in Positive, NEW words \in Digits
  PROVE  /\ Leading(words, r) \in [0..N -> Int] /\ Leading(words, r)[0] = 0
         /\ \A i \in 1..N : Leading(words, r)[i] = Leading(words, r)[i - 1] * r + words[i]
<1> DEFINE G == [i \in 0..N |-> [v \in Int |-> IF i = 0 THEN 0 ELSE v * r + words[i]]]
           p == Leading(words, r)
<1>0. N \in Nat /\ 0 \in Int /\ r \in Int /\ \A i \in 0..N : i # 0 => words[i] \in Int
  BY Sizes DEF Positive, Digits
<1>1. p = CHOOSE q : q = [i \in 0..N |-> IF i = 0 THEN 0 ELSE q[i - 1] * r + words[i]]
  BY DEF Leading
<1>2. /\ G \in [0..N -> [Int -> Int]]
      /\ \A i \in 0..N : i # 0 => \A v \in Int : G[i][v] = v * r + words[i]
  BY <1>0
<1> HIDE DEF G, p
<1>3. PICK f : Solves(f, N, Int, 0, G)
  BY <1>0, <1>2, Recursion
<1>4. f \in [0..N -> Int] /\ \A i \in 0..N : f[i] = IF i = 0 THEN 0 ELSE G[i][f[i - 1]]
  BY <1>3 DEF Solves
<1>5. \A i \in 0..N : i # 0 => G[i][f[i - 1]] = f[i - 1] * r + words[i]
  <2> SUFFICES ASSUME NEW i \in 0..N, i # 0 PROVE G[i][f[i - 1]] = f[i - 1] * r + words[i]
    OBVIOUS
  <2>1. i - 1 \in 0..N
    BY <1>0
  <2>2. f[i - 1] \in Int
    BY <1>4, <2>1
  <2> QED
    BY <1>2, <2>2
<1>6. f = [i \in 0..N |-> IF i = 0 THEN 0 ELSE f[i - 1] * r + words[i]]
  BY <1>4, <1>5
<1>7. p = [i \in 0..N |-> IF i = 0 THEN 0 ELSE p[i - 1] * r + words[i]]
  BY <1>1, <1>6
<1>8. \A i \in 0..N : p[i] = IF i = 0 THEN 0 ELSE p[i - 1] * r + words[i]
  BY <1>7
<1> DEFINE S == {i \in 0..N : p[i] \in Int}
<1>9. 0 \in S
  BY <1>0, <1>8
<1>10. ASSUME NEW m \in 0..N - 1, m \in S PROVE m + 1 \in S
  <2>1. m + 1 \in 0..N /\ m + 1 # 0 /\ (m + 1) - 1 = m /\ p[m] \in Int
    BY <1>0, <1>10
  <2>2. p[m + 1] = p[m] * r + words[m + 1]
    BY <1>8, <2>1
  <2>3. words[m + 1] \in Int
    BY <1>0, <2>1
  <2>4. p[m + 1] \in Int
    BY <1>0, <2>1, <2>2, <2>3
  <2> QED
    BY <2>1, <2>4
<1> HIDE DEF S
<1>11. \A m \in 0..N : m \in S
  BY <1>0, <1>9, <1>10, Climbs
<1>12. \A i \in 0..N : p[i] \in Int
  BY <1>11 DEF S
<1>13. p = [i \in 0..N |-> p[i]]
  BY <1>7
<1>14. p \in [0..N -> Int]
  BY <1>12, <1>13
<1>15. p[0] = 0 /\ \A i \in 1..N : p[i] = p[i - 1] * r + words[i]
  BY <1>0, <1>8
<1> QED
  BY <1>14, <1>15 DEF p

\* What the last words stand for, by their number.
Trailing(words, r) ==
  LET t[k \in 0..N] == IF k = 0 THEN 0 ELSE t[k - 1] + words[N + 1 - k] * Powers(r)[k - 1]
  IN  t

LEMMA TrailingUnfolds ==
  ASSUME NEW r \in Positive, NEW words \in Digits
  PROVE  /\ Trailing(words, r) \in [0..N -> Int] /\ Trailing(words, r)[0] = 0
         /\ \A k \in 1..N : Trailing(words, r)[k] =
              Trailing(words, r)[k - 1] + words[N + 1 - k] * Powers(r)[k - 1]
<1> DEFINE D == [k \in 0..N |-> IF k = 0 THEN 0 ELSE words[N + 1 - k] * Powers(r)[k - 1]]
           G == [k \in 0..N |-> [v \in Int |-> v + D[k]]]
           p == Trailing(words, r)
<1>0. N \in Nat /\ 0 \in Int
  BY Sizes
<1>a. \A k \in 0..N : k # 0 => N + 1 - k \in 1..N /\ k - 1 \in 0..N
  BY <1>0
<1>b. \A k \in 0..N : k # 0 => words[N + 1 - k] \in Int /\ Powers(r)[k - 1] \in Int
  <2>1. Powers(r) \in [0..N -> Positive] /\ words \in [1..N -> Int] /\ \A v \in Positive : v \in Int
    BY PowersUnfold DEF Positive, Digits
  <2> QED
    BY <1>a, <2>1
<1>c. \A k \in 0..N : D[k] \in Int /\ (k # 0 => D[k] = words[N + 1 - k] * Powers(r)[k - 1])
  <2> SUFFICES ASSUME NEW k \in 0..N PROVE D[k] \in Int /\ (k # 0 => D[k] = words[N + 1 - k] * Powers(r)[k - 1])
    OBVIOUS
  <2>1. CASE k = 0
    BY <2>1
  <2>2. CASE k # 0
    <3> DEFINE x == words[N + 1 - k]  y == Powers(r)[k - 1]
    <3>1. x \in Int /\ y \in Int /\ D[k] = x * y
      BY <1>b, <2>2
    <3> HIDE DEF x, y, D
    <3>2. D[k] \in Int
      BY <3>1
    <3> QED
      BY <3>1, <3>2, <2>2 DEF x, y
  <2> QED
    BY <2>1, <2>2
<1>1. p = CHOOSE q : q = [k \in 0..N |-> IF k = 0 THEN 0
                                          ELSE q[k - 1] + words[N + 1 - k] * Powers(r)[k - 1]]
  BY DEF Trailing
<1> HIDE DEF D
<1>2. G \in [0..N -> [Int -> Int]] /\ \A k \in 0..N : \A v \in Int : G[k][v] = v + D[k]
  BY <1>c
<1> HIDE DEF G, p
<1>3. PICK f : Solves(f, N, Int, 0, G)
  BY <1>0, <1>2, Recursion
<1>4. f \in [0..N -> Int] /\ \A i \in 0..N : f[i] = IF i = 0 THEN 0 ELSE G[i][f[i - 1]]
  BY <1>3 DEF Solves
<1>5. \A k \in 0..N : k # 0 => G[k][f[k - 1]] = f[k - 1] + words[N + 1 - k] * Powers(r)[k - 1]
  <2> SUFFICES ASSUME NEW k \in 0..N, k # 0
               PROVE  G[k][f[k - 1]] = f[k - 1] + words[N + 1 - k] * Powers(r)[k - 1]
    OBVIOUS
  <2>1. f[k - 1] \in Int
    BY <1>a, <1>4
  <2>2. G[k][f[k - 1]] = f[k - 1] + D[k] /\ D[k] = words[N + 1 - k] * Powers(r)[k - 1]
    BY <1>c, <1>2, <2>1
  <2> QED
    BY <2>2
<1>6. f = [k \in 0..N |-> IF k = 0 THEN 0 ELSE f[k - 1] + words[N + 1 - k] * Powers(r)[k - 1]]
  BY <1>4, <1>5, Zenon
<1>7. p = [k \in 0..N |-> IF k = 0 THEN 0 ELSE p[k - 1] + words[N + 1 - k] * Powers(r)[k - 1]]
  BY <1>1, <1>6, Zenon
<1>8. \A k \in 0..N : p[k] = IF k = 0 THEN 0 ELSE p[k - 1] + D[k]
  BY <1>7, <1>c, Zenon
<1> DEFINE S == {k \in 0..N : p[k] \in Int}
<1>9. 0 \in S
  BY <1>0, <1>8
<1>10. ASSUME NEW m \in 0..N - 1, m \in S PROVE m + 1 \in S
  <2>1. m + 1 \in 0..N /\ m + 1 # 0 /\ (m + 1) - 1 = m /\ p[m] \in Int
    BY <1>0, <1>10
  <2>2. p[m + 1] = p[m] + D[m + 1] /\ D[m + 1] \in Int
    BY <1>8, <1>c, <2>1
  <2> QED
    BY <2>1, <2>2
<1> HIDE DEF S
<1>11. \A m \in 0..N : m \in S
  BY <1>0, <1>9, <1>10, Climbs
<1>12. \A k \in 0..N : p[k] \in Int
  BY <1>11 DEF S
<1>13. p = [k \in 0..N |-> p[k]]
  BY <1>7, Zenon
<1>14. p \in [0..N -> Int]
  BY <1>12, <1>13
<1>15. \A k \in 1..N : k \in 0..N /\ k # 0
  BY <1>0
<1>16. 0 \in 0..N
  BY <1>0
<1>17. p[0] = 0 /\ \A k \in 1..N : p[k] = p[k - 1] + words[N + 1 - k] * Powers(r)[k - 1]
  BY <1>8, <1>c, <1>15, <1>16, Zenon
<1> QED
  BY <1>14, <1>17 DEF p

\* A place more, at the upper end or at the lower one, keeps within the power.
LEMMA PlaceMore ==
  ASSUME NEW r \in Positive, NEW p \in Positive, NEW t \in 0..p - 1, NEW w \in 0..r - 1
  PROVE  t + w * p \in 0..r * p - 1
<1>1. r \in Int /\ p \in Int /\ r > 0 /\ p > 0 /\ w \in Int /\ t \in Int
  BY DEF Positive
<1>2. w * p >= 0
  BY <1>1
<1>3. (r - 1 - w) * p >= 0
  BY <1>1
<1>4. (r - 1 - w) * p = r * p - p - w * p /\ r * p \in Int /\ w * p \in Int
  BY <1>1
<1> QED
  BY <1>1, <1>2, <1>3, <1>4

\* A number is that of its first words, shifted, and that of its last ones.
LEMMA Splits ==
  ASSUME NEW r \in Positive, NEW words \in Digits
  PROVE  /\ \A k \in 0..N : Value(words, r) = Leading(words, r)[N - k] * Powers(r)[k]
                                                + Trailing(words, r)[k]
         /\ Value(words, r) = Trailing(words, r)[N]
<1> DEFINE L == Leading(words, r)
           T == Trailing(words, r)
           P == Powers(r)
<1>0. N \in Nat /\ N > 1 /\ Value(words, r) = L[N]
  BY Sizes DEF Value
<1>1. L \in [0..N -> Int] /\ L[0] = 0 /\ \A i \in 1..N : L[i] = L[i - 1] * r + words[i]
  BY LeadingUnfolds
<1>2. T \in [0..N -> Int] /\ T[0] = 0 /\ \A k \in 1..N : T[k] = T[k - 1] + words[N + 1 - k] * P[k - 1]
  BY TrailingUnfolds
<1>3. P \in [0..N -> Int] /\ P[0] = 1 /\ \A k \in 1..N : P[k] = r * P[k - 1]
  <2>1. P \in [0..N -> Positive] /\ P[0] = 1 /\ \A k \in 1..N : P[k] = r * P[k - 1]
    BY PowersUnfold
  <2> HIDE DEF P
  <2> QED
    BY <2>1 DEF Positive
<1>4. r \in Int /\ \A i \in 1..N : words[i] \in Int
  BY DEF Positive, Digits
<1> HIDE DEF L, T, P
<1> DEFINE S == {k \in 0..N : L[N] = L[N - k] * P[k] + T[k]}
<1>5. 0 \in S
  <2>1. L[N] \in Int /\ N - 0 = N
    BY <1>0, <1>1
  <2>2. L[N] = L[N] * 1 + 0
    BY <2>1
  <2> QED
    BY <1>0, <1>2, <1>3, <2>1, <2>2
<1>6. ASSUME NEW k \in 0..N - 1, k \in S PROVE k + 1 \in S
  <2> DEFINE i == N - k
             l == L[i - 1]
             w == words[i]
             p == P[k]
             t == T[k]
  <2>1. /\ k \in 0..N /\ k + 1 \in 1..N /\ k + 1 \in 0..N /\ (k + 1) - 1 = k /\ i \in 1..N
        /\ i - 1 \in 0..N /\ N - (k + 1) = i - 1 /\ N + 1 - (k + 1) = i
    BY <1>0
  <2>2. L[i] = l * r + w /\ P[k + 1] = r * p /\ T[k + 1] = t + w * p
    BY <1>1, <1>2, <1>3, <2>1
  <2>3. l \in Int /\ w \in Int /\ p \in Int /\ t \in Int
    BY <1>1, <1>2, <1>3, <1>4, <2>1
  <2>4. L[N] = L[i] * p + t
    BY <1>6
  <2>5. (l * r + w) * p + t = l * (r * p) + (t + w * p)
    BY <1>4, <2>3
  <2>6. L[N] = L[N - (k + 1)] * P[k + 1] + T[k + 1]
    BY <2>1, <2>2, <2>4, <2>5
  <2> QED
    BY <2>1, <2>6
<1> HIDE DEF S
<1>7. \A k \in 0..N : k \in S
  BY <1>0, <1>5, <1>6, Climbs
<1>8. \A k \in 0..N : L[N] = L[N - k] * P[k] + T[k]
  BY <1>7 DEF S
<1>9. L[N] = T[N]
  <2>1. N \in 0..N /\ N - N = 0 /\ P[N] \in Int /\ T[N] \in Int
    BY <1>0, <1>2, <1>3
  <2>2. L[N] = L[0] * P[N] + T[N]
    BY <1>8, <2>1
  <2>3. 0 * P[N] + T[N] = T[N]
    BY <2>1
  <2> QED
    BY <1>1, <2>2, <2>3
<1> QED
  BY <1>0, <1>8, <1>9 DEF L, T, P

\* Words below the radix make numbers below the power.
LEMMA Bounded ==
  ASSUME NEW r \in Positive, NEW words \in [1..N -> 0..r - 1]
  PROVE  /\ words \in Digits
         /\ \A k \in 0..N : /\ Leading(words, r)[k] \in 0..Powers(r)[k] - 1
                            /\ Trailing(words, r)[k] \in 0..Powers(r)[k] - 1
         /\ Value(words, r) \in 0..Powers(r)[N] - 1
<1> DEFINE L == Leading(words, r)
           T == Trailing(words, r)
           P == Powers(r)
<1>0. N \in Nat /\ Value(words, r) = L[N] /\ words \in Digits /\ r \in Int /\ r > 0
  BY Sizes DEF Value, Digits, Positive
<1>1. L \in [0..N -> Int] /\ L[0] = 0 /\ \A i \in 1..N : L[i] = L[i - 1] * r + words[i]
  BY <1>0, LeadingUnfolds
<1>2. T \in [0..N -> Int] /\ T[0] = 0 /\ \A k \in 1..N : T[k] = T[k - 1] + words[N + 1 - k] * P[k - 1]
  BY <1>0, TrailingUnfolds
<1>3. P \in [0..N -> Positive] /\ P[0] = 1 /\ \A k \in 1..N : P[k] = r * P[k - 1]
  BY PowersUnfold
<1> HIDE DEF L, T, P
<1> DEFINE S == {k \in 0..N : L[k] \in 0..P[k] - 1 /\ T[k] \in 0..P[k] - 1}
<1>5. 0 \in S
  BY <1>0, <1>1, <1>2, <1>3
<1>6. ASSUME NEW k \in 0..N - 1, k \in S PROVE k + 1 \in S
  <2> DEFINE p == P[k]
             l == L[k]
             t == T[k]
             v == words[k + 1]
             w == words[N - k]
  <2>1. /\ k \in 0..N /\ k + 1 \in 1..N /\ k + 1 \in 0..N /\ (k + 1) - 1 = k /\ N - k \in 1..N
        /\ N + 1 - (k + 1) = N - k
    BY <1>0
  <2>2. L[k + 1] = l * r + v /\ P[k + 1] = r * p /\ T[k + 1] = t + w * p
    BY <1>1, <1>2, <1>3, <2>1
  <2>3. p \in Positive /\ l \in 0..p - 1 /\ t \in 0..p - 1 /\ v \in 0..r - 1 /\ w \in 0..r - 1
    BY <1>3, <1>6, <2>1
  <2> HIDE DEF p, l, t, v, w
  <2>4. t + w * p \in 0..r * p - 1
    BY <2>3, PlaceMore
  <2>5. v + l * r \in 0..p * r - 1
    BY <2>3, PlaceMore
  <2>6. l \in Int /\ v \in Int /\ p \in Int
    BY <2>3 DEF Positive
  <2>7. v + l * r = l * r + v /\ p * r = r * p
    BY <1>0, <2>6
  <2>8. L[k + 1] \in 0..P[k + 1] - 1 /\ T[k + 1] \in 0..P[k + 1] - 1
    BY <2>2, <2>4, <2>5, <2>7, Zenon
  <2> QED
    BY <2>1, <2>8
<1> HIDE DEF S
<1>7. \A k \in 0..N : k \in S
  BY <1>0, <1>5, <1>6, Climbs
<1>8. \A k \in 0..N : L[k] \in 0..P[k] - 1 /\ T[k] \in 0..P[k] - 1
  BY <1>7 DEF S
<1>9. N \in 0..N
  BY <1>0
<1> QED
  BY <1>0, <1>8, <1>9 DEF L, T, P

\* The first words are the same in numbers that differ after them.
LEMMA LeadingLocal ==
  ASSUME NEW r \in Positive, NEW words \in Digits, NEW other \in Digits, NEW n \in 0..N,
         \A i \in 1..n : words[i] = other[i]
  PROVE  \A i \in 0..n : Leading(words, r)[i] = Leading(other, r)[i]
<1> DEFINE L == Leading(words, r)
           K == Leading(other, r)
           S == {i \in 0..n : L[i] = K[i]}
<1>0. N \in Nat /\ n \in Nat /\ \A i \in 1..n : i \in 1..N
  BY Sizes
<1>1. L[0] = 0 /\ \A i \in 1..N : L[i] = L[i - 1] * r + words[i]
  BY LeadingUnfolds
<1>2. K[0] = 0 /\ \A i \in 1..N : K[i] = K[i - 1] * r + other[i]
  BY LeadingUnfolds
<1> HIDE DEF L, K
<1>3. 0 \in S
  BY <1>0, <1>1, <1>2
<1>4. ASSUME NEW i \in 0..n - 1, i \in S PROVE i + 1 \in S
  <2>1. i + 1 \in 1..n /\ i + 1 \in 1..N /\ i + 1 \in 0..n /\ (i + 1) - 1 = i
    BY <1>0
  <2>2. L[i] = K[i] /\ words[i + 1] = other[i + 1]
    BY <1>4, <2>1
  <2>3. L[i + 1] = K[i + 1]
    BY <1>1, <1>2, <2>1, <2>2
  <2> QED
    BY <2>1, <2>3
<1> HIDE DEF S
<1>5. \A i \in 0..n : i \in S
  BY <1>0, <1>3, <1>4, Climbs
<1> QED
  BY <1>5 DEF S, L, K

\* Likewise the last words.
LEMMA TrailingLocal ==
  ASSUME NEW r \in Positive, NEW words \in Digits, NEW other \in Digits, NEW n \in 0..N,
         \A i \in 1..N : i > N - n => words[i] = other[i]
  PROVE  \A k \in 0..n : Trailing(words, r)[k] = Trailing(other, r)[k]
<1> DEFINE L == Trailing(words, r)
           K == Trailing(other, r)
           P == Powers(r)
           S == {i \in 0..n : L[i] = K[i]}
<1>0. N \in Nat /\ n \in Nat /\ n \in 0..N
  BY Sizes
<1>1. L[0] = 0 /\ \A k \in 1..N : L[k] = L[k - 1] + words[N + 1 - k] * P[k - 1]
  BY TrailingUnfolds
<1>2. K[0] = 0 /\ \A k \in 1..N : K[k] = K[k - 1] + other[N + 1 - k] * P[k - 1]
  BY TrailingUnfolds
<1> HIDE DEF L, K, P
<1>3. 0 \in S
  BY <1>0, <1>1, <1>2
<1>4. ASSUME NEW k \in 0..n - 1, k \in S PROVE k + 1 \in S
  <2>1. /\ k + 1 \in 1..N /\ k + 1 \in 0..n /\ (k + 1) - 1 = k
        /\ N + 1 - (k + 1) \in 1..N /\ N + 1 - (k + 1) > N - n
    BY <1>0
  <2>2. L[k] = K[k] /\ words[N + 1 - (k + 1)] = other[N + 1 - (k + 1)]
    BY <1>4, <2>1
  <2>3. L[k + 1] = K[k + 1]
    BY <1>1, <1>2, <2>1, <2>2
  <2> QED
    BY <2>1, <2>3
<1> HIDE DEF S
<1>5. \A i \in 0..n : i \in S
  BY <1>0, <1>3, <1>4, Climbs
<1> QED
  BY <1>5 DEF S, L, K

-----------------------------------------------------------------------------
(* What the handlers do to one word.                                       *)

XNZVC == {"X", "N", "Z", "V", "C"}

Adding == {"ADDX", "ABCD", "ROXL"}

\* A word or a number w comes out of a and b, the bit x comes in and c goes out.
Carries(r, a, b, x, w, c, m) ==
  IF r \in Adding THEN a + b + x = w + c * m ELSE w + b + x = a + c * m

\* The flags of a sum or a difference, but for V and, of a chain, Z.
FlagsTell(c, w, m) ==
  /\ c \subseteq XNZVC /\ ("C" \in c) = ("X" \in c)
  /\ ("N" \in c) = Negative(w, m)

LEMMA Bits ==
  \A p \in BOOLEAN : Bit(p) \in 0..1 /\ (Bit(p) = 1) = p
  BY DEF Bit

\* The sum of two words, and its carry.
LEMMA SumReduced ==
  ASSUME NEW m \in Positive, NEW sum \in 0..m + m - 1
  PROVE  /\ Word(sum, m) \in 0..m - 1
         /\ sum = Word(sum, m) + Bit(sum >= m) * m
<1>0. m \in Int /\ m > 0
  BY DEF Positive
<1>1. CASE sum >= m
  <2>1. sum - m \in 0..m - 1 /\ sum = 1 * m + (sum - m) /\ sum \in Int /\ 1 \in Int
    BY <1>0, <1>1
  <2>2. sum - m = sum % m
    BY <2>1, Divides
  <2> QED
    BY <1>0, <1>1, <2>1, <2>2 DEF Word, Bit
<1>2. CASE ~ (sum >= m)
  <2>1. sum \in 0..m - 1
    BY <1>0, <1>2
  <2>2. sum % m = sum
    BY <2>1, Small
  <2> QED
    BY <1>0, <1>2, <2>1, <2>2 DEF Word, Bit
<1> QED
  BY <1>1, <1>2

\* A difference of two words, and its borrow.
LEMMA DifferenceReduced ==
  ASSUME NEW m \in Positive, NEW difference \in -m..m - 1
  PROVE  /\ Word(difference, m) \in 0..m - 1
         /\ Word(difference, m) = difference + Bit(difference < 0) * m
<1>0. m \in Int /\ m > 0
  BY DEF Positive
<1>1. CASE difference < 0
  <2>1. /\ difference + m \in 0..m - 1 /\ difference = (-1) * m + (difference + m)
        /\ difference \in Int /\ -1 \in Int
    BY <1>0, <1>1
  <2>2. difference + m = difference % m
    BY <2>1, Divides
  <2> QED
    BY <1>0, <1>1, <2>1, <2>2 DEF Word, Bit
<1>2. CASE ~ (difference < 0)
  <2>1. difference \in 0..m - 1
    BY <1>0, <1>2
  <2>2. difference % m = difference
    BY <2>1, Small
  <2> QED
    BY <1>0, <1>2, <2>1, <2>2 DEF Word, Bit
<1> QED
  BY <1>1, <1>2

\* V of a sum and of a difference.
SumV(a, b, w, m)        == Negative(a, m) # Negative(w, m) /\ Negative(b, m) # Negative(w, m)
DifferenceV(a, b, w, m) == Negative(a, m) # Negative(b, m) /\ Negative(a, m) # Negative(w, m)

\* What Add and Sub compute, x standing for the bit that is carried in.
SumMade(a, b, x, m, r, c) ==
  /\ r = Word(a + b + x, m)
  /\ c = SetNZFlags(r, m) \cup When(a + b + x >= m, {"C", "X"}) \cup When(SumV(a, b, r, m), {"V"})

DifferenceMade(a, b, x, m, r, c) ==
  /\ r = Word(a - b - x, m)
  /\ c = SetNZFlags(r, m) \cup When(a - b - x < 0, {"C", "X"}) \cup When(DifferenceV(a, b, r, m), {"V"})

\* The result and the flags of a sum, ...
LEMMA SumTold ==
  ASSUME NEW m \in Positive, NEW a \in 0..m - 1, NEW b \in 0..m - 1, NEW x \in 0..1,
         NEW r, NEW c, SumMade(a, b, x, m, r, c)
  PROVE  /\ r \in 0..m - 1 /\ FlagsTell(c, r, m) /\ a + b + x = r + Bit("X" \in c) * m
         /\ ("Z" \in c) = (r = 0) /\ ("V" \in c) = SumV(a, b, r, m)
<1> DEFINE sum == a + b + x
<1>0. m \in Int /\ m > 0 /\ a \in Int /\ b \in Int
  BY DEF Positive
<1>1. sum \in 0..m + m - 1
  BY <1>0
<1>a. r = Word(sum, m) /\ c = SetNZFlags(r, m) \cup When(sum >= m, {"C", "X"})
                                 \cup When(SumV(a, b, r, m), {"V"})
  BY DEF SumMade
<1>2. r \in 0..m - 1 /\ sum = r + Bit(sum >= m) * m
  BY <1>a, <1>1, SumReduced
<1>3. SumV(a, b, r, m) \in BOOLEAN /\ (sum >= m) \in BOOLEAN
  BY <1>0, <1>1 DEF SumV
<1> HIDE DEF sum
<1>5. /\ c \subseteq XNZVC /\ ("C" \in c) = (sum >= m) /\ ("X" \in c) = (sum >= m)
      /\ ("N" \in c) = Negative(r, m) /\ ("Z" \in c) = (r = 0) /\ ("V" \in c) = SumV(a, b, r, m)
  BY <1>a, <1>3 DEF SetNZFlags, When, XNZVC, Negative, SumV
<1> QED
  BY <1>2, <1>5 DEF FlagsTell, sum

\* ... and of a difference.
LEMMA DifferenceTold ==
  ASSUME NEW m \in Positive, NEW a \in 0..m - 1, NEW b \in 0..m - 1, NEW x \in 0..1,
         NEW r, NEW c, DifferenceMade(a, b, x, m, r, c)
  PROVE  /\ r \in 0..m - 1 /\ FlagsTell(c, r, m) /\ r + b + x = a + Bit("X" \in c) * m
         /\ ("Z" \in c) = (r = 0) /\ ("V" \in c) = DifferenceV(a, b, r, m)
         /\ ("C" \in c) = (a < b + x)
<1> DEFINE difference == a - b - x
<1>0. m \in Int /\ m > 0 /\ a \in Int /\ b \in Int
  BY DEF Positive
<1>1. difference \in -m..m - 1 /\ (difference < 0) = (a < b + x)
  BY <1>0
<1>2. r \in 0..m - 1 /\ r = difference + Bit(difference < 0) * m
  BY <1>1, DifferenceReduced DEF DifferenceMade
<1>3. DifferenceV(a, b, r, m) \in BOOLEAN /\ (difference < 0) \in BOOLEAN
  BY <1>0, <1>1 DEF DifferenceV
<1>a. difference = a - b - x
  OBVIOUS
<1> HIDE DEF difference
<1>4. c = SetNZFlags(r, m) \cup When(difference < 0, {"C", "X"}) \cup When(DifferenceV(a, b, r, m), {"V"})
  BY DEF difference, DifferenceMade
<1>5. /\ c \subseteq XNZVC /\ ("C" \in c) = (difference < 0) /\ ("X" \in c) = (difference < 0)
      /\ ("N" \in c) = Negative(r, m) /\ ("Z" \in c) = (r = 0) /\ ("V" \in c) = DifferenceV(a, b, r, m)
  BY <1>3, <1>4 DEF SetNZFlags, When, XNZVC, Negative, DifferenceV
<1>6. r + b + x = a + Bit("X" \in c) * m
  <2> DEFINE k == Bit(difference < 0) * m
  <2>1. k \in Int /\ r \in Int
    BY <1>0, <1>2 DEF Bit
  <2>2. r = (a - b - x) + k
    BY <1>2, <1>a
  <2> HIDE DEF k
  <2>3. r + b + x = a + k
    BY <1>0, <2>1, <2>2
  <2> QED
    BY <1>5, <2>3 DEF k
<1> QED
  BY <1>1, <1>2, <1>5, <1>6 DEF FlagsTell

\* X and Z through a handler: Z stays only with a result of zero.
LEMMA StickyZ ==
  ASSUME NEW r, NEW f, NEW w, w = Sticky(r, f), NEW res, NEW c, r = [result |-> res, ccr |-> c]
  PROVE  /\ w.result = res /\ ("Z" \in w.ccr) = ("Z" \in f /\ "Z" \in c)
         /\ \A g : g # "Z" => (g \in w.ccr) = (g \in c)
<1>1. w = [result |-> res, ccr |-> (c \ {"Z"}) \cup (c \cap f \cap {"Z"})]
  BY DEF Sticky
<1> QED
  BY <1>1

\* Packed digits.
LEMMA Packing ==
  ASSUME NEW h \in 0..Base - 1, NEW l \in 0..Base - 1, NEW v, v = h * Digit + l
  PROVE  /\ v \in Packs /\ High(v, Digit) = h /\ Low(v, Digit) = l
         /\ Unpacked(v) = h * Base + l /\ Unpacked(v) \in 0..Base * Base - 1
         /\ (v = 0) = (h = 0 /\ l = 0) /\ (v = 0) = (Unpacked(v) = 0)
<1>0. /\ Base \in Positive /\ Base \in Int /\ Digit \in Int /\ Digit >= Base /\ Digit \in Positive
      /\ h \in Int /\ l \in Int /\ Base > 0
  BY DigitAssumption DEF Positive
<1>1. v \in Packs
  BY DEF Packs
<1>2. h * Digit \in Int /\ h * Digit >= 0 /\ h * Base \in Int /\ h * Base >= 0
  BY <1>0
<1>3. v \in Int /\ l \in 0..Digit - 1
  BY <1>0, <1>2
<1>4. h = v \div Digit /\ l = v % Digit
  BY <1>0, <1>3, Divides
<1>5. High(v, Digit) = h /\ Low(v, Digit) = l /\ Unpacked(v) = h * Base + l
  BY <1>4 DEF High, Low, Unpacked
<1>6. l + h * Base \in 0..Base * Base - 1
  BY <1>0, PlaceMore
<1>7. h # 0 => h * Digit >= Digit /\ h * Base >= Base
  <2> SUFFICES ASSUME h # 0 PROVE h * Digit >= Digit /\ h * Base >= Base
    OBVIOUS
  <2>1. h - 1 >= 0 /\ (h - 1) * Digit >= 0 /\ (h - 1) * Base >= 0
    BY <1>0
  <2>2. (h - 1) * Digit = h * Digit - Digit /\ (h - 1) * Base = h * Base - Base
    BY <1>0
  <2> QED
    BY <1>0, <1>2, <2>1, <2>2
<1>8. h = 0 => h * Digit = 0 /\ h * Base = 0
  BY <1>0
<1>9. (v = 0) = (h = 0 /\ l = 0) /\ (h * Base + l = 0) = (h = 0 /\ l = 0)
  BY <1>0, <1>2, <1>7, <1>8
<1>10. Unpacked(v) \in 0..Base * Base - 1
  <2>1. l + h * Base = h * Base + l
    BY <1>0, <1>2
  <2> QED
    BY <1>5, <1>6, <2>1
<1> QED
  BY <1>1, <1>5, <1>9, <1>10

LEMMA Opened ==
  ASSUME NEW v \in Packs
  PROVE  /\ High(v, Digit) \in 0..Base - 1 /\ Low(v, Digit) \in 0..Base - 1
         /\ Unpacked(v) = High(v, Digit) * Base + Low(v, Digit)
<1>1. PICK h \in 0..Base - 1, l \in 0..Base - 1 : v = h * Digit + l
  BY DEF Packs
<1> QED
  BY <1>1, Packing DEF Unpacked

\* What Packed leaves of two digits and a carry.
LEMMA PackedExact ==
  ASSUME NEW h \in 0..Base - 1, NEW l \in 0..Base - 1, NEW out \in 0..1, NEW f,
         NEW w, w = Packed(h, l, out, f, Digit)
  PROVE  /\ w.result \in Packs /\ Unpacked(w.result) = h * Base + l
         /\ ("X" \in w.ccr) = (out = 1) /\ ("C" \in w.ccr) = ("X" \in w.ccr)
         /\ ("Z" \in w.ccr) = ("Z" \in f /\ Unpacked(w.result) = 0)
<1>0. h \in 0..Digit - 1 /\ l \in 0..Digit - 1 /\ Digit \in Positive
  BY DigitAssumption DEF Positive
<1>1. h % Digit = h /\ l % Digit = l
  BY <1>0, Small
<1> DEFINE r == h * Digit + l
           c == When(out = 1, {"C", "X"}) \cup When(r = 0, f \cap {"Z"})
                  \cup When(Negative(r, Digit * Digit), {"N"})
<1>2. w = [result |-> r, ccr |-> c]
  BY <1>1 DEF Packed, Word
<1>3. r \in Packs /\ Unpacked(r) = h * Base + l /\ (r = 0) = (Unpacked(r) = 0)
  BY Packing
<1> HIDE DEF r
<1>4. ("X" \in c) = (out = 1) /\ ("C" \in c) = ("X" \in c) /\ ("Z" \in c) = ("Z" \in f /\ r = 0)
  BY DEF When
<1> QED
  BY <1>2, <1>3, <1>4

LEMMA AddBcdExact ==
  ASSUME NEW s \in Packs, NEW d \in Packs, NEW f, NEW w, w = AddBcd(s, d, f, Base, Digit)
  PROVE  /\ w.result \in Packs
         /\ Unpacked(d) + Unpacked(s) + Bit("X" \in f)
              = Unpacked(w.result) + Bit("X" \in w.ccr) * (Base * Base)
         /\ ("C" \in w.ccr) = ("X" \in w.ccr)
         /\ ("Z" \in w.ccr) = ("Z" \in f /\ Unpacked(w.result) = 0)
<1> DEFINE x  == Bit("X" \in f)
           dh == High(d, Digit)  dl == Low(d, Digit)
           sh == High(s, Digit)  sl == Low(s, Digit)
           lo    == dl + sl + x
           carry == Bit(lo >= Base)
           hi    == dh + sh + carry
           out   == Bit(hi >= Base)
           h     == hi - Base * out
           l     == lo - Base * carry
<1>0. Base \in Int /\ Base > 0
  BY DigitAssumption
<1>1. /\ dh \in 0..Base - 1 /\ dl \in 0..Base - 1 /\ Unpacked(d) = dh * Base + dl
      /\ sh \in 0..Base - 1 /\ sl \in 0..Base - 1 /\ Unpacked(s) = sh * Base + sl
  BY Opened
<1>2. w = Packed(h, l, out, f, Digit)
  BY DEF AddBcd
<1> HIDE DEF dh, dl, sh, sl
<1>3. x \in 0..1 /\ carry \in 0..1 /\ out \in 0..1
  BY DEF Bit
<1>4. l \in 0..Base - 1 /\ lo = l + Base * carry
  BY <1>0, <1>1, <1>3 DEF Bit
<1>5. h \in 0..Base - 1 /\ hi = h + Base * out
  BY <1>0, <1>1, <1>3 DEF Bit
<1>6. dl + sl + x = l + Base * carry /\ dh + sh + carry = h + Base * out
  BY <1>4, <1>5
<1> HIDE DEF x, lo, carry, hi, out, h, l
<1>7. /\ w.result \in Packs /\ Unpacked(w.result) = h * Base + l
      /\ ("X" \in w.ccr) = (out = 1) /\ ("C" \in w.ccr) = ("X" \in w.ccr)
      /\ ("Z" \in w.ccr) = ("Z" \in f /\ Unpacked(w.result) = 0)
  BY <1>2, <1>3, <1>4, <1>5, PackedExact
<1>8. Bit("X" \in w.ccr) = out
  BY <1>3, <1>7 DEF Bit
<1>9. (dh * Base + dl) + (sh * Base + sl) + x = (h * Base + l) + out * (Base * Base)
  <2>0. dh \in Int /\ dl \in Int /\ sh \in Int /\ sl \in Int /\ h \in Int /\ l \in Int
    BY <1>0, <1>1, <1>4, <1>5
  <2>1. dh + sh = h + Base * out - carry /\ dl + sl + x = l + Base * carry
    BY <1>0, <1>3, <1>6, <2>0
  <2>2. (dh + sh) * Base = dh * Base + sh * Base
    BY <1>0, <2>0
  <2>3. (h + Base * out - carry) * Base = h * Base + out * (Base * Base) - Base * carry
    BY <1>0, <1>3, <2>0
  <2> QED
    BY <1>0, <1>3, <2>0, <2>1, <2>2, <2>3
<1> QED
  BY <1>1, <1>7, <1>8, <1>9 DEF x

LEMMA SubBcdExact ==
  ASSUME NEW s \in Packs, NEW d \in Packs, NEW f, NEW w, w = SubBcd(s, d, f, Base, Digit)
  PROVE  /\ w.result \in Packs
         /\ Unpacked(w.result) + Unpacked(s) + Bit("X" \in f)
              = Unpacked(d) + Bit("X" \in w.ccr) * (Base * Base)
         /\ ("C" \in w.ccr) = ("X" \in w.ccr)
         /\ ("Z" \in w.ccr) = ("Z" \in f /\ Unpacked(w.result) = 0)
<1> DEFINE x  == Bit("X" \in f)
           dh == High(d, Digit)  dl == Low(d, Digit)
           sh == High(s, Digit)  sl == Low(s, Digit)
           lo     == dl - sl - x
           borrow == Bit(lo < 0)
           hi     == dh - sh - borrow
           out    == Bit(hi < 0)
           h      == hi + Base * out
           l      == lo + Base * borrow
<1>0. Base \in Int /\ Base > 0
  BY DigitAssumption
<1>1. /\ dh \in 0..Base - 1 /\ dl \in 0..Base - 1 /\ Unpacked(d) = dh * Base + dl
      /\ sh \in 0..Base - 1 /\ sl \in 0..Base - 1 /\ Unpacked(s) = sh * Base + sl
  BY Opened
<1>2. w = Packed(h, l, out, f, Digit)
  BY DEF SubBcd
<1> HIDE DEF dh, dl, sh, sl
<1>3. x \in 0..1 /\ borrow \in 0..1 /\ out \in 0..1
  BY DEF Bit
<1>4. l \in 0..Base - 1 /\ lo = l - Base * borrow
  BY <1>0, <1>1, <1>3 DEF Bit
<1>5. h \in 0..Base - 1 /\ hi = h - Base * out
  BY <1>0, <1>1, <1>3 DEF Bit
<1>6. dl - sl - x = l - Base * borrow /\ dh - sh - borrow = h - Base * out
  BY <1>4, <1>5
<1> HIDE DEF x, lo, borrow, hi, out, h, l
<1>7. /\ w.result \in Packs /\ Unpacked(w.result) = h * Base + l
      /\ ("X" \in w.ccr) = (out = 1) /\ ("C" \in w.ccr) = ("X" \in w.ccr)
      /\ ("Z" \in w.ccr) = ("Z" \in f /\ Unpacked(w.result) = 0)
  BY <1>2, <1>3, <1>4, <1>5, PackedExact
<1>8. Bit("X" \in w.ccr) = out
  BY <1>3, <1>7 DEF Bit
<1>9. (h * Base + l) + (sh * Base + sl) + x = (dh * Base + dl) + out * (Base * Base)
  <2>0. dh \in Int /\ dl \in Int /\ sh \in Int /\ sl \in Int /\ h \in Int /\ l \in Int
    BY <1>0, <1>1, <1>4, <1>5
  <2>1. h + sh = dh + Base * out - borrow /\ l + sl + x = dl + Base * borrow
    BY <1>0, <1>3, <1>6, <2>0
  <2>2. (h + sh) * Base = h * Base + sh * Base
    BY <1>0, <2>0
  <2>3. (dh + Base * out - borrow) * Base = dh * Base + out * (Base * Base) - Base * borrow
    BY <1>0, <1>3, <2>0
  <2> QED
    BY <1>0, <1>3, <2>0, <2>1, <2>2, <2>3
<1> QED
  BY <1>1, <1>7, <1>8, <1>9 DEF x

\* Half of an even modulus.
Even(m) == \E h \in Positive : m = 2 * h

\* One step of a rotation through X to the left doubles, ...
LEMMA RotatesLeft ==
  ASSUME NEW m \in Positive, Even(m), NEW d \in 0..m - 1, NEW f,
         NEW w, w = RotateLeftX(d, 1, f, m)
  PROVE  /\ w.result \in 0..m - 1 /\ ("C" \in w.ccr) = ("X" \in w.ccr)
         /\ d + d + Bit("X" \in f) = w.result + Bit("X" \in w.ccr) * m
<1> DEFINE x == Bit("X" \in f)
           one == [r |-> d, c |-> x]
           two == [r |-> Word(2 * d + x, m), c |-> Bit(Negative(d, m))]
           p == CHOOSE q : q = [i \in 0..1 |-> IF i = 0 THEN one ELSE LeftStep(q[i - 1], q[i - 1].c, m)]
<1>1. p = [i \in 0..1 |-> IF i = 0 THEN one ELSE LeftStep(p[i - 1], p[i - 1].c, m)]
  <2> DEFINE g == [i \in 0..1 |-> IF i = 0 THEN one ELSE two]
  <2>1. LeftStep(one, one.c, m) = two
    BY DEF LeftStep
  <2>2. g = [i \in 0..1 |-> IF i = 0 THEN one ELSE LeftStep(g[i - 1], g[i - 1].c, m)]
    <3>1. g[0] = one /\ \A i \in 0..1 : i # 0 => i - 1 = 0
      OBVIOUS
    <3> QED
      BY <2>1, <3>1
  <2> QED
    BY <2>2
<1>2. Steps(d, x, 1, LAMBDA t : LeftStep(t, t.c, m)) = p[1]
  BY DEF Steps
<1> HIDE DEF p
<1>3. p[1] = two
  <2>1. p[0] = one /\ p[1] = LeftStep(p[1 - 1], p[1 - 1].c, m) /\ 1 - 1 = 0
    BY <1>1
  <2> QED
    BY <2>1 DEF LeftStep
<1>4. w = Shifted(two, m)
  BY <1>2, <1>3 DEF RotateLeftX
<1>5. PICK h \in Positive : m = 2 * h
  BY DEF Even
<1>6. x \in 0..1 /\ m \in Int /\ m > 0 /\ h \in Int /\ d \in Int
  BY <1>5 DEF Bit, Positive
<1>7. 2 * d + x \in 0..m + m - 1 /\ (2 * d + x >= m) = Negative(d, m) /\ 2 * d + x = d + d + x
  BY <1>5, <1>6 DEF Negative
<1> DEFINE r == Word(2 * d + x, m)
           c == Bit(Negative(d, m))
<1>8. r \in 0..m - 1 /\ d + d + x = r + c * m
  <2>1. 2 * d + x = r + Bit(2 * d + x >= m) * m /\ r \in 0..m - 1
    BY <1>7, SumReduced
  <2> HIDE DEF r
  <2> QED
    BY <1>7, <2>1, Zenon
<1>9. w.result = r /\ w.ccr = SetNZFlags(r, m) \cup When(c = 1, {"C", "X"})
  BY <1>4 DEF Shifted
<1>10. ("C" \in w.ccr) = (c = 1) /\ ("X" \in w.ccr) = (c = 1) /\ c \in 0..1
  <2> HIDE DEF r
  <2>1. c \in 0..1
    BY DEF Bit
  <2> HIDE DEF c
  <2> QED
    BY <1>9, <2>1 DEF SetNZFlags, When
<1> HIDE DEF r, c, x
<1>11. Bit("X" \in w.ccr) = c
  BY <1>10 DEF Bit
<1> QED
  BY <1>8, <1>9, <1>10, <1>11 DEF x

\* ... and one to the right halves.
LEMMA RotatesRight ==
  ASSUME NEW m \in Positive, Even(m), NEW d \in 0..m - 1, NEW f,
         NEW w, w = RotateRightX(d, 1, f, m)
  PROVE  /\ w.result \in 0..m - 1 /\ ("C" \in w.ccr) = ("X" \in w.ccr)
         /\ w.result + w.result + Bit("X" \in w.ccr) = d + Bit("X" \in f) * m
<1> DEFINE x == Bit("X" \in f)
           one == [r |-> d, c |-> x]
           two == [r |-> d \div 2 + x * (m \div 2), c |-> d % 2]
           p == CHOOSE q : q = [i \in 0..1 |-> IF i = 0 THEN one ELSE RightStep(q[i - 1], q[i - 1].c, m)]
<1>1. p = [i \in 0..1 |-> IF i = 0 THEN one ELSE RightStep(p[i - 1], p[i - 1].c, m)]
  <2> DEFINE g == [i \in 0..1 |-> IF i = 0 THEN one ELSE two]
  <2>1. RightStep(one, one.c, m) = two
    BY DEF RightStep
  <2>2. g = [i \in 0..1 |-> IF i = 0 THEN one ELSE RightStep(g[i - 1], g[i - 1].c, m)]
    <3>1. g[0] = one /\ \A i \in 0..1 : i # 0 => i - 1 = 0
      OBVIOUS
    <3> QED
      BY <2>1, <3>1
  <2> QED
    BY <2>2
<1>2. Steps(d, x, 1, LAMBDA t : RightStep(t, t.c, m)) = p[1]
  BY DEF Steps
<1> HIDE DEF p
<1>3. p[1] = two
  <2>1. p[0] = one /\ p[1] = RightStep(p[1 - 1], p[1 - 1].c, m) /\ 1 - 1 = 0
    BY <1>1
  <2> QED
    BY <2>1 DEF RightStep
<1>4. w = Shifted(two, m)
  BY <1>2, <1>3 DEF RotateRightX
<1>5. PICK h \in Positive : m = 2 * h
  BY DEF Even
<1>6. x \in 0..1 /\ m \in Int /\ m > 0 /\ h \in Int /\ d \in Int /\ m \div 2 = h
  BY <1>5 DEF Bit, Positive
<1> DEFINE r == d \div 2 + x * (m \div 2)
           c == d % 2
<1>7. c \in 0..1 /\ d \div 2 \in 0..h - 1 /\ d = 2 * (d \div 2) + c
  BY <1>5, <1>6
<1>8. r \in 0..m - 1 /\ r + r + c = d + x * m
  BY <1>5, <1>6, <1>7
<1>9. w.result = r /\ w.ccr = SetNZFlags(r, m) \cup When(c = 1, {"C", "X"})
  BY <1>4 DEF Shifted
<1>10. ("C" \in w.ccr) = (c = 1) /\ ("X" \in w.ccr) = (c = 1)
  <2> HIDE DEF r, c
  <2> QED
    BY <1>9 DEF SetNZFlags, When
<1> HIDE DEF r, c, x
<1>11. Bit("X" \in w.ccr) = c
  BY <1>7, <1>10 DEF Bit
<1> QED
  BY <1>8, <1>9, <1>10, <1>11 DEF x

-----------------------------------------------------------------------------
(* Chains of sums, differences and rotations, from the last word to the    *)
(* first one.                                                              *)

Chains  == Binary \cup Decimal \cup {"ROXL"}
Negated == {"NEGX", "NBCD"}

Radix(r)         == IF r \in Decimal THEN Base * Base ELSE M
WordsOf(r)       == IF r \in Decimal THEN Packs ELSE Unsigned
Num(r, v)        == IF r \in Decimal THEN Unpacked(v) ELSE v
First(r, d)      == IF r \in Negated THEN 0 ELSE d
Second(r, d, s)  == IF r \in Negated \cup {"ROXL"} THEN d ELSE s

\* V of a sum or a difference.
Overflows(r, a, b, w, m) ==
  IF r = "ADDX" THEN SumV(a, b, w, m) ELSE DifferenceV(a, b, w, m)

LEMMA RadixPositive ==
  \A r : Radix(r) \in Positive
<1>1. Base \in Positive /\ Base * Base \in Positive
  BY DigitAssumption DEF Positive
<1> QED
  BY <1>1, Sizes DEF Radix

LEMMA NumBounded ==
  ASSUME NEW r, NEW v \in WordsOf(r)
  PROVE  Num(r, v) \in 0..Radix(r) - 1 /\ 0 \in WordsOf(r) /\ Num(r, 0) = 0
<1>1. CASE r \in Decimal
  <2>1. 0 \in 0..Base - 1 /\ 0 = 0 * Digit + 0
    BY DigitAssumption
  <2>2. 0 \in Packs /\ Unpacked(0) = 0
    BY <2>1, Packing
  <2>3. PICK h \in 0..Base - 1, l \in 0..Base - 1 : v = h * Digit + l
    BY <1>1 DEF WordsOf, Packs
  <2>4. Unpacked(v) \in 0..Base * Base - 1
    BY <2>3, Packing
  <2> QED
    BY <1>1, <2>2, <2>4 DEF WordsOf, Num, Radix
<1>2. CASE r \notin Decimal
  BY <1>2, Sizes DEF WordsOf, Num, Radix, Unsigned, Positive
<1> QED
  BY <1>1, <1>2

\* What a handler makes of one word.
WordMade(r, d, s, f, w) ==
  /\ w.result \in WordsOf(r)
  /\ Carries(r, Num(r, First(r, d)), Num(r, Second(r, d, s)), Bit("X" \in f),
             Num(r, w.result), Bit("X" \in w.ccr), Radix(r))
  /\ ("C" \in w.ccr) = ("X" \in w.ccr)
  /\ r # "ROXL" => ("Z" \in w.ccr) = ("Z" \in f /\ Num(r, w.result) = 0)
  /\ r \in Binary => /\ FlagsTell(w.ccr, w.result, M)
                     /\ ("V" \in w.ccr) = Overflows(r, First(r, d), Second(r, d, s), w.result, M)

\* ADDX, and SUBX or NEGX, on registers of any width.
Extended(r, a, b, f, m) ==
  Sticky(IF r = "ADDX" THEN Add(a, b, f, TRUE, m) ELSE Sub(a, b, f, TRUE, m), f)

ExtendedMade(r, a, b, f, m, w) ==
  /\ w.result \in 0..m - 1
  /\ Carries(r, a, b, Bit("X" \in f), w.result, Bit("X" \in w.ccr), m)
  /\ FlagsTell(w.ccr, w.result, m)
  /\ ("Z" \in w.ccr) = ("Z" \in f /\ w.result = 0)
  /\ ("V" \in w.ccr) = Overflows(r, a, b, w.result, m)

LEMMA ExtendedExact ==
  ASSUME NEW r \in Binary, NEW m \in Positive, NEW a \in 0..m - 1, NEW b \in 0..m - 1, NEW f
  PROVE  ExtendedMade(r, a, b, f, m, Extended(r, a, b, f, m))
<1> DEFINE u == IF r = "ADDX" THEN Add(a, b, f, TRUE, m) ELSE Sub(a, b, f, TRUE, m)
           w == Sticky(u, f)
           x   == Bit("X" \in f)
           res == Word(IF r = "ADDX" THEN a + b + x ELSE a - b - x, m)
           out == IF r = "ADDX" THEN a + b + x >= m ELSE a - b - x < 0
           c   == SetNZFlags(res, m) \cup When(out, {"C", "X"})
                    \cup When(Overflows(r, a, b, res, m), {"V"})
<1>1. Extended(r, a, b, f, m) = w
  BY DEF Extended
<1>2. (r \in Adding) = (r = "ADDX")
  BY DEF Adding, Binary
<1>3. u = [result |-> res, ccr |-> c]
  <2>1. Bit(TRUE /\ "X" \in f) = x
    BY DEF Bit
  <2>2. CASE r = "ADDX"
    BY <2>1, <2>2 DEF Add, Overflows, SumV
  <2>3. CASE r # "ADDX"
    BY <2>1, <2>3 DEF Sub, Overflows, DifferenceV
  <2> QED
    BY <2>2, <2>3
<1>4. x \in 0..1
  BY DEF Bit
<1>5. IF r = "ADDX" THEN SumMade(a, b, x, m, res, c) ELSE DifferenceMade(a, b, x, m, res, c)
  BY DEF Overflows, SumMade, DifferenceMade
<1> HIDE DEF x, res, c
<1>6. /\ res \in 0..m - 1 /\ FlagsTell(c, res, m) /\ ("Z" \in c) = (res = 0)
      /\ Carries(r, a, b, x, res, Bit("X" \in c), m)
      /\ ("V" \in c) = Overflows(r, a, b, res, m)
  <2>1. CASE r = "ADDX"
    <3>1. /\ res \in 0..m - 1 /\ FlagsTell(c, res, m) /\ a + b + x = res + Bit("X" \in c) * m
          /\ ("Z" \in c) = (res = 0) /\ ("V" \in c) = SumV(a, b, res, m)
      BY <1>4, <1>5, <2>1, SumTold
    <3> QED
      BY <1>2, <2>1, <3>1 DEF Carries, Overflows
  <2>2. CASE r # "ADDX"
    <3>1. /\ res \in 0..m - 1 /\ FlagsTell(c, res, m) /\ res + b + x = a + Bit("X" \in c) * m
          /\ ("Z" \in c) = (res = 0) /\ ("V" \in c) = DifferenceV(a, b, res, m)
      BY <1>4, <1>5, <2>2, DifferenceTold
    <3> QED
      BY <1>2, <2>2, <3>1 DEF Carries, Overflows
  <2> QED
    BY <2>1, <2>2
<1>7. /\ w.result = res /\ ("Z" \in w.ccr) = ("Z" \in f /\ "Z" \in c)
      /\ \A g : g # "Z" => (g \in w.ccr) = (g \in c)
  <2> HIDE DEF u
  <2> QED
    BY <1>3, StickyZ
<1> HIDE DEF u, w
<1>8. w.ccr \subseteq XNZVC
  BY <1>6, <1>7 DEF FlagsTell, XNZVC
<1>9. /\ ("X" \in w.ccr) = ("X" \in c) /\ ("C" \in w.ccr) = ("C" \in c)
      /\ ("N" \in w.ccr) = ("N" \in c) /\ ("V" \in w.ccr) = ("V" \in c)
  BY <1>7
<1>10. FlagsTell(w.ccr, w.result, m)
  BY <1>6, <1>7, <1>8, <1>9 DEF FlagsTell
<1>11. ExtendedMade(r, a, b, f, m, w)
  BY <1>6, <1>7, <1>9, <1>10 DEF ExtendedMade, x
<1> QED
  BY <1>1, <1>11

LEMMA BinaryMade ==
  ASSUME NEW r \in Binary, NEW d \in WordsOf(r), NEW s \in WordsOf(r), NEW f
  PROVE  WordMade(r, d, s, f, Handled(r, d, s, f))
<1> DEFINE a == First(r, d)
           b == Second(r, d, s)
           w == Extended(r, a, b, f, M)
<1>1. /\ M \in Positive /\ 0 \in Unsigned /\ WordsOf(r) = Unsigned /\ r \notin Decimal
      /\ \A v : Num(r, v) = v /\ Radix(r) = M
  BY Sizes DEF Positive, Unsigned, WordsOf, Num, Radix, Binary, Decimal
<1>2. a \in 0..M - 1 /\ b \in 0..M - 1
  BY <1>1 DEF First, Second, Unsigned
<1>3. Handled(r, d, s, f) = w
  BY DEF Handled, AddX, SubX, NegX, First, Second, Binary, Negated, Extended
<1>4. ExtendedMade(r, a, b, f, M, w)
  <2> HIDE DEF a, b
  <2> QED
    BY <1>1, <1>2, ExtendedExact
<1>5. WordMade(r, d, s, f, w)
  <2> HIDE DEF w
  <2>1. ("C" \in w.ccr) = ("X" \in w.ccr) /\ w.result \in WordsOf(r)
    BY <1>1, <1>4 DEF FlagsTell, ExtendedMade, Unsigned
  <2> QED
    BY <1>1, <1>4, <2>1 DEF WordMade, ExtendedMade
<1> QED
  BY <1>3, <1>5

LEMMA DecimalMade ==
  ASSUME NEW r \in Decimal, NEW d \in WordsOf(r), NEW s \in WordsOf(r), NEW f
  PROVE  WordMade(r, d, s, f, Handled(r, d, s, f))
<1> DEFINE a == First(r, d)
           b == Second(r, d, s)
           w == Handled(r, d, s, f)
<1>0. /\ 0 \in Packs /\ WordsOf(r) = Packs /\ r \notin Binary /\ r # "ROXL"
      /\ \A v : Num(r, v) = Unpacked(v) /\ Radix(r) = Base * Base
  BY NumBounded DEF WordsOf, Num, Radix, Binary, Decimal
<1>1. a \in Packs /\ b \in Packs
  BY <1>0 DEF First, Second
<1>2. w = IF r = "ABCD" THEN AddBcd(b, a, f, Base, Digit) ELSE SubBcd(b, a, f, Base, Digit)
  BY DEF Handled, Abcd, Sbcd, Nbcd, First, Second, Decimal, Negated
<1>3. (r \in Adding) = (r = "ABCD")
  BY DEF Adding, Decimal
<1> HIDE DEF a, b, w
<1>4. CASE r = "ABCD"
  <2>1. w = AddBcd(b, a, f, Base, Digit)
    BY <1>2, <1>4
  <2>2. /\ w.result \in Packs
        /\ Unpacked(a) + Unpacked(b) + Bit("X" \in f)
             = Unpacked(w.result) + Bit("X" \in w.ccr) * (Base * Base)
        /\ ("C" \in w.ccr) = ("X" \in w.ccr)
        /\ ("Z" \in w.ccr) = ("Z" \in f /\ Unpacked(w.result) = 0)
    BY <1>1, <2>1, AddBcdExact
  <2> QED
    BY <1>0, <1>3, <1>4, <2>2 DEF WordMade, Carries, a, b, w
<1>5. CASE r # "ABCD"
  <2>1. w = SubBcd(b, a, f, Base, Digit)
    BY <1>2, <1>5
  <2>2. /\ w.result \in Packs
        /\ Unpacked(w.result) + Unpacked(b) + Bit("X" \in f)
             = Unpacked(a) + Bit("X" \in w.ccr) * (Base * Base)
        /\ ("C" \in w.ccr) = ("X" \in w.ccr)
        /\ ("Z" \in w.ccr) = ("Z" \in f /\ Unpacked(w.result) = 0)
    BY <1>1, <2>1, SubBcdExact
  <2> QED
    BY <1>0, <1>3, <1>5, <2>2 DEF WordMade, Carries, a, b, w
<1> QED
  BY <1>4, <1>5

LEMMA RoxlMade ==
  ASSUME NEW d \in Unsigned, NEW s, NEW f
  PROVE  WordMade("ROXL", d, s, f, Handled("ROXL", d, s, f))
<1> DEFINE w == RotateLeftX(d, 1, f, M)
<1>1. Handled("ROXL", d, s, f) = w
  BY DEF Handled, Roxl
<1>2. M \in Positive /\ Even(M) /\ d \in 0..M - 1
  BY Sizes DEF Even, Unsigned
<1> HIDE DEF w
<1>3. /\ w.result \in 0..M - 1 /\ ("C" \in w.ccr) = ("X" \in w.ccr)
      /\ d + d + Bit("X" \in f) = w.result + Bit("X" \in w.ccr) * M
  BY <1>2, RotatesLeft DEF w
<1>4. /\ WordsOf("ROXL") = 0..M - 1 /\ Radix("ROXL") = M /\ \A v : Num("ROXL", v) = v
      /\ First("ROXL", d) = d /\ Second("ROXL", d, s) = d /\ "ROXL" \notin Binary
      /\ "ROXL" \in Adding
  BY DEF WordsOf, Radix, Num, First, Second, Negated, Decimal, Binary, Adding, Unsigned
<1>5. Num("ROXL", d) = d /\ Num("ROXL", w.result) = w.result
  BY <1>4
<1>6. WordMade("ROXL", d, s, f, w)
  BY <1>3, <1>4, <1>5 DEF WordMade, Carries
<1> QED
  BY <1>1, <1>6 DEF w

LEMMA HandledExact ==
  ASSUME NEW r \in Chains, NEW d \in WordsOf(r), NEW s \in WordsOf(r), NEW f
  PROVE  WordMade(r, d, s, f, Handled(r, d, s, f))
<1>1. r = "ROXL" => d \in Unsigned
  BY DEF WordsOf, Decimal
<1> QED
  BY <1>1, BinaryMade, DecimalMade, RoxlMade DEF Chains


Numeral(r, d)    == [i \in 1..N |-> Num(r, d[i])]
Firsts(r, d)     == [i \in 1..N |-> Num(r, First(r, d[i]))]
Seconds(r, d, s) == [i \in 1..N |-> Num(r, Second(r, d[i], s[i]))]

\* The words after the i-th: their number, ...
Rest(r, d, i) == Trailing(Numeral(r, d), Radix(r))[N - i]

\* ... and that the words after the i-th of what d0 and s0 were and the bit x
\* carried in have made those of d, and X of f.
Chained(r, d0, s0, x, d, f, i) ==
  Carries(r, Trailing(Firsts(r, d0), Radix(r))[N - i], Trailing(Seconds(r, d0, s0), Radix(r))[N - i],
          x, Rest(r, d, i), Bit("X" \in f), Powers(Radix(r))[N - i])

LEMMA NumeralsBounded ==
  ASSUME NEW r, NEW d \in [1..N -> WordsOf(r)], NEW s \in [1..N -> WordsOf(r)]
  PROVE  /\ Numeral(r, d) \in [1..N -> 0..Radix(r) - 1]
         /\ Firsts(r, d) \in [1..N -> 0..Radix(r) - 1]
         /\ Seconds(r, d, s) \in [1..N -> 0..Radix(r) - 1]
<1>1. \A i \in 1..N : /\ d[i] \in WordsOf(r) /\ First(r, d[i]) \in WordsOf(r)
                      /\ Second(r, d[i], s[i]) \in WordsOf(r)
  BY NumBounded DEF First, Second
<1>2. \A v \in WordsOf(r) : Num(r, v) \in 0..Radix(r) - 1
  BY NumBounded
<1> QED
  BY <1>1, <1>2 DEF Numeral, Firsts, Seconds

\* One more of the last words.
LEMMA PlaceAdded ==
  ASSUME NEW r \in Positive, NEW words \in [1..N -> 0..r - 1], NEW other \in [1..N -> 0..r - 1],
         NEW i \in 1..N, \A j \in 1..N : j > i => words[j] = other[j]
  PROVE  /\ Trailing(other, r)[N - (i - 1)]
              = Trailing(words, r)[N - i] + other[i] * Powers(r)[N - i]
         /\ Powers(r)[N - (i - 1)] = r * Powers(r)[N - i]
         /\ Trailing(words, r)[N - i] \in 0..Powers(r)[N - i] - 1
         /\ Powers(r)[N - i] \in Positive
<1> DEFINE k == N - i
<1>1. /\ k \in 0..N /\ k + 1 \in 1..N /\ (k + 1) - 1 = k /\ N + 1 - (k + 1) = i /\ N - k = i
      /\ N - (i - 1) = k + 1
  BY Sizes
<1>2. words \in Digits /\ other \in Digits /\ Trailing(words, r)[k] \in 0..Powers(r)[k] - 1
  BY <1>1, Bounded
<1>3. Trailing(other, r)[k + 1] = Trailing(other, r)[k] + other[i] * Powers(r)[k]
  BY <1>1, <1>2, TrailingUnfolds
<1>4. \A j \in 1..N : j > N - k => words[j] = other[j]
  BY <1>1
<1>5. k \in 0..k
  BY <1>1
<1>6. Trailing(words, r)[k] = Trailing(other, r)[k]
  BY <1>1, <1>2, <1>4, <1>5, TrailingLocal
<1>7. Powers(r)[k] \in Positive /\ Powers(r)[k + 1] = r * Powers(r)[k]
  BY <1>1, PowersUnfold
<1> QED
  BY <1>1, <1>2, <1>3, <1>6, <1>7

\* The carry of a word goes into the next one.
LEMMA CarriesOn ==
  ASSUME NEW r, NEW ta \in Int, NEW tb \in Int, NEW tw \in Int, NEW p \in Int, NEW m \in Int,
         NEW a \in Int, NEW b \in Int, NEW w \in Int, NEW x \in Int, NEW c \in Int, NEW e \in Int,
         Carries(r, ta, tb, x, tw, c, p), Carries(r, a, b, c, w, e, m)
  PROVE  Carries(r, ta + a * p, tb + b * p, x, tw + w * p, e, m * p)
<1>1. ASSUME NEW t \in Int, NEW u \in Int, NEW v \in Int, NEW k \in Int, NEW l \in Int, NEW n \in Int,
             t + u + x = v + c * p, k + l + c = n + e * m
      PROVE  (t + k * p) + (u + l * p) + x = (v + n * p) + e * (m * p)
  <2>1. (k + l + c) * p = k * p + l * p + c * p
    OBVIOUS
  <2>2. (n + e * m) * p = n * p + e * (m * p)
    OBVIOUS
  <2>3. k * p + l * p + c * p = n * p + e * (m * p)
    BY <1>1, <2>1, <2>2
  <2> DEFINE kp == k * p  lp == l * p  cp == c * p  np == n * p  emp == e * (m * p)
  <2>4. kp \in Int /\ lp \in Int /\ cp \in Int /\ np \in Int /\ emp \in Int
    OBVIOUS
  <2>5. kp + lp + cp = np + emp /\ t + u + x = v + cp
    BY <1>1, <2>3
  <2> HIDE DEF kp, lp, cp, np, emp
  <2>6. (t + kp) + (u + lp) + x = (v + np) + emp
    BY <2>4, <2>5
  <2> QED
    BY <2>6 DEF kp, lp, cp, np, emp
<1>2. CASE r \in Adding
  BY <1>1, <1>2 DEF Carries
<1>3. CASE r \notin Adding
  <2>1. tw + tb + x = ta + c * p /\ w + b + c = a + e * m
    BY <1>3 DEF Carries
  <2>2. (tw + w * p) + (tb + b * p) + x = (ta + a * p) + e * (m * p)
    BY <1>1, <2>1
  <2> QED
    BY <1>3, <2>2 DEF Carries
<1> QED
  BY <1>2, <1>3

\* The word at i handled, in numbers d and s0, and what that makes of d.
GrowsTo(r, d, s0, i, f, w, e) ==
  w = Handled(r, d[i], s0[i], f) /\ e = [d EXCEPT ![i] = w.result]

\* What is done so far is zero if it was and the new word is.
Vanishes(r, d, i, w, e) ==
  (Rest(r, e, i - 1) = 0) = (Rest(r, d, i) = 0 /\ Num(r, w.result) = 0)

\* One more word of a chain.
LEMMA ChainGrows ==
  ASSUME NEW r \in Chains, NEW d0 \in [1..N -> WordsOf(r)], NEW s0 \in [1..N -> WordsOf(r)],
         NEW d \in [1..N -> WordsOf(r)], NEW i \in 1..N, d[i] = d0[i], NEW x \in 0..1, NEW f,
         NEW w, NEW e, GrowsTo(r, d, s0, i, f, w, e),
         Chained(r, d0, s0, x, d, f, i)
  PROVE  /\ e \in [1..N -> WordsOf(r)]
         /\ Chained(r, d0, s0, x, e, w.ccr, i - 1)
         /\ Vanishes(r, d, i, w, e)
<1> DEFINE R  == Radix(r)
           A  == Firsts(r, d0)
           B  == Seconds(r, d0, s0)
           W  == Numeral(r, d)
           W2 == Numeral(r, e)
           k  == N - i
           p  == Powers(R)[k]
           c  == Bit("X" \in f)
           c2 == Bit("X" \in w.ccr)
<1>1. WordMade(r, d[i], s0[i], f, w) /\ w.result \in WordsOf(r)
  BY HandledExact DEF WordMade, GrowsTo
<1>2. e \in [1..N -> WordsOf(r)] /\ e[i] = w.result /\ \A j \in 1..N : j # i => e[j] = d[j]
  BY <1>1 DEF GrowsTo
<1>3. R \in Positive /\ c \in 0..1 /\ c2 \in 0..1
  BY RadixPositive DEF Bit
<1>4. /\ A \in [1..N -> 0..R - 1] /\ B \in [1..N -> 0..R - 1]
      /\ W \in [1..N -> 0..R - 1] /\ W2 \in [1..N -> 0..R - 1]
  BY <1>2, NumeralsBounded
<1>5. /\ A[i] = Num(r, First(r, d[i])) /\ B[i] = Num(r, Second(r, d[i], s0[i]))
      /\ W2[i] = Num(r, w.result) /\ \A j \in 1..N : j > i => W[j] = W2[j]
  BY <1>2 DEF Numeral, Firsts, Seconds
<1>6. Carries(r, A[i], B[i], c, W2[i], c2, R)
  BY <1>1, <1>5 DEF WordMade
<1>7. Carries(r, Trailing(A, R)[k], Trailing(B, R)[k], x, Trailing(W, R)[k], c, p)
  BY DEF Chained, Rest
<1>8. /\ Rest(r, e, i - 1) = Trailing(W2, R)[N - (i - 1)] /\ Rest(r, d, i) = Trailing(W, R)[k]
      /\ Chained(r, d0, s0, x, e, w.ccr, i - 1)
           = Carries(r, Trailing(A, R)[N - (i - 1)], Trailing(B, R)[N - (i - 1)], x,
                     Trailing(W2, R)[N - (i - 1)], c2, Powers(R)[N - (i - 1)])
  BY DEF Rest, Chained
<1> HIDE DEF R, A, B, W, W2
<1>9. /\ Trailing(A, R)[N - (i - 1)] = Trailing(A, R)[k] + A[i] * p
      /\ Trailing(A, R)[k] \in 0..p - 1
  BY <1>3, <1>4, PlaceAdded
<1>10. /\ Trailing(B, R)[N - (i - 1)] = Trailing(B, R)[k] + B[i] * p
       /\ Trailing(B, R)[k] \in 0..p - 1
  BY <1>3, <1>4, PlaceAdded
<1>11. /\ Trailing(W2, R)[N - (i - 1)] = Trailing(W, R)[k] + W2[i] * p
       /\ Trailing(W, R)[k] \in 0..p - 1 /\ p \in Positive
       /\ Powers(R)[N - (i - 1)] = R * p
  BY <1>3, <1>4, <1>5, PlaceAdded
<1> DEFINE ta == Trailing(A, R)[k]
           tb == Trailing(B, R)[k]
           tw == Trailing(W, R)[k]
           a  == A[i]
           b  == B[i]
           v  == W2[i]
<1>12. /\ ta \in Int /\ tb \in Int /\ tw \in Int /\ tw >= 0 /\ p \in Int /\ p > 0 /\ R \in Int
       /\ a \in Int /\ b \in Int /\ v \in Int /\ v >= 0
  <2>1. R \in Int /\ p \in Int /\ p > 0
    BY <1>3, <1>11 DEF Positive
  <2>2. a \in 0..R - 1 /\ b \in 0..R - 1 /\ v \in 0..R - 1
    BY <1>4
  <2>3. ta \in 0..p - 1 /\ tb \in 0..p - 1 /\ tw \in 0..p - 1
    BY <1>9, <1>10, <1>11
  <2> HIDE DEF ta, tb, tw, a, b, v, p
  <2> QED
    BY <2>1, <2>2, <2>3
<1> HIDE DEF ta, tb, tw, a, b, v, p, k, c, c2
<1>13. Carries(r, ta, tb, x, tw, c, p) /\ Carries(r, a, b, c, v, c2, R)
  BY <1>6, <1>7 DEF ta, tb, tw, a, b, v
<1>14. Carries(r, ta + a * p, tb + b * p, x, tw + v * p, c2, R * p)
  <2>1. x \in Int /\ c \in Int /\ c2 \in Int
    BY <1>3
  <2> QED
    BY <1>12, <1>13, <2>1, CarriesOn
<1>15. (tw + v * p = 0) = (tw = 0 /\ v = 0)
  <2>1. v # 0 => v * p >= p
    <3>1. v # 0 => v - 1 >= 0
      BY <1>12
    <3>2. v # 0 => (v - 1) * p >= 0
      BY <1>12, <3>1
    <3>3. (v - 1) * p = v * p - p /\ v * p \in Int
      BY <1>12
    <3> QED
      BY <1>12, <3>2, <3>3
  <2>2. v = 0 => v * p = 0
    BY <1>12
  <2>3. v * p \in Int
    BY <1>12
  <2> QED
    BY <1>12, <2>1, <2>2, <2>3
<1>16. Chained(r, d0, s0, x, e, w.ccr, i - 1)
  BY <1>8, <1>9, <1>10, <1>11, <1>14 DEF ta, tb, tw, a, b, v
<1>17. Vanishes(r, d, i, w, e)
  BY <1>5, <1>8, <1>11, <1>15 DEF tw, v, Vanishes
<1> QED
  BY <1>2, <1>16, <1>17 DEF c2, k


\* Where the pointers, the counter and the loop are, for a loop that ends with
\* the first word.
BackPlace ==
  /\ at \in 0..N /\ stage \in {"insn", "dbcc", "done"}
  /\ stage = "insn" => at >= 1 /\ count = at - 1
  /\ stage = "dbcc" => count = at
  /\ stage = "done" => at = 0

\* The invariant of a chain.
ChainWords ==
  /\ dst \in [1..N -> WordsOf(routine)] /\ src \in [1..N -> WordsOf(routine)]
  /\ start.dst \in [1..N -> WordsOf(routine)] /\ start.src = src
  /\ \A i \in 1..at : dst[i] = start.dst[i]

ChainFlags ==
  /\ at < N => ("C" \in ccr) = ("X" \in ccr)
  /\ routine # "ROXL" => ("Z" \in ccr) = ("Z" \in start.ccr /\ Rest(routine, dst, at) = 0)
  /\ routine \in Binary /\ at < N =>
       /\ FlagsTell(ccr, dst[at + 1], M)
       /\ ("V" \in ccr) = Overflows(routine, First(routine, start.dst[at + 1]),
                                    Second(routine, start.dst[at + 1], src[at + 1]), dst[at + 1], M)

ChainInv ==
  /\ BackPlace /\ ChainWords /\ ChainFlags
  /\ Chained(routine, start.dst, src, Bit("X" \in start.ccr), dst, ccr, at)

LEMMA NumbersTyped ==
  ASSUME NEW r
  PROVE  Numbers(r) \subseteq [1..N -> WordsOf(r)] /\ Zero \in [1..N -> WordsOf(r)]
<1>1. DecimalWords \subseteq Packs /\ 0 \in Unsigned /\ 0 \in Packs
  <2>1. 0 \in 0..Base - 1 /\ 0 = 0 * Digit + 0
    BY DigitAssumption
  <2>2. 0 \in Packs
    BY <2>1, Packing
  <2>3. 0 \in Unsigned
    BY Sizes DEF Unsigned, Positive
  <2> QED
    BY <2>2, <2>3, DigitAssumption
<1> QED
  BY <1>1 DEF Numbers, WordsOf, Zero

LEMMA ChainStarts ==
  ASSUME ChainInit, routine \in Chains
  PROVE  ChainInv
<1>1. /\ dst \in Numbers(routine) /\ src \in Sources(routine) /\ at = N /\ count = N - 1
      /\ stage = "insn" /\ start = [src |-> src, dst |-> dst, ccr |-> ccr]
  BY DEF ChainInit, Chains, Binary, Decimal, Forward, Single
<1>2. N \in Nat /\ N > 1
  BY Sizes
<1>3. BackPlace
  BY <1>1, <1>2 DEF BackPlace
<1>4. src \in Numbers(routine) \/ src = Zero
  BY <1>1 DEF Sources, Chains, Binary, Decimal, Single
<1>5. ChainWords
  BY <1>1, <1>4, NumbersTyped DEF ChainWords
<1> DEFINE R == Radix(routine)
           x == Bit("X" \in ccr)
<1>6. /\ start.dst = dst /\ start.ccr = ccr /\ N - at = 0
      /\ Numeral(routine, dst) \in Digits /\ Firsts(routine, dst) \in Digits
      /\ Seconds(routine, dst, src) \in Digits /\ R \in Positive
  <2>1. dst \in [1..N -> WordsOf(routine)] /\ src \in [1..N -> WordsOf(routine)]
    BY <1>5 DEF ChainWords
  <2>2. R \in Positive
    BY RadixPositive
  <2>3. /\ Numeral(routine, dst) \in [1..N -> 0..R - 1] /\ Firsts(routine, dst) \in [1..N -> 0..R - 1]
        /\ Seconds(routine, dst, src) \in [1..N -> 0..R - 1]
    BY <2>1, NumeralsBounded
  <2> HIDE DEF R
  <2>4. /\ Numeral(routine, dst) \in Digits /\ Firsts(routine, dst) \in Digits
        /\ Seconds(routine, dst, src) \in Digits
    BY <2>2, <2>3, Bounded
  <2>5. start.dst = dst /\ start.ccr = ccr /\ N - at = 0
    BY <1>1, <1>2
  <2> QED
    BY <2>2, <2>4, <2>5
<1>7. Rest(routine, dst, at) = 0
  BY <1>6, TrailingUnfolds DEF Rest
<1>8. Chained(routine, dst, src, x, dst, ccr, at)
  <2>1. /\ Trailing(Firsts(routine, dst), R)[0] = 0 /\ Trailing(Seconds(routine, dst, src), R)[0] = 0
        /\ Powers(R)[0] = 1
    BY <1>6, TrailingUnfolds, PowersUnfold
  <2>2. x \in 0..1
    BY DEF Bit
  <2>3. 0 + 0 + x = 0 + x * 1
    BY <2>2
  <2>4. Carries(routine, 0, 0, x, 0, x, 1)
    BY <2>3 DEF Carries
  <2> QED
    BY <1>6, <1>7, <2>1, <2>4 DEF Chained
<1>9. ChainFlags
  BY <1>1, <1>2, <1>6, <1>7 DEF ChainFlags
<1> QED
  BY <1>3, <1>5, <1>6, <1>8, <1>9 DEF ChainInv

LEMMA ChainLimb ==
  ASSUME ChainInv, routine \in Chains, Limb
  PROVE  ChainInv'
<1> DEFINE r == routine
           w == Handled(r, dst[at], src[at], ccr)
           x == Bit("X" \in start.ccr)
<1>0. N \in Nat /\ N > 1
  BY Sizes
<1>1. /\ dst' = [dst EXCEPT ![at] = w.result] /\ ccr' = w.ccr /\ stage' = "dbcc" /\ stage = "insn"
      /\ UNCHANGED <<routine, src, count, start>>
  BY DEF Limb
<1>2. at' = at - 1
  BY DEF Limb, Chains, Binary, Decimal, Forward
<1>3. at \in 1..N /\ count = at - 1
  BY <1>0, <1>1 DEF ChainInv, BackPlace
<1>4. /\ dst \in [1..N -> WordsOf(r)] /\ src \in [1..N -> WordsOf(r)]
      /\ start.dst \in [1..N -> WordsOf(r)] /\ start.src = src
      /\ \A i \in 1..at : dst[i] = start.dst[i]
  BY DEF ChainInv, ChainWords
<1>5. dst[at] = start.dst[at] /\ x \in 0..1
  BY <1>3, <1>4 DEF Bit
<1>6. Chained(r, start.dst, src, x, dst, ccr, at)
  BY DEF ChainInv
<1> HIDE DEF w, x
<1>7. /\ dst' \in [1..N -> WordsOf(r)]
      /\ Chained(r, start.dst, src, x, dst', w.ccr, at - 1)
      /\ Vanishes(r, dst, at, w, dst')
  <2>1. GrowsTo(r, dst, src, at, ccr, w, dst')
    BY <1>1 DEF GrowsTo, w
  <2>2. /\ dst \in [1..N -> WordsOf(r)] /\ src \in [1..N -> WordsOf(r)]
        /\ start.dst \in [1..N -> WordsOf(r)] /\ r \in Chains
    BY <1>4
  <2>3. dst' \in [1..N -> WordsOf(r)]
    BY <1>3, <1>5, <1>6, <2>1, <2>2, ChainGrows
  <2>4. Chained(r, start.dst, src, x, dst', w.ccr, at - 1)
    BY <1>3, <1>5, <1>6, <2>1, <2>2, ChainGrows
  <2>5. Vanishes(r, dst, at, w, dst')
    BY <1>3, <1>5, <1>6, <2>1, <2>2, ChainGrows
  <2> QED
    BY <2>3, <2>4, <2>5
<1>8. WordMade(r, dst[at], src[at], ccr, w)
  BY <1>3, <1>4, HandledExact DEF w
<1>9. ChainWords'
  <2>1. \A i \in 1..at - 1 : i \in 1..at /\ i \in 1..N /\ i # at
    BY <1>0, <1>3
  <2>2. \A i \in 1..at - 1 : dst'[i] = start.dst[i]
    BY <1>1, <1>4, <2>1
  <2> QED
    BY <1>1, <1>2, <1>4, <1>7, <2>2 DEF ChainWords
<1>10. BackPlace'
  BY <1>0, <1>1, <1>2, <1>3 DEF BackPlace
<1>11. dst'[at] = w.result /\ at' + 1 = at
  BY <1>1, <1>2, <1>3, <1>4
<1>12. ChainFlags'
  <2>1. ("C" \in ccr') = ("X" \in ccr')
    BY <1>1, <1>8 DEF WordMade
  <2>2. ASSUME r # "ROXL"
        PROVE  ("Z" \in ccr') = ("Z" \in start.ccr /\ Rest(r, dst', at - 1) = 0)
    <3>1. ("Z" \in ccr) = ("Z" \in start.ccr /\ Rest(r, dst, at) = 0)
      BY <2>2 DEF ChainInv, ChainFlags
    <3>2. ("Z" \in w.ccr) = ("Z" \in ccr /\ Num(r, w.result) = 0)
      BY <1>8, <2>2 DEF WordMade
    <3> QED
      BY <1>1, <1>7, <3>1, <3>2 DEF Vanishes
  <2>3. ASSUME r \in Binary
        PROVE  /\ FlagsTell(ccr', dst'[at], M)
               /\ ("V" \in ccr') = Overflows(r, First(r, start.dst[at]),
                                     Second(r, start.dst[at], src[at]), dst'[at], M)
    BY <1>1, <1>5, <1>8, <1>11, <2>3 DEF WordMade
  <2> QED
    BY <1>1, <1>2, <1>11, <2>1, <2>2, <2>3 DEF ChainFlags
<1> QED
  BY <1>1, <1>2, <1>7, <1>9, <1>10, <1>12 DEF ChainInv, x

\* DBF leaves all else alone and counts to minus one.
LEMMA BackDbcc ==
  ASSUME BackPlace, Dbcc, routine # "CMPM"
  PROVE  BackPlace' /\ UNCHANGED <<routine, src, dst, at, high, ccr, start>>
<1>1. ~ EvaluateCondition("F", ccr)
  BY DEF EvaluateCondition
<1>2. /\ stage = "dbcc" /\ count' = count - 1 /\ stage' = IF count' = -1 THEN "done" ELSE "insn"
      /\ UNCHANGED <<routine, src, dst, at, high, ccr, start>>
  BY <1>1 DEF Dbcc
<1> QED
  BY <1>2, Sizes DEF BackPlace

LEMMA ChainKept ==
  ASSUME ChainInv, routine \in Chains, [ChainNext]_chainVars
  PROVE  ChainInv' /\ routine' = routine
<1>0. /\ routine # "CMPM" /\ routine # "MULU" /\ routine # "DIVU" /\ routine \notin Single
  BY DEF Chains, Binary, Decimal, Single
<1>1. CASE Limb
  BY <1>1, ChainLimb DEF Limb
<1>2. CASE Dbcc
  <2>1. BackPlace' /\ UNCHANGED <<routine, src, dst, at, high, ccr, start>>
    BY <1>0, <1>2, BackDbcc DEF ChainInv
  <2> QED
    BY <2>1 DEF ChainInv, ChainWords, ChainFlags
<1>3. CASE UNCHANGED chainVars
  BY <1>3 DEF chainVars, ChainInv, ChainWords, ChainFlags, BackPlace
<1> QED
  BY <1>0, <1>1, <1>2, <1>3
  DEF ChainNext, Compare, Multiply, Divide, DivideByZero, MultiplySigned, DivideSigned, Single

\* A result and a carry are those of one sum or difference only.
LEMMA OnlyResult ==
  ASSUME NEW r, NEW m \in Positive, NEW a \in Int, NEW b \in Int, NEW x \in Int,
         NEW w \in 0..m - 1, NEW c \in 0..1, NEW v \in 0..m - 1, NEW e \in 0..1,
         Carries(r, a, b, x, w, c, m), Carries(r, a, b, x, v, e, m)
  PROVE  w = v /\ c = e
<1>1. m \in Int /\ m > 0
  BY DEF Positive
<1>2. /\ c * m = IF c = 1 THEN m ELSE 0
      /\ e * m = IF e = 1 THEN m ELSE 0
  <2>1. c \in {0, 1} /\ e \in {0, 1} /\ 0 * m = 0 /\ 1 * m = m
    BY <1>1
  <2> QED
    BY <2>1
<1> DEFINE cm == c * m  em == e * m
<1>3. IF r \in Adding THEN a + b + x = w + cm /\ a + b + x = v + em
                      ELSE w + b + x = a + cm /\ v + b + x = a + em
  BY DEF Carries
<1>4. (cm = IF c = 1 THEN m ELSE 0) /\ (em = IF e = 1 THEN m ELSE 0)
  BY <1>2
<1> HIDE DEF cm, em
<1> QED
  BY <1>1, <1>3, <1>4

\* The sign of a number is that of its first word.
LEMMA TopWord ==
  ASSUME NEW words \in [1..N -> 0..M - 1]
  PROVE  Negative(Value(words, M), Whole) = Negative(words[1], M)
<1> DEFINE p == Powers(M)[N - 1]
           t == Trailing(words, M)[N - 1]
           w == words[1]
<1>1. /\ M \in Positive /\ N \in Nat /\ N > 1
      /\ 1 \in 1..N /\ N \in 1..N /\ N - 1 \in 0..N /\ N - (N - 1) = 1 /\ 1 - 1 = 0
  BY Sizes
<1>2. PICK h \in Positive : M = 2 * h
  BY Sizes
<1>3. p \in Positive /\ Whole = M * p
  BY <1>1, PowersUnfold DEF Whole
<1>4. words \in Digits /\ t \in 0..p - 1
  BY <1>1, Bounded
<1>5. Leading(words, M)[1] = w
  <2>1. Leading(words, M)[0] = 0 /\ Leading(words, M)[1] = Leading(words, M)[1 - 1] * M + words[1]
    BY <1>1, <1>4, LeadingUnfolds
  <2>2. w \in Int /\ 0 * M + w = w
    BY <1>1 DEF Positive
  <2> QED
    BY <1>1, <2>1, <2>2
<1>6. Value(words, M) = w * p + t
  BY <1>1, <1>4, <1>5, Splits
<1>7. w \in 0..M - 1
  BY <1>1
<1> HIDE DEF p, t, w
<1>8. Negative(w * p + t, M * p) = Negative(w, M)
  <2>1. p \in Int /\ p > 0 /\ h \in Int /\ w \in Int /\ t \in Int /\ 0 <= t /\ t < p
    BY <1>2, <1>3, <1>4, <1>7 DEF Positive
  <2>2. Negative(w, M) = (w >= h)
    BY <1>2, <2>1 DEF Negative
  <2> DEFINE wp == w * p  hp == h * p
  <2>3. wp \in Int /\ hp \in Int /\ M * p = 2 * hp
    BY <1>2, <2>1
  <2>4. w >= h => wp >= hp
    <3>1. ASSUME w >= h PROVE (w - h) * p >= 0
      BY <2>1, <3>1
    <3>2. (w - h) * p = wp - hp
      BY <2>1
    <3> QED
      BY <2>3, <3>1, <3>2
  <2>5. w < h => wp + p <= hp
    <3>1. ASSUME w < h PROVE (h - w - 1) * p >= 0
      BY <2>1, <3>1
    <3>2. (h - w - 1) * p = hp - wp - p
      BY <2>1
    <3> QED
      BY <2>1, <2>3, <3>1, <3>2
  <2> HIDE DEF wp, hp
  <2>6. (2 * (wp + t) >= 2 * hp) = (w >= h)
    BY <2>1, <2>3, <2>4, <2>5
  <2> QED
    BY <2>2, <2>3, <2>6 DEF wp, Negative
<1> QED
  BY <1>3, <1>6, <1>8 DEF w

\* Zero words make zero.
LEMMA NothingMade ==
  ASSUME NEW R \in Positive
  PROVE  Value([i \in 1..N |-> 0], R) = 0
<1> DEFINE z == [i \in 1..N |-> 0]
           S == {k \in 0..N : Leading(z, R)[k] = 0}
<1>1. N \in Nat
  BY Sizes
<1>2. z \in Digits
  BY DEF Digits
<1> HIDE DEF z
<1>3. /\ Leading(z, R) \in [0..N -> Int] /\ Leading(z, R)[0] = 0
      /\ \A i \in 1..N : Leading(z, R)[i] = Leading(z, R)[i - 1] * R + z[i]
  BY <1>2, LeadingUnfolds
<1>4. 0 \in S
  BY <1>1, <1>3
<1>5. ASSUME NEW m \in 0..N - 1, m \in S
      PROVE  m + 1 \in S
  <2>1. m + 1 \in 1..N /\ m + 1 \in 0..N /\ (m + 1) - 1 = m
    BY <1>1
  <2>2. z[m + 1] = 0
    BY <2>1 DEF z
  <2>3. Leading(z, R)[m + 1] = Leading(z, R)[m] * R + 0
    BY <1>3, <2>1, <2>2
  <2>4. Leading(z, R)[m] = 0
    BY <1>5
  <2>5. 0 * R + 0 = 0
    BY DEF Positive
  <2> QED
    BY <2>1, <2>3, <2>4, <2>5
<1> HIDE DEF S
<1>6. N \in S
  <2>1. \A m \in 0..N : m \in S
    BY <1>1, <1>4, <1>5, Climbs
  <2> QED
    BY <1>1, <2>1
<1> QED
  BY <1>6 DEF S, Value, z

\* The two numbers of a chain, as a routine's one instruction would take them.
FirstOf(r, d)     == IF r \in Negated THEN 0 ELSE Value(Numeral(r, d), Radix(r))
SecondOf(r, d, s) == Value(Numeral(r, IF r \in Negated \cup {"ROXL"} THEN d ELSE s), Radix(r))

\* At the end of a chain the whole has been computed.
ChainEnded ==
  LET W == Value(Numeral(routine, dst), Radix(routine))
      P == Powers(Radix(routine))[N]
  IN  /\ P \in Positive /\ W \in 0..P - 1
      /\ FirstOf(routine, start.dst) \in 0..P - 1
      /\ SecondOf(routine, start.dst, start.src) \in 0..P - 1
      /\ Carries(routine, FirstOf(routine, start.dst), SecondOf(routine, start.dst, start.src),
                 Bit("X" \in start.ccr), W, Bit("X" \in ccr), P)
      /\ ("C" \in ccr) = ("X" \in ccr)
      /\ routine # "ROXL" => ("Z" \in ccr) = ("Z" \in start.ccr /\ W = 0)

LEMMA FirstsMade ==
  ASSUME NEW r, NEW d \in [1..N -> WordsOf(r)], NEW s \in [1..N -> WordsOf(r)]
  PROVE  /\ Value(Firsts(r, d), Radix(r)) = FirstOf(r, d)
         /\ Value(Seconds(r, d, s), Radix(r)) = SecondOf(r, d, s)
<1>1. CASE r \in Negated
  <2>1. Num(r, 0) = 0
    <3>1. d[1] \in WordsOf(r)
      BY Sizes
    <3> QED
      BY <3>1, NumBounded
  <2>2. Firsts(r, d) = [i \in 1..N |-> 0]
    BY <1>1, <2>1 DEF Firsts, First
  <2>3. Value(Firsts(r, d), Radix(r)) = 0
    BY <2>2, RadixPositive, NothingMade
  <2>4. Seconds(r, d, s) = Numeral(r, d)
    BY <1>1 DEF Seconds, Second, Numeral
  <2> QED
    BY <1>1, <2>3, <2>4 DEF FirstOf, SecondOf
<1>2. CASE r \notin Negated
  <2>1. Firsts(r, d) = Numeral(r, d)
    BY <1>2 DEF Firsts, First, Numeral
  <2>2. Seconds(r, d, s) = Numeral(r, IF r \in Negated \cup {"ROXL"} THEN d ELSE s)
    BY <1>2 DEF Seconds, Second, Numeral
  <2> QED
    BY <1>2, <2>1, <2>2 DEF FirstOf, SecondOf
<1> QED
  BY <1>1, <1>2

LEMMA ChainEnds ==
  ASSUME ChainInv, routine \in Chains, stage = "done"
  PROVE  ChainEnded
<1> DEFINE r  == routine
           R  == Radix(r)
           A  == Firsts(r, start.dst)
           B  == Seconds(r, start.dst, src)
           W  == Numeral(r, dst)
           x  == Bit("X" \in start.ccr)
           c  == Bit("X" \in ccr)
<1>1. at = 0 /\ N \in Nat /\ N > 1 /\ N - 0 = N
  BY Sizes DEF ChainInv, BackPlace
<1>2. /\ dst \in [1..N -> WordsOf(r)] /\ src \in [1..N -> WordsOf(r)]
      /\ start.dst \in [1..N -> WordsOf(r)] /\ start.src = src
  BY DEF ChainInv, ChainWords
<1>3. R \in Positive /\ Powers(R)[N] \in Positive
  BY <1>1, RadixPositive, PowersUnfold
<1>4. A \in [1..N -> 0..R - 1] /\ B \in [1..N -> 0..R - 1] /\ W \in [1..N -> 0..R - 1]
  BY <1>2, NumeralsBounded
<1>5. Value(A, R) = FirstOf(r, start.dst) /\ Value(B, R) = SecondOf(r, start.dst, src)
  BY <1>2, FirstsMade
<1>6. Rest(r, dst, 0) = Trailing(W, R)[N]
  BY <1>1 DEF Rest
<1>7. Chained(r, start.dst, src, x, dst, ccr, 0) =
        Carries(r, Trailing(A, R)[N], Trailing(B, R)[N], x, Rest(r, dst, 0), c, Powers(R)[N])
  BY <1>1 DEF Chained
<1>8. Chained(r, start.dst, src, x, dst, ccr, 0)
  BY <1>1 DEF ChainInv
<1>9. /\ ("C" \in ccr) = ("X" \in ccr)
      /\ r # "ROXL" => ("Z" \in ccr) = ("Z" \in start.ccr /\ Rest(r, dst, 0) = 0)
  BY <1>1 DEF ChainInv, ChainFlags
<1> HIDE DEF R, A, B, W, x, c
<1>10. /\ Value(A, R) = Trailing(A, R)[N] /\ Value(B, R) = Trailing(B, R)[N]
       /\ Value(W, R) = Trailing(W, R)[N]
       /\ Value(A, R) \in 0..Powers(R)[N] - 1 /\ Value(B, R) \in 0..Powers(R)[N] - 1
       /\ Value(W, R) \in 0..Powers(R)[N] - 1
  <2>1. A \in Digits /\ B \in Digits /\ W \in Digits
    BY <1>3, <1>4, Bounded
  <2> QED
    BY <1>3, <1>4, <2>1, Bounded, Splits
<1>11. Carries(r, Value(A, R), Value(B, R), x, Value(W, R), c, Powers(R)[N])
  BY <1>6, <1>7, <1>8, <1>10
<1> QED
  BY <1>2, <1>3, <1>5, <1>6, <1>9, <1>10, <1>11 DEF ChainEnded, R, W, x, c

LEMMA BinaryNumbers ==
  ASSUME NEW r \in Binary \cup {"ROXL"}, NEW d \in [1..N -> WordsOf(r)], NEW s \in [1..N -> WordsOf(r)]
  PROVE  /\ Radix(r) = M /\ WordsOf(r) = 0..M - 1 /\ Numeral(r, d) = d
         /\ FirstOf(r, d) = IF r = "NEGX" THEN 0 ELSE Binarily(d)
         /\ SecondOf(r, d, s) = IF r \in {"NEGX", "ROXL"} THEN Binarily(d) ELSE Binarily(s)
<1>1. r \notin Decimal /\ (r \in Negated) = (r = "NEGX")
  BY DEF Binary, Decimal, Negated
<1>2. Radix(r) = M /\ WordsOf(r) = 0..M - 1 /\ \A v : Num(r, v) = v
  BY <1>1 DEF Radix, WordsOf, Unsigned, Num
<1>3. Numeral(r, d) = d /\ Numeral(r, s) = s
  BY <1>2 DEF Numeral
<1>4. FirstOf(r, d) = IF r = "NEGX" THEN 0 ELSE Binarily(d)
  BY <1>1, <1>2, <1>3 DEF FirstOf, Binarily
<1>5. SecondOf(r, d, s) = IF r \in {"NEGX", "ROXL"} THEN Binarily(d) ELSE Binarily(s)
  BY <1>1, <1>2, <1>3 DEF SecondOf, Binarily
<1> QED
  BY <1>2, <1>3, <1>4, <1>5

\* Signs are all that V depends on.
LEMMA SameV ==
  ASSUME NEW r, NEW a, NEW b, NEW w, NEW m, NEW a2, NEW b2, NEW w2, NEW m2,
         Negative(a, m) = Negative(a2, m2), Negative(b, m) = Negative(b2, m2),
         Negative(w, m) = Negative(w2, m2)
  PROVE  Overflows(r, a, b, w, m) = Overflows(r, a2, b2, w2, m2)
BY DEF Overflows, SumV, DifferenceV

LEMMA SumEnds ==
  ASSUME ChainInv, routine \in Binary, stage = "done"
  PROVE  SumExact
<1> DEFINE r == routine
           f == start.ccr
           P == Whole
           a == FirstOf(r, start.dst)
           b == SecondOf(r, start.dst, start.src)
           w == Extended(r, a, b, f, P)
           W == Binarily(dst)
           A == Firsts(r, start.dst)
           B == Seconds(r, start.dst, start.src)
<1>1. /\ dst \in [1..N -> WordsOf(r)] /\ src \in [1..N -> WordsOf(r)]
      /\ start.dst \in [1..N -> WordsOf(r)] /\ start.src = src
  BY DEF ChainInv, ChainWords
<1>2. r \in Chains /\ r \in Binary \cup {"ROXL"} /\ r # "ROXL"
  BY DEF Chains, Binary
<1>3. /\ Radix(r) = M /\ WordsOf(r) = 0..M - 1 /\ Numeral(r, dst) = dst
      /\ a = IF r = "NEGX" THEN 0 ELSE Binarily(start.dst)
      /\ b = IF r = "NEGX" THEN Binarily(start.dst) ELSE Binarily(start.src)
  BY <1>1, <1>2, BinaryNumbers
<1>4. /\ P \in Positive /\ W \in 0..P - 1 /\ a \in 0..P - 1 /\ b \in 0..P - 1
      /\ Carries(r, a, b, Bit("X" \in f), W, Bit("X" \in ccr), P)
      /\ ("C" \in ccr) = ("X" \in ccr)
      /\ ("Z" \in ccr) = ("Z" \in f /\ W = 0)
  <2>1. ChainEnded
    BY <1>2, ChainEnds
  <2>2. Value(Numeral(r, dst), Radix(r)) = W /\ Powers(Radix(r))[N] = P
    BY <1>3 DEF Binarily, Whole
  <2> QED
    BY <1>2, <2>1, <2>2 DEF ChainEnded
<1>5. SumExact = (W = w.result /\ ccr = w.ccr)
  <2>1. w = Sticky(CASE r = "ADDX" -> Add(Binarily(start.dst), Binarily(start.src), f, TRUE, P)
                     [] r = "SUBX" -> Sub(Binarily(start.dst), Binarily(start.src), f, TRUE, P)
                     [] r = "NEGX" -> Sub(0, Binarily(start.dst), f, TRUE, P), f)
    BY <1>3 DEF Extended, Binary
  <2> HIDE DEF w
  <2> QED
    BY <2>1 DEF SumExact, Done
<1>6. ExtendedMade(r, a, b, f, P, w)
  <2> HIDE DEF P, a, b
  <2> QED
    BY <1>4, ExtendedExact
<1>7. W = w.result /\ Bit("X" \in ccr) = Bit("X" \in w.ccr)
  <2> DEFINE x == Bit("X" \in f)  c == Bit("X" \in ccr)  e == Bit("X" \in w.ccr)  v == w.result
  <2>1. x \in 0..1 /\ c \in 0..1 /\ e \in 0..1
    BY DEF Bit
  <2>2. v \in 0..P - 1 /\ Carries(r, a, b, x, v, e, P) /\ Carries(r, a, b, x, W, c, P)
    BY <1>4, <1>6 DEF ExtendedMade
  <2>3. P \in Positive /\ W \in 0..P - 1 /\ a \in Int /\ b \in Int /\ x \in Int
    BY <1>4, <2>1
  <2> HIDE DEF P, a, b, w, W, x, c, e, v
  <2>4. W = v /\ c = e
    BY <2>1, <2>2, <2>3, OnlyResult
  <2> QED
    BY <2>4 DEF c, e, v
<1>8. ("X" \in ccr) = ("X" \in w.ccr)
  BY <1>7 DEF Bit
<1>9. /\ FlagsTell(ccr, dst[1], M)
      /\ ("V" \in ccr) = Overflows(r, First(r, start.dst[1]),
                                   Second(r, start.dst[1], src[1]), dst[1], M)
  <2>1. at < N /\ at + 1 = 1
    BY Sizes DEF ChainInv, BackPlace
  <2> QED
    BY <2>1 DEF ChainInv, ChainFlags
<1>10. /\ Negative(W, P) = Negative(dst[1], M)
       /\ Negative(a, P) = Negative(A[1], M)
       /\ Negative(b, P) = Negative(B[1], M)
  <2>1. /\ A \in [1..N -> 0..M - 1] /\ B \in [1..N -> 0..M - 1]
        /\ Value(A, M) = a /\ Value(B, M) = b
    BY <1>1, <1>3, NumeralsBounded, FirstsMade
  <2>2. dst \in [1..N -> 0..M - 1]
    BY <1>1, <1>3
  <2> HIDE DEF A, B, a, b
  <2> QED
    BY <2>1, <2>2, TopWord DEF Binarily
<1>11. A[1] = First(r, start.dst[1]) /\ B[1] = Second(r, start.dst[1], src[1])
  <2>1. 1 \in 1..N /\ r \notin Decimal
    BY Sizes DEF Binary, Decimal
  <2> QED
    BY <1>1, <2>1 DEF Firsts, Seconds, Num
<1>12. ("N" \in ccr) = ("N" \in w.ccr) /\ ("V" \in ccr) = ("V" \in w.ccr)
  <2>1. Overflows(r, a, b, W, P) = Overflows(r, A[1], B[1], dst[1], M)
    <3> HIDE DEF a, b, W, P, A, B
    <3> QED
      BY <1>10, SameV
  <2> HIDE DEF a, b, W, P, A, B, w
  <2> QED
    BY <1>6, <1>7, <1>9, <1>10, <1>11, <2>1 DEF FlagsTell, ExtendedMade
<1>13. ("Z" \in ccr) = ("Z" \in w.ccr) /\ ("C" \in ccr) = ("C" \in w.ccr)
  <2> HIDE DEF a, b, W, P, w
  <2> QED
    BY <1>4, <1>6, <1>7, <1>8 DEF FlagsTell, ExtendedMade
<1>14. ccr = w.ccr
  <2>1. ccr \subseteq XNZVC /\ w.ccr \subseteq XNZVC
    BY <1>6, <1>9 DEF FlagsTell, ExtendedMade
  <2>2. \A g \in XNZVC : (g \in ccr) = (g \in w.ccr)
    BY <1>8, <1>12, <1>13 DEF XNZVC
  <2> HIDE DEF w
  <2>3. ASSUME NEW g
        PROVE  (g \in ccr) = (g \in w.ccr)
    BY <2>1, <2>2
  <2> QED
    BY <2>3
<1> QED
  BY <1>5, <1>7, <1>14

\* A number reduced, and whether that took a carry or a borrow.
LEMMA Reduces ==
  ASSUME NEW m \in Positive, NEW t \in Int, NEW w \in 0..m - 1, NEW c \in 0..1,
         t = w + c * m \/ t + c * m = w
  PROVE  t % m = w /\ (c = 1) = (t \notin 0..m - 1)
<1>1. m \in Int /\ m > 0 /\ c \in {0, 1} /\ w \in Int
  BY DEF Positive
<1>2. PICK k \in {-1, 0, 1} : t = k * m + w /\ (c = 1) = (k # 0)
  <2>1. 0 * m = 0 /\ 1 * m = m /\ (-1) * m = -m
    BY <1>1
  <2>2. CASE c = 0
    BY <1>1, <2>1, <2>2
  <2>3. CASE c = 1
    BY <1>1, <2>1, <2>3
  <2> QED
    BY <1>1, <2>2, <2>3
<1>3. t % m = w
  <2>1. k \in Int
    BY <1>2
  <2> QED
    BY <1>2, <2>1, Divides
<1>4. (t \notin 0..m - 1) = (k # 0)
  <2>1. k * m = IF k = 0 THEN 0 ELSE IF k = 1 THEN m ELSE -m
    BY <1>1, <1>2
  <2> QED
    BY <1>1, <1>2, <2>1
<1> QED
  BY <1>2, <1>3, <1>4

LEMMA DecimalEnds ==
  ASSUME ChainInv, routine \in Decimal, stage = "done"
  PROVE  DecimalExact
<1> DEFINE r == routine
           d == Decimally(start.dst)
           s == Decimally(start.src)
           x == Bit("X" \in start.ccr)
           c == Bit("X" \in ccr)
           P == Powers(Base * Base)[N]
           W == Decimally(dst)
           t == CASE r = "ABCD" -> d + s + x
                  [] r = "SBCD" -> d - s - x
                  [] r = "NBCD" -> -d - x
<1>1. /\ dst \in [1..N -> Packs] /\ src \in [1..N -> Packs]
      /\ start.dst \in [1..N -> Packs] /\ start.src = src /\ WordsOf(r) = Packs
      /\ Radix(r) = Base * Base /\ \A v : Num(r, v) = Unpacked(v)
  BY DEF ChainInv, ChainWords, WordsOf, Radix, Num
<1>2. r \in Chains /\ (r \in Negated) = (r = "NBCD") /\ (r \in Adding) = (r = "ABCD") /\ r # "ROXL"
  BY DEF Chains, Decimal, Negated, Adding
<1>3. /\ Value(Numeral(r, dst), Radix(r)) = W
      /\ FirstOf(r, start.dst) = IF r = "NBCD" THEN 0 ELSE d
      /\ SecondOf(r, start.dst, start.src) = IF r = "NBCD" THEN d ELSE s
  <2>1. /\ Numeral(r, dst) = [i \in 1..N |-> Unpacked(dst[i])]
        /\ Numeral(r, start.dst) = [i \in 1..N |-> Unpacked(start.dst[i])]
        /\ Numeral(r, start.src) = [i \in 1..N |-> Unpacked(start.src[i])]
    BY <1>1 DEF Numeral
  <2>2. /\ Value(Numeral(r, dst), Radix(r)) = W /\ Value(Numeral(r, start.dst), Radix(r)) = d
        /\ Value(Numeral(r, start.src), Radix(r)) = s
    BY <1>1, <2>1 DEF Decimally
  <2> HIDE DEF d, s, W
  <2> QED
    BY <1>2, <2>2 DEF FirstOf, SecondOf
<1> DEFINE a == IF r = "NBCD" THEN 0 ELSE d
           b == IF r = "NBCD" THEN d ELSE s
<1>4. /\ P \in Positive /\ W \in 0..P - 1 /\ a \in 0..P - 1 /\ b \in 0..P - 1
      /\ Carries(r, a, b, x, W, c, P) /\ ("C" \in ccr) = ("X" \in ccr)
      /\ ("Z" \in ccr) = ("Z" \in start.ccr /\ W = 0)
  <2>1. ChainEnded
    BY <1>2, ChainEnds
  <2> QED
    BY <1>1, <1>2, <1>3, <2>1 DEF ChainEnded
<1>5. x \in 0..1 /\ c \in 0..1 /\ (c = 1) = ("X" \in ccr)
  BY DEF Bit
<1>6. DecimalExact = (/\ \A i \in 1..N : dst[i] \in Packs
                      /\ W = t % P
                      /\ ("X" \in ccr) = (t \notin 0..P - 1)
                      /\ ("C" \in ccr) = ("X" \in ccr)
                      /\ ("Z" \in ccr) = ("Z" \in start.ccr /\ t % P = 0))
  BY DEF DecimalExact, Done
<1> DEFINE cp == c * P
<1>7. t \in Int /\ (t = W + cp \/ t + cp = W)
  <2>1. r \in {"ABCD", "SBCD", "NBCD"} /\ cp \in Int /\ P \in Int
    BY <1>4, <1>5 DEF Decimal, Positive
  <2>2. IF r = "ABCD" THEN a + b + x = W + cp ELSE W + b + x = a + cp
    BY <1>2, <1>4 DEF Carries
  <2> HIDE DEF d, s, x, c, P, W, cp
  <2>3. CASE r = "ABCD"
    <3>1. d + s + x = W + cp /\ t = d + s + x /\ d \in Int /\ s \in Int /\ x \in Int
      BY <1>4, <1>5, <2>2, <2>3
    <3> HIDE DEF t
    <3> QED
      BY <2>1, <3>1
  <2>4. CASE r = "SBCD"
    <3>1. W + s + x = d + cp /\ t = d - s - x /\ d \in Int /\ s \in Int /\ x \in Int /\ W \in Int
      BY <1>4, <1>5, <2>1, <2>2, <2>4
    <3> HIDE DEF t
    <3> QED
      BY <2>1, <3>1
  <2>5. CASE r = "NBCD"
    <3>1. W + d + x = 0 + cp /\ t = -d - x /\ d \in Int /\ x \in Int /\ W \in Int
      BY <1>4, <1>5, <2>1, <2>2, <2>5
    <3> HIDE DEF t
    <3> QED
      BY <2>1, <3>1
  <2> QED
    BY <2>1, <2>3, <2>4, <2>5
<1> HIDE DEF t, d, s, x, c, P, W, a, b
<1>8. t % P = W /\ (c = 1) = (t \notin 0..P - 1)
  BY <1>4, <1>5, <1>7, Reduces
<1>9. \A i \in 1..N : dst[i] \in Packs
  BY <1>1
<1> QED
  BY <1>4, <1>5, <1>6, <1>8, <1>9

LEMMA WholeEven ==
  Whole \in Positive /\ Even(Whole)
<1>1. /\ M \in Positive /\ N \in Nat /\ N > 1 /\ N \in 1..N /\ N - 1 \in 0..N
  BY Sizes
<1>2. PICK h \in Positive : M = 2 * h
  BY Sizes
<1>3. PICK p \in Positive : Whole = M * p
  BY <1>1, PowersUnfold DEF Whole
<1>4. h * p \in Positive /\ M * p = 2 * (h * p)
  BY <1>2 DEF Positive
<1>5. 2 * (h * p) \in Positive
  BY <1>4 DEF Positive
<1> QED
  BY <1>3, <1>4, <1>5 DEF Even

LEMMA RoxlEnds ==
  ASSUME ChainInv, routine = "ROXL", stage = "done"
  PROVE  ShiftExact
<1> DEFINE r == routine
           f == start.ccr
           P == Whole
           d == Binarily(start.dst)
           w == RotateLeftX(d, 1, f, P)
           v == w.result
           W == Binarily(dst)
           x == Bit("X" \in f)
           c == Bit("X" \in ccr)
           e == Bit("X" \in w.ccr)
<1>1. /\ dst \in [1..N -> WordsOf(r)] /\ src \in [1..N -> WordsOf(r)]
      /\ start.dst \in [1..N -> WordsOf(r)] /\ start.src = src
  BY DEF ChainInv, ChainWords
<1>2. r \in Chains /\ r \in Binary \cup {"ROXL"} /\ r \in Adding
  BY DEF Chains, Adding
<1>3. /\ Radix(r) = M /\ Numeral(r, dst) = dst
      /\ FirstOf(r, start.dst) = d /\ SecondOf(r, start.dst, start.src) = d
  BY <1>1, <1>2, BinaryNumbers
<1>4. /\ P \in Positive /\ W \in 0..P - 1 /\ d \in 0..P - 1
      /\ Carries(r, d, d, x, W, c, P) /\ ("C" \in ccr) = ("X" \in ccr)
  <2>1. ChainEnded
    BY <1>2, ChainEnds
  <2>2. Value(Numeral(r, dst), Radix(r)) = W /\ Powers(Radix(r))[N] = P
    BY <1>3 DEF Binarily, Whole
  <2> QED
    BY <1>2, <1>3, <2>1, <2>2 DEF ChainEnded
<1>5. /\ v \in 0..P - 1 /\ ("C" \in w.ccr) = ("X" \in w.ccr)
      /\ d + d + x = v + e * P
  <2> HIDE DEF P, d
  <2> QED
    BY <1>4, WholeEven, RotatesLeft DEF P
<1>6. ShiftExact = (W = v /\ ccr \cap {"X", "C"} = w.ccr \cap {"X", "C"})
  BY DEF ShiftExact, Done, Rotate
<1>7. x \in 0..1 /\ c \in 0..1 /\ e \in 0..1 /\ d \in Int /\ x \in Int
  BY <1>4 DEF Bit
<1>8. Carries(r, d, d, x, v, e, P)
  BY <1>2, <1>5 DEF Carries
<1>9. W = v /\ c = e
  <2> HIDE DEF P, d, w, v, W, x, c, e
  <2> QED
    BY <1>4, <1>5, <1>7, <1>8, OnlyResult
<1>10. ("X" \in ccr) = ("X" \in w.ccr)
  BY <1>9 DEF Bit
<1>11. ccr \cap {"X", "C"} = w.ccr \cap {"X", "C"}
  <2> HIDE DEF w
  <2> QED
    BY <1>4, <1>5, <1>10
<1> QED
  BY <1>6, <1>9, <1>11

\* Where the pointers, the counter and the loop are, for a loop that begins
\* with the first word.
FrontPlace ==
  /\ at \in 1..N + 1 /\ stage \in {"insn", "dbcc", "done", "trapped"}
  /\ stage = "insn" => at <= N /\ count = N - at
  /\ stage = "dbcc" => count = (N + 1) - at
  /\ stage = "done" /\ routine # "CMPM" => at = N + 1

\* DBF and DBNE leave all else alone and count to minus one; DBNE ends at a
\* difference.
LEMMA FrontDbcc ==
  ASSUME FrontPlace, Dbcc
  PROVE  /\ FrontPlace' /\ UNCHANGED <<routine, src, dst, at, high, ccr, start>>
         /\ stage = "dbcc" /\ stage' \in {"insn", "done"}
         /\ routine = "CMPM" /\ stage' = "insn" => "Z" \in ccr
         /\ routine = "CMPM" /\ stage' = "done" => "Z" \notin ccr \/ at = N + 1
<1>1. /\ ~ EvaluateCondition("F", ccr)
      /\ EvaluateCondition("NE", ccr) = ("Z" \notin ccr)
  BY DEF EvaluateCondition
<1>2. stage = "dbcc" /\ UNCHANGED <<routine, src, dst, at, high, ccr, start>>
  BY DEF Dbcc
<1>3. \/ /\ count' = count - 1 /\ stage' = IF count' = -1 THEN "done" ELSE "insn"
         /\ routine = "CMPM" => "Z" \in ccr
      \/ routine = "CMPM" /\ "Z" \notin ccr /\ stage' = "done" /\ UNCHANGED count
  BY <1>1 DEF Dbcc
<1> QED
  BY <1>2, <1>3, Sizes DEF FrontPlace

\* One more of the first words.
LEMMA LeadAdded ==
  ASSUME NEW words \in [1..N -> 0..M - 1], NEW other \in [1..N -> 0..M - 1],
         NEW i \in 1..N, \A j \in 1..N : j < i => words[j] = other[j]
  PROVE  /\ Leading(other, M)[i] = Leading(words, M)[i - 1] * M + other[i]
         /\ Powers(M)[i] = M * Powers(M)[i - 1]
         /\ Leading(words, M)[i - 1] \in Nat /\ Powers(M)[i - 1] \in Positive
<1>1. M \in Positive /\ N \in Nat /\ i \in Int /\ i - 1 \in 0..N
  BY Sizes
<1>2. words \in Digits /\ other \in Digits
  BY <1>1, Bounded
<1>3. \A j \in 1..i - 1 : words[j] = other[j]
  <2>1. \A j \in 1..i - 1 : j \in 1..N /\ j < i
    BY <1>1
  <2> QED
    BY <2>1
<1>4. Leading(words, M)[i - 1] = Leading(other, M)[i - 1]
  <2> DEFINE n == i - 1
  <2>1. n \in 0..N /\ n \in 0..n /\ \A j \in 1..n : words[j] = other[j]
    BY <1>1, <1>3
  <2> HIDE DEF n
  <2>2. Leading(words, M)[n] = Leading(other, M)[n]
    BY <1>1, <1>2, <2>1, LeadingLocal
  <2> QED
    BY <2>2 DEF n
<1>5. Leading(other, M)[i] = Leading(other, M)[i - 1] * M + other[i]
  BY <1>1, <1>2, LeadingUnfolds
<1>6. Powers(M)[i] = M * Powers(M)[i - 1] /\ Powers(M)[i - 1] \in Positive
  BY <1>1, PowersUnfold
<1>7. Leading(words, M)[i - 1] \in 0..Powers(M)[i - 1] - 1
  BY <1>1, Bounded
<1> QED
  BY <1>4, <1>5, <1>6, <1>7

-----------------------------------------------------------------------------
\* ROXR: the words so far are the half of what they were, and X the remainder.
RoxrInv ==
  /\ FrontPlace
  /\ dst \in [1..N -> 0..M - 1] /\ start.dst \in [1..N -> 0..M - 1]
  /\ \A i \in 1..N : i >= at => dst[i] = start.dst[i]
  /\ Leading(dst, M)[at - 1] + Leading(dst, M)[at - 1] + Bit("X" \in ccr)
       = Leading(start.dst, M)[at - 1] + Bit("X" \in start.ccr) * Powers(M)[at - 1]
  /\ at > 1 => ("C" \in ccr) = ("X" \in ccr)

LEMMA RoxrStarts ==
  ASSUME ChainInit, routine = "ROXR"
  PROVE  RoxrInv
<1>1. /\ dst \in [1..N -> 0..M - 1] /\ at = 1 /\ count = N - 1 /\ stage = "insn"
      /\ start = [src |-> src, dst |-> dst, ccr |-> ccr]
  BY DEF ChainInit, Forward, Numbers, Decimal, Unsigned
<1>2. start.dst = dst /\ start.ccr = ccr /\ at - 1 = 0
  BY <1>1
<1>3. M \in Positive /\ N \in Nat /\ N > 1
  BY Sizes
<1>4. FrontPlace
  BY <1>1, <1>3 DEF FrontPlace
<1>5. Leading(dst, M)[0] = 0 /\ Powers(M)[0] = 1
  <2>1. dst \in Digits
    BY <1>1, <1>3, Bounded
  <2> QED
    BY <1>3, <2>1, LeadingUnfolds, PowersUnfold
<1>6. 0 + 0 + Bit("X" \in ccr) = 0 + Bit("X" \in ccr) * 1
  BY DEF Bit
<1> QED
  BY <1>1, <1>2, <1>4, <1>5, <1>6 DEF RoxrInv

LEMMA HalvedOn ==
  ASSUME NEW l \in Int, NEW c \in Int, NEW l0 \in Int, NEW x \in Int, NEW p \in Int,
         NEW v \in Int, NEW e \in Int, NEW d \in Int, NEW m \in Int,
         l + l + c = l0 + x * p, v + v + e = d + c * m
  PROVE  (l * m + v) + (l * m + v) + e = (l0 * m + d) + x * (m * p)
<1>1. (l + l + c) * m = l * m + l * m + c * m
  OBVIOUS
<1>2. (l0 + x * p) * m = l0 * m + x * (m * p)
  OBVIOUS
<1>3. l * m + l * m + c * m = l0 * m + x * (m * p)
  BY <1>1, <1>2
<1> DEFINE lm == l * m  cm == c * m  km == l0 * m  xp == x * (m * p)
<1>4. lm \in Int /\ cm \in Int /\ km \in Int /\ xp \in Int
  OBVIOUS
<1>5. lm + lm + cm = km + xp /\ v + v + e = d + cm
  BY <1>3
<1> HIDE DEF lm, cm, km, xp
<1>6. (lm + v) + (lm + v) + e = (km + d) + xp
  BY <1>4, <1>5
<1> QED
  BY <1>6 DEF lm, km, xp

LEMMA RoxrLimb ==
  ASSUME RoxrInv, routine = "ROXR", Limb
  PROVE  RoxrInv'
<1> DEFINE w == Handled(routine, dst[at], src[at], ccr)
           e == dst'
<1>1. /\ dst' = [dst EXCEPT ![at] = w.result] /\ ccr' = w.ccr /\ at' = at + 1 /\ stage' = "dbcc"
      /\ stage = "insn" /\ UNCHANGED <<routine, src, count, start>>
  BY DEF Limb, Forward
<1>2. /\ M \in Positive /\ N \in Nat /\ N > 1 /\ at \in 1..N /\ count = N - at
      /\ (at + 1) - 1 = at /\ at \in Int
  BY <1>1, Sizes DEF RoxrInv, FrontPlace
<1>3. FrontPlace'
  BY <1>1, <1>2 DEF FrontPlace
<1>4. /\ dst \in [1..N -> 0..M - 1] /\ start.dst \in [1..N -> 0..M - 1]
      /\ \A i \in 1..N : i >= at => dst[i] = start.dst[i]
  BY DEF RoxrInv
<1>5. dst[at] \in 0..M - 1 /\ dst[at] = start.dst[at]
  BY <1>2, <1>4
<1>6. w = RotateRightX(dst[at], 1, ccr, M)
  BY DEF Handled, Roxr
<1>7. /\ w.result \in 0..M - 1 /\ ("C" \in w.ccr) = ("X" \in w.ccr)
      /\ w.result + w.result + Bit("X" \in w.ccr) = dst[at] + Bit("X" \in ccr) * M
  <2>1. M \in Positive /\ Even(M)
    BY Sizes DEF Even
  <2> DEFINE d == dst[at]
  <2>2. d \in 0..M - 1 /\ w = RotateRightX(d, 1, ccr, M)
    BY <1>5, <1>6
  <2> HIDE DEF w, d
  <2>3. /\ w.result \in 0..M - 1 /\ ("C" \in w.ccr) = ("X" \in w.ccr)
        /\ w.result + w.result + Bit("X" \in w.ccr) = d + Bit("X" \in ccr) * M
    BY <2>1, <2>2, RotatesRight
  <2> QED
    BY <2>3 DEF d
<1> HIDE DEF w
<1>8. e \in [1..N -> 0..M - 1] /\ e[at] = w.result /\ \A j \in 1..N : j # at => e[j] = dst[j]
  BY <1>1, <1>2, <1>4, <1>7
<1>9. \A j \in 1..N : j < at => dst[j] = e[j]
  BY <1>2, <1>8
<1>10. \A i \in 1..N : i >= at + 1 => e[i] = start.dst[i]
  BY <1>2, <1>4, <1>8
<1> HIDE DEF e
<1> DEFINE l  == Leading(dst, M)[at - 1]
           l0 == Leading(start.dst, M)[at - 1]
           p  == Powers(M)[at - 1]
           x  == Bit("X" \in start.ccr)
           c  == Bit("X" \in ccr)
           f  == Bit("X" \in w.ccr)
           v  == w.result
           d  == dst[at]
<1>11. Leading(e, M)[at] = l * M + v /\ l \in Nat
  <2>1. Leading(e, M)[at] = l * M + e[at] /\ l \in Nat
    BY <1>2, <1>4, <1>8, <1>9, LeadAdded
  <2> QED
    BY <1>8, <2>1
<1>12. /\ Leading(start.dst, M)[at] = l0 * M + d /\ l0 \in Nat
       /\ Powers(M)[at] = M * p /\ p \in Positive
  BY <1>2, <1>4, <1>5, LeadAdded
<1>13. l + l + c = l0 + x * p /\ v + v + f = d + c * M
  BY <1>7 DEF RoxrInv
<1>14. /\ x \in Int /\ c \in Int /\ f \in Int /\ v \in Int /\ d \in Int /\ p \in Int
       /\ M \in Int /\ l \in Int /\ l0 \in Int
  BY <1>2, <1>5, <1>7, <1>11, <1>12 DEF Bit, Positive
<1>15. (l * M + v) + (l * M + v) + f = (l0 * M + d) + x * (M * p)
  <2> HIDE DEF l, l0, p, x, c, f, v, d
  <2> QED
    BY <1>13, <1>14, HalvedOn
<1>16. Leading(e, M)[at] + Leading(e, M)[at] + f = Leading(start.dst, M)[at] + x * Powers(M)[at]
  BY <1>11, <1>12, <1>15
<1> QED
  BY <1>1, <1>2, <1>3, <1>4, <1>7, <1>8, <1>10, <1>16 DEF RoxrInv, e

LEMMA RoxrKept ==
  ASSUME RoxrInv, routine = "ROXR", [ChainNext]_chainVars
  PROVE  RoxrInv' /\ routine' = routine
<1>1. CASE Limb
  BY <1>1, RoxrLimb DEF Limb
<1>2. CASE Dbcc
  <2>1. FrontPlace' /\ UNCHANGED <<routine, src, dst, at, high, ccr, start>>
    BY <1>2, FrontDbcc DEF RoxrInv
  <2> QED
    BY <2>1 DEF RoxrInv
<1>3. CASE UNCHANGED chainVars
  BY <1>3 DEF chainVars, RoxrInv, FrontPlace
<1> QED
  BY <1>1, <1>2, <1>3
  DEF ChainNext, Compare, Multiply, Divide, DivideByZero, MultiplySigned, DivideSigned

LEMMA RoxrEnds ==
  ASSUME RoxrInv, routine = "ROXR", stage = "done"
  PROVE  ShiftExact
<1> DEFINE f == start.ccr
           P == Whole
           d == Binarily(start.dst)
           w == RotateRightX(d, 1, f, P)
           v == w.result
           W == Binarily(dst)
           c == Bit("X" \in ccr)
           e == Bit("X" \in w.ccr)
<1>1. at = N + 1 /\ at - 1 = N /\ at > 1 /\ N \in Nat
  BY Sizes DEF RoxrInv, FrontPlace
<1>2. W + W + c = d + Bit("X" \in f) * P /\ ("C" \in ccr) = ("X" \in ccr)
  BY <1>1 DEF RoxrInv, Binarily, Value, Whole
<1>3. d \in 0..P - 1 /\ W \in 0..P - 1
  BY Sizes, Bounded DEF RoxrInv, Binarily, Whole
<1>4. /\ v \in 0..P - 1 /\ ("C" \in w.ccr) = ("X" \in w.ccr)
      /\ v + v + e = d + Bit("X" \in f) * P
  <2> HIDE DEF P, d
  <2> QED
    BY <1>3, WholeEven, RotatesRight DEF P
<1>5. ShiftExact = (W = v /\ ccr \cap {"X", "C"} = w.ccr \cap {"X", "C"})
  BY DEF ShiftExact, Done, Rotate
<1>6. W = v /\ c = e
  <2>1. c \in 0..1 /\ e \in 0..1 /\ W \in Int /\ v \in Int
    BY <1>3, <1>4 DEF Bit
  <2>2. W + W + c = v + v + e
    BY <1>2, <1>4
  <2> HIDE DEF W, v, c, e
  <2> QED
    BY <2>1, <2>2
<1>7. ("X" \in ccr) = ("X" \in w.ccr)
  BY <1>6 DEF Bit
<1>8. ccr \cap {"X", "C"} = w.ccr \cap {"X", "C"}
  <2> HIDE DEF w
  <2> QED
    BY <1>2, <1>4, <1>7
<1> QED
  BY <1>5, <1>6, <1>8

-----------------------------------------------------------------------------
\* CMPM: the words so far are alike while the loop goes on, and C and Z tell
\* how they compare.
CompareInv ==
  /\ FrontPlace
  /\ dst \in [1..N -> 0..M - 1] /\ src \in [1..N -> 0..M - 1]
  /\ ("X" \in ccr) = ("X" \in start.ccr)
  /\ stage = "insn" => Leading(dst, M)[at - 1] = Leading(src, M)[at - 1]
  /\ stage \in {"dbcc", "done"} =>
       /\ ("C" \in ccr) = (Leading(dst, M)[at - 1] < Leading(src, M)[at - 1])
       /\ ("Z" \in ccr) = (Leading(dst, M)[at - 1] = Leading(src, M)[at - 1])
  /\ stage = "done" => "Z" \notin ccr \/ at = N + 1

LEMMA CompareStarts ==
  ASSUME ChainInit, routine = "CMPM"
  PROVE  CompareInv
<1>1. /\ dst \in [1..N -> 0..M - 1] /\ src \in [1..N -> 0..M - 1]
      /\ at = 1 /\ count = N - 1 /\ stage = "insn"
      /\ start = [src |-> src, dst |-> dst, ccr |-> ccr]
  <2>1. /\ dst \in Numbers("CMPM") /\ src \in Sources("CMPM")
        /\ at = 1 /\ count = N - 1 /\ stage = "insn"
        /\ start = [src |-> src, dst |-> dst, ccr |-> ccr]
    BY DEF ChainInit, Forward
  <2>2. Sources("CMPM") = Numbers("CMPM") /\ Numbers("CMPM") = [1..N -> 0..M - 1]
    BY DEF Sources, Numbers, Decimal, Unsigned, Single
  <2> QED
    BY <2>1, <2>2
<1>2. start.ccr = ccr /\ at - 1 = 0
  BY <1>1
<1>3. M \in Positive /\ N \in Nat /\ N > 1
  BY Sizes
<1>4. FrontPlace
  BY <1>1, <1>3 DEF FrontPlace
<1>5. Leading(dst, M)[0] = 0 /\ Leading(src, M)[0] = 0
  <2>1. dst \in Digits /\ src \in Digits
    BY <1>1, <1>3, Bounded
  <2> QED
    BY <1>3, <2>1, LeadingUnfolds
<1> QED
  BY <1>1, <1>2, <1>4, <1>5 DEF CompareInv

\* What CMPM tells of two words.
LEMMA CmpmTells ==
  ASSUME NEW d \in 0..M - 1, NEW s \in 0..M - 1, NEW f
  PROVE  /\ ("X" \in Cmpm(d, s, f)) = ("X" \in f)
         /\ ("C" \in Cmpm(d, s, f)) = (d < s)
         /\ ("Z" \in Cmpm(d, s, f)) = (d = s)
<1> DEFINE r == Word(d - s - 0, M)
           c == SetNZFlags(r, M) \cup When(d - s - 0 < 0, {"C", "X"}) \cup When(DifferenceV(d, s, r, M), {"V"})
<1>1. Bit(FALSE /\ "X" \in f) = 0
  BY DEF Bit
<1>2. Sub(d, s, f, FALSE, M).ccr = c
  BY <1>1 DEF Sub, DifferenceV
<1>3. M \in Positive /\ M \in Int /\ M > 0
  BY Sizes DEF Positive
<1>4. DifferenceMade(d, s, 0, M, r, c)
  BY DEF DifferenceMade
<1> HIDE DEF r, c
<1>5. /\ r \in 0..M - 1 /\ r + s + 0 = d + Bit("X" \in c) * M
      /\ ("Z" \in c) = (r = 0) /\ ("C" \in c) = (d < s + 0)
  <2>1. 0 \in 0..1
    OBVIOUS
  <2> QED
    BY <1>3, <1>4, <2>1, DifferenceTold
<1>6. (r = 0) = (d = s)
  <2>1. CASE "X" \in c
    <3>1. r + s + 0 = d + M
      BY <1>3, <1>5, <2>1 DEF Bit
    <3> QED
      BY <1>3, <1>5, <3>1
  <2>2. CASE "X" \notin c
    <3>1. r + s + 0 = d
      BY <1>3, <1>5, <2>2 DEF Bit
    <3> QED
      BY <1>3, <1>5, <3>1
  <2> QED
    BY <2>1, <2>2
<1>7. ("C" \in c) = (d < s) /\ ("Z" \in c) = (d = s)
  BY <1>5, <1>6
<1>8. Cmpm(d, s, f) = (f \cap {"X"}) \cup (c \ {"X"})
  BY <1>2 DEF Cmpm
<1> QED
  BY <1>7, <1>8

LEMMA CompareWord ==
  ASSUME CompareInv, Compare
  PROVE  CompareInv' /\ routine' = routine
<1>1. /\ stage = "insn" /\ routine = "CMPM" /\ ccr' = Cmpm(dst[at], src[at], ccr)
      /\ at' = at + 1 /\ stage' = "dbcc" /\ UNCHANGED <<routine, src, dst, count, high, start>>
  BY DEF Compare
<1>2. /\ M \in Positive /\ M \in Int /\ N \in Nat /\ N > 1 /\ at \in 1..N /\ count = N - at
      /\ (at + 1) - 1 = at
  BY <1>1, Sizes DEF CompareInv, FrontPlace, Positive
<1>3. FrontPlace'
  BY <1>1, <1>2 DEF FrontPlace
<1>4. /\ dst \in [1..N -> 0..M - 1] /\ src \in [1..N -> 0..M - 1]
      /\ dst[at] \in 0..M - 1 /\ src[at] \in 0..M - 1
  BY <1>2 DEF CompareInv
<1>5. /\ ("X" \in ccr') = ("X" \in ccr) /\ ("C" \in ccr') = (dst[at] < src[at])
      /\ ("Z" \in ccr') = (dst[at] = src[at])
  BY <1>1, <1>4, CmpmTells
<1> DEFINE l == Leading(dst, M)[at - 1]
           d == Leading(dst, M)[at]
           s == Leading(src, M)[at]
           t == l * M
<1>6. l \in Nat /\ d = l * M + dst[at]
  BY <1>2, <1>4, LeadAdded
<1>7. s = l * M + src[at]
  <2>1. Leading(src, M)[at - 1] = l
    BY <1>1 DEF CompareInv
  <2> QED
    BY <1>2, <1>4, <2>1, LeadAdded
<1>8. t \in Int
  <2> HIDE DEF l
  <2> QED
    BY <1>2, <1>6
<1>9. d = t + dst[at] /\ s = t + src[at] /\ dst[at] \in Int /\ src[at] \in Int
  BY <1>4, <1>6, <1>7
<1>10. (dst[at] < src[at]) = (d < s) /\ (dst[at] = src[at]) = (d = s)
  <2> DEFINE v == dst[at]  u == src[at]
  <2>1. t \in Int /\ v \in Int /\ u \in Int /\ d = t + v /\ s = t + u
    BY <1>8, <1>9
  <2> HIDE DEF t, d, s, v, u
  <2>2. (v < u) = (d < s)
    BY <2>1
  <2>3. (v = u) = (d = s)
    BY <2>1
  <2> QED
    BY <2>2, <2>3 DEF v, u
<1> HIDE DEF t, d, s
<1> QED
  BY <1>1, <1>2, <1>3, <1>4, <1>5, <1>10 DEF CompareInv, d, s

LEMMA CompareKept ==
  ASSUME CompareInv, routine = "CMPM", [ChainNext]_chainVars
  PROVE  CompareInv' /\ routine' = routine
<1>1. CASE Compare
  BY <1>1, CompareWord
<1>2. CASE Dbcc
  <2>1. /\ FrontPlace' /\ UNCHANGED <<routine, src, dst, at, high, ccr, start>>
        /\ stage = "dbcc" /\ stage' \in {"insn", "done"}
        /\ stage' = "insn" => "Z" \in ccr
        /\ stage' = "done" => "Z" \notin ccr \/ at = N + 1
    BY <1>2, FrontDbcc DEF CompareInv
  <2> QED
    BY <2>1 DEF CompareInv
<1>3. CASE UNCHANGED chainVars
  BY <1>3 DEF chainVars, CompareInv, FrontPlace
<1> QED
  BY <1>1, <1>2, <1>3
  DEF ChainNext, Limb, Multiply, Divide, DivideByZero, MultiplySigned, DivideSigned,
      Binary, Decimal, Rotate

\* A difference in the first words decides.
LEMMA Decides ==
  ASSUME NEW a \in Int, NEW b \in Int, NEW p \in Positive, NEW t \in 0..p - 1, NEW u \in 0..p - 1,
         a < b
  PROVE  a * p + t < b * p + u
<1>1. p \in Int /\ p > 0 /\ t \in Int /\ u \in Int
  BY DEF Positive
<1>2. (b - a - 1) * p >= 0
  BY <1>1
<1>3. (b - a - 1) * p = b * p - a * p - p
  BY <1>1
<1> DEFINE ap == a * p  bp == b * p
<1>4. ap \in Int /\ bp \in Int /\ bp - ap - p >= 0
  BY <1>1, <1>2, <1>3
<1> HIDE DEF ap, bp
<1>5. ap + t < bp + u
  BY <1>1, <1>4
<1> QED
  BY <1>5 DEF ap, bp

LEMMA CompareEnds ==
  ASSUME CompareInv, routine = "CMPM", stage = "done"
  PROVE  CompareExact
<1> DEFINE d == Binarily(dst)
           s == Binarily(src)
           a == Leading(dst, M)[at - 1]
           b == Leading(src, M)[at - 1]
           k == (N + 1) - at
           p == Powers(M)[k]
           t == Trailing(dst, M)[k]
           u == Trailing(src, M)[k]
<1>1. /\ M \in Positive /\ N \in Nat /\ k \in 0..N /\ N - k = at - 1 /\ at - 1 \in 0..N
  BY Sizes DEF CompareInv, FrontPlace
<1>2. dst \in [1..N -> 0..M - 1] /\ src \in [1..N -> 0..M - 1]
  BY DEF CompareInv
<1>3. /\ dst \in Digits /\ src \in Digits /\ d \in Int /\ s \in Int
      /\ t \in 0..p - 1 /\ u \in 0..p - 1 /\ p \in Positive /\ a \in Int /\ b \in Int
  <2>1. Powers(M) \in [0..N -> Positive]
    BY <1>1, PowersUnfold
  <2>2. /\ dst \in Digits /\ \A j \in 0..N : /\ Leading(dst, M)[j] \in 0..Powers(M)[j] - 1
                                            /\ Trailing(dst, M)[j] \in 0..Powers(M)[j] - 1
        /\ d \in 0..Powers(M)[N] - 1
    BY <1>1, <1>2, Bounded DEF Binarily
  <2>3. /\ src \in Digits /\ \A j \in 0..N : /\ Leading(src, M)[j] \in 0..Powers(M)[j] - 1
                                            /\ Trailing(src, M)[j] \in 0..Powers(M)[j] - 1
        /\ s \in 0..Powers(M)[N] - 1
    BY <1>1, <1>2, Bounded DEF Binarily
  <2> HIDE DEF d, s, k
  <2> QED
    BY <1>1, <2>1, <2>2, <2>3
<1>4. d = a * p + t /\ s = b * p + u
  BY <1>1, <1>3, Splits DEF Binarily
<1>5. at = N + 1 => d = a /\ s = b
  BY <1>1 DEF Binarily, Value
<1>6. /\ ("C" \in ccr) = (a < b) /\ ("Z" \in ccr) = (a = b)
      /\ "Z" \notin ccr \/ at = N + 1
  BY DEF CompareInv
<1>7. (a < b) = (d < s) /\ (a = b) = (d = s)
  <2> HIDE DEF d, s, a, b, p, t, u, k
  <2>1. CASE at = N + 1
    BY <1>5, <2>1
  <2>2. CASE a < b
    <3>1. d < s
      BY <1>3, <1>4, <2>2, Decides
    <3> QED
      BY <1>3, <2>2, <3>1
  <2>3. CASE b < a
    <3>1. s < d
      BY <1>3, <1>4, <2>3, Decides
    <3> QED
      BY <1>3, <2>3, <3>1
  <2> QED
    BY <1>3, <1>6, <2>1, <2>2, <2>3
<1>8. /\ EvaluateCondition("HI", ccr) = ("C" \notin ccr /\ "Z" \notin ccr)
      /\ EvaluateCondition("CS", ccr) = ("C" \in ccr)
      /\ EvaluateCondition("EQ", ccr) = ("Z" \in ccr)
  BY DEF EvaluateCondition
<1>9. ("X" \in ccr) = ("X" \in start.ccr)
  BY DEF CompareInv
<1> HIDE DEF a, b
<1>10. CompareExact = (/\ EvaluateCondition("HI", ccr) = (d > s)
                       /\ EvaluateCondition("CS", ccr) = (d < s)
                       /\ EvaluateCondition("EQ", ccr) = (d = s)
                       /\ ("X" \in ccr) = ("X" \in start.ccr))
  BY DEF CompareExact, Done
<1> HIDE DEF d, s
<1>11. (d > s) = (~ (d < s) /\ d # s)
  BY <1>3
<1>12. ("C" \in ccr) = (d < s) /\ ("Z" \in ccr) = (d = s)
  BY <1>6, <1>7
<1> QED
  BY <1>8, <1>9, <1>10, <1>11, <1>12

-----------------------------------------------------------------------------
\* MULU.L: the words so far and the word carried make up their product.
MultiplyInv ==
  /\ BackPlace /\ stage # "trapped"
  /\ dst \in [1..N -> 0..M - 1] /\ start.dst \in [1..N -> 0..M - 1]
  /\ start.src = src /\ src[1] \in 0..M - 1 /\ \A i \in 1..N : src[i] = src[1]
  /\ \A i \in 1..at : dst[i] = start.dst[i]
  /\ high \in 0..M - 1
  /\ Trailing(dst, M)[N - at] + high * Powers(M)[N - at] = Trailing(start.dst, M)[N - at] * src[1]
  /\ at < N => "X" \notin ccr

LEMMA OneWordTyped ==
  ASSUME NEW words \in OneWord
  PROVE  words[1] \in 0..M - 1 /\ \A i \in 1..N : words[i] = words[1]
<1>1. PICK w \in 0..M - 1 : words = [i \in 1..N |-> w]
  BY DEF OneWord, Unsigned
<1>2. 1 \in 1..N
  BY Sizes
<1> QED
  BY <1>1, <1>2

LEMMA MultiplyStarts ==
  ASSUME ChainInit, routine = "MULU"
  PROVE  MultiplyInv
<1>1. /\ dst \in Numbers("MULU") /\ src \in Sources("MULU") /\ high = 0
      /\ at = N /\ count = N - 1 /\ stage = "insn"
      /\ start = [src |-> src, dst |-> dst, ccr |-> ccr]
  BY DEF ChainInit, Forward, Single
<1>2. Sources("MULU") = OneWord /\ Numbers("MULU") = [1..N -> 0..M - 1]
  BY DEF Sources, Numbers, Decimal, Unsigned
<1>3. M \in Positive /\ N \in Nat /\ N > 1 /\ N - N = 0
  BY Sizes
<1>4. start.dst = dst /\ start.src = src
  BY <1>1
<1>5. BackPlace
  BY <1>1, <1>3 DEF BackPlace
<1>6. src[1] \in 0..M - 1 /\ \A i \in 1..N : src[i] = src[1]
  BY <1>1, <1>2, OneWordTyped
<1>7. dst \in [1..N -> 0..M - 1] /\ dst \in Digits
  BY <1>1, <1>2, <1>3, Bounded
<1>8. Trailing(dst, M)[0] = 0 /\ Powers(M)[0] = 1
  BY <1>3, <1>7, TrailingUnfolds, PowersUnfold
<1>9. 0 + 0 * 1 = 0 * src[1] /\ 0 \in 0..M - 1
  BY <1>3, <1>6 DEF Positive
<1> QED
  BY <1>1, <1>3, <1>4, <1>5, <1>6, <1>7, <1>8, <1>9 DEF MultiplyInv

\* The product of two words, in two words.
LEMMA LongProduct ==
  ASSUME NEW a \in 0..M - 1, NEW b \in 0..M - 1, NEW f, NEW p, p = LongMul(a, b, f)
  PROVE  p.lo \in 0..M - 1 /\ p.hi \in 0..M - 1 /\ a * b = p.hi * M + p.lo
<1>1. M \in Positive /\ M \in Int /\ M > 0
  BY Sizes DEF Positive
<1> DEFINE q == a * b
           s == M * M
<1>2. q \in Int /\ s \in Positive /\ 0 <= q /\ q < s
  <2>1. a \in Int /\ 0 <= a /\ b \in Int /\ 0 <= b
    BY <1>1
  <2>2. a * b >= 0 /\ a * b \in Int
    BY <2>1
  <2>3. (M - a) * b >= 0
    BY <1>1, <2>1
  <2>4. M * (M - b - 1) >= 0
    BY <1>1
  <2>5. (M - a) * b = M * b - a * b /\ M * (M - b - 1) = M * M - M * b - M
    BY <1>1, <2>1
  <2>6. M * b \in Int /\ M * M \in Int /\ M * M > 0
    BY <1>1, <2>1
  <2> DEFINE mb == M * b
  <2>7. mb \in Int /\ mb - q >= 0 /\ s - mb - M >= 0 /\ s \in Int /\ s > 0
    BY <2>3, <2>4, <2>5, <2>6
  <2> HIDE DEF mb, q, s
  <2>8. q < s
    <3>1. q \in Int
      BY <2>2 DEF q
    <3> QED
      BY <1>1, <2>7, <3>1
  <2> QED
    BY <2>2, <2>7, <2>8 DEF q, Positive
<1>3. p.lo = (q % s) % M /\ p.hi = (q % s) \div M
  BY DEF LongMul, MulLong, Word
<1> HIDE DEF q, s
<1>4. q % s = q
  <2>1. q \in 0..s - 1
    BY <1>2 DEF Positive
  <2> QED
    BY <1>2, <2>1, Small
<1>5. /\ p.lo \in 0..M - 1 /\ p.hi \in Int /\ q = p.hi * M + p.lo
  <2>1. q % M \in 0..M - 1 /\ q \div M \in Int /\ q = (q \div M) * M + (q % M)
    BY <1>1, <1>2, Divides
  <2>2. p.lo = q % M /\ p.hi = q \div M
    BY <1>3, <1>4
  <2> QED
    BY <2>1, <2>2
<1>6. p.hi \in 0..M - 1
  <2> DEFINE h == p.hi  l == p.lo
  <2>1. /\ h \in Int /\ l \in Int /\ 0 <= l /\ l < M
        /\ 0 <= h * M + l /\ h * M + l < M * M
    BY <1>1, <1>2, <1>5 DEF s
  <2> HIDE DEF h, l
  <2>2. ASSUME h < 0 PROVE FALSE
    <3>1. (-1 - h) * M >= 0 /\ (-1 - h) * M = -M - h * M
      BY <1>1, <2>1, <2>2
    <3> QED
      BY <1>1, <2>1, <3>1
  <2>3. ASSUME h >= M PROVE FALSE
    <3>1. (h - M) * M >= 0 /\ (h - M) * M = h * M - M * M
      BY <1>1, <2>1, <2>3
    <3> QED
      BY <1>1, <2>1, <3>1
  <2> QED
    BY <1>1, <2>1, <2>2, <2>3 DEF h
<1> QED
  BY <1>5, <1>6 DEF q

\* An addition of words, as ADD.L does it.
Plain(a, b, f) == Add(a, b, f, FALSE, M)

LEMMA AddTells ==
  ASSUME NEW a \in 0..M - 1, NEW b \in 0..M - 1, NEW f, NEW w, w = Plain(a, b, f)
  PROVE  w.result \in 0..M - 1 /\ a + b = w.result + Bit("X" \in w.ccr) * M
<1> DEFINE r == Word(a + b + 0, M)
           c == SetNZFlags(r, M) \cup When(a + b + 0 >= M, {"C", "X"}) \cup When(SumV(a, b, r, M), {"V"})
<1>1. w = [result |-> r, ccr |-> c]
  <2>1. Bit(FALSE /\ "X" \in f) = 0
    BY DEF Bit
  <2> QED
    BY <2>1 DEF Plain, Add, SumV
<1>2. 0 \in 0..1 /\ M \in Positive /\ SumMade(a, b, 0, M, r, c)
  BY Sizes DEF SumMade
<1> HIDE DEF r, c
<1>3. r \in 0..M - 1 /\ a + b + 0 = r + Bit("X" \in c) * M
  BY <1>2, SumTold
<1>4. a + b + 0 = a + b
  BY Sizes DEF Positive
<1> QED
  BY <1>1, <1>3, <1>4

\* A word of the product, with what the one before carried.
Carried(t, k, p, u, b, s, h, d) ==
  /\ t \in Int /\ k \in Int /\ p \in Int /\ u \in Int /\ b \in Int /\ s \in Int /\ h \in Int
  /\ d \in Int /\ t + k * p = u * b /\ d * b + k = s + h * M

LEMMA ProductGrows ==
  ASSUME NEW t, NEW k, NEW p, NEW u, NEW b, NEW s, NEW h, NEW d,
         Carried(t, k, p, u, b, s, h, d)
  PROVE  (t + s * p) + h * (M * p) = (u + d * p) * b
<1>1. M \in Int
  BY Sizes DEF Positive
<1>0. /\ t \in Int /\ k \in Int /\ p \in Int /\ u \in Int /\ b \in Int /\ s \in Int /\ h \in Int
      /\ d \in Int /\ t + k * p = u * b /\ d * b + k = s + h * M
  BY DEF Carried
<1>2. (d * b + k) * p = d * b * p + k * p /\ (s + h * M) * p = s * p + h * (M * p)
  BY <1>0, <1>1
<1>3. (u + d * p) * b = u * b + d * b * p
  BY <1>0
<1> DEFINE dbp == d * b * p  kp == k * p  sp == s * p  hmp == h * (M * p)  ub == u * b
<1>4. dbp \in Int /\ kp \in Int /\ sp \in Int /\ hmp \in Int /\ ub \in Int
  BY <1>0, <1>1
<1>5. dbp + kp = sp + hmp /\ t + kp = ub /\ (u + d * p) * b = ub + dbp
  BY <1>0, <1>2, <1>3
<1>6. (t + sp) + hmp = (u + d * p) * b
  <2> DEFINE r == (u + d * p) * b
  <2>1. r = ub + dbp
    BY <1>5
  <2> HIDE DEF dbp, kp, sp, hmp, ub, r
  <2>2. (t + sp) + hmp = r
    BY <1>0, <1>4, <1>5, <2>1
  <2> QED
    BY <2>2 DEF r
<1> QED
  BY <1>6 DEF sp, hmp

\* MULU.L by one word, ADD.L of the word carried and ADDX.L of a zero: the
\* carried word never overflows.
Multiplied(d, b, k, f, p, sum, hi) ==
  p = LongMul(d, b, f) /\ sum = Plain(p.lo, k, p.ccr) /\ hi = AddX(p.hi, 0, sum.ccr)

LEMMA ProductStep ==
  ASSUME NEW d \in 0..M - 1, NEW b \in 0..M - 1, NEW k \in 0..M - 1, NEW f,
         NEW p, NEW sum, NEW hi, Multiplied(d, b, k, f, p, sum, hi)
  PROVE  /\ sum.result \in 0..M - 1 /\ hi.result \in 0..M - 1
         /\ d * b + k = sum.result + hi.result * M /\ "X" \notin hi.ccr
<1>1. M \in Positive /\ M \in Int /\ M > 0 /\ 0 \in 0..M - 1
  BY Sizes DEF Positive
<1>2. p.lo \in 0..M - 1 /\ p.hi \in 0..M - 1 /\ d * b = p.hi * M + p.lo
  <2>1. p = LongMul(d, b, f)
    BY DEF Multiplied
  <2> QED
    BY <2>1, LongProduct
<1> DEFINE s == sum.result
           h == hi.result
           c == Bit("X" \in sum.ccr)
           e == Bit("X" \in hi.ccr)
           l == p.lo
           g == p.hi
<1>3. s \in 0..M - 1 /\ l + k = s + c * M
  <2>1. l \in 0..M - 1 /\ sum = Plain(l, k, p.ccr)
    BY <1>2 DEF Multiplied
  <2> HIDE DEF l
  <2> QED
    BY <2>1, AddTells
<1>4. h \in 0..M - 1 /\ g + c = h + e * M
  <2>1. hi = Extended("ADDX", g, 0, sum.ccr, M)
    BY DEF AddX, Extended, Multiplied
  <2>2. "ADDX" \in Binary /\ "ADDX" \in Adding /\ g \in 0..M - 1
    BY <1>2 DEF Binary, Adding
  <2>3. ExtendedMade("ADDX", g, 0, sum.ccr, M, hi)
    <3> HIDE DEF g
    <3> QED
      BY <1>1, <2>1, <2>2, ExtendedExact
  <2>4. h \in 0..M - 1 /\ g + 0 + c = h + e * M
    BY <2>2, <2>3 DEF ExtendedMade, Carries
  <2>5. g \in Int /\ c \in Int
    BY <1>1, <2>2 DEF Bit
  <2> HIDE DEF g, c, h, e
  <2>6. g + 0 + c = g + c
    BY <2>5
  <2> QED
    BY <2>4, <2>6
<1>5. c \in 0..1 /\ e \in 0..1 /\ (e = 1) = ("X" \in hi.ccr)
  BY DEF Bit
<1>6. d * b + k < M * M
  <2>1. d \in Int /\ b \in Int /\ 0 <= d /\ 0 <= b /\ d <= M - 1 /\ b <= M - 1 /\ k \in Int /\ k <= M - 1
    BY <1>1
  <2>2. (M - 1 - d) * b >= 0 /\ (M - 1) * (M - 1 - b) >= 0
    BY <1>1, <2>1
  <2>3. /\ (M - 1 - d) * b = M * b - b - d * b
        /\ (M - 1) * (M - 1 - b) = M * M - M - M * b - M + 1 + b
    BY <1>1, <2>1
  <2> DEFINE mb == M * b  db == d * b  mm == M * M
  <2>4. mb \in Int /\ db \in Int /\ mm \in Int /\ mb - b - db >= 0 /\ mm - M - mb - M + 1 + b >= 0
    BY <1>1, <2>1, <2>2, <2>3
  <2> HIDE DEF mb, db, mm
  <2>5. db + k < mm
    BY <1>1, <2>1, <2>4
  <2> QED
    BY <2>5 DEF db, mm
<1> HIDE DEF s, h, c, e, l, g
<1>7. d * b + k = (g + c) * M + s
  <2>1. g \in Int /\ l \in Int /\ s \in Int /\ d * b = g * M + l /\ k \in Int /\ c \in Int
    BY <1>1, <1>2, <1>3, <1>5 DEF g, l
  <2>2. (g + c) * M = g * M + c * M
    BY <1>1, <2>1
  <2> DEFINE gm == g * M  cm == c * M  db == d * b  t == (g + c) * M
  <2>3. gm \in Int /\ cm \in Int /\ db = gm + l /\ t = gm + cm /\ l + k = s + cm
    BY <1>1, <1>3, <2>1, <2>2
  <2> HIDE DEF gm, cm, db, t
  <2>4. db + k = t + s
    BY <2>1, <2>3
  <2> QED
    BY <2>4 DEF db, t
<1>8. g + c < M
  <2>1. g + c \in Int /\ s \in Int /\ s >= 0
    BY <1>1, <1>2, <1>3, <1>5 DEF g
  <2> DEFINE n == g + c
  <2>2. n \in Int /\ n * M + s < M * M
    BY <1>6, <1>7, <2>1
  <2> HIDE DEF n
  <2>3. ASSUME n >= M PROVE FALSE
    <3>1. (n - M) * M >= 0 /\ (n - M) * M = n * M - M * M
      BY <1>1, <2>2, <2>3
    <3> QED
      BY <1>1, <2>1, <2>2, <3>1
  <2> QED
    BY <1>1, <2>2, <2>3 DEF n
<1>9. e = 0 /\ h = g + c
  <2>1. g \in Int /\ c \in Int
    BY <1>1, <1>2, <1>5 DEF g
  <2>2. CASE e = 1
    <3>1. g + c = h + M
      BY <1>1, <1>4, <2>2
    <3> QED
      BY <1>1, <1>4, <1>8, <2>1, <3>1
  <2>3. CASE e = 0
    <3>1. g + c = h + 0 * M /\ 0 * M = 0
      BY <1>1, <1>4, <2>3
    <3> QED
      BY <1>1, <1>4, <2>1, <2>3, <3>1
  <2> QED
    BY <1>5, <2>2, <2>3
<1>10. d * b + k = s + h * M
  <2> DEFINE t == (g + c) * M
  <2>1. t = h * M /\ t \in Int /\ s \in Int
    BY <1>1, <1>3, <1>4, <1>9
  <2>2. d * b + k = t + s
    BY <1>7
  <2> HIDE DEF t
  <2>3. t + s = s + t
    BY <2>1
  <2> QED
    BY <2>1, <2>2, <2>3
<1> QED
  BY <1>3, <1>4, <1>5, <1>9, <1>10 DEF s, h

LEMMA MultiplyWord ==
  ASSUME MultiplyInv, Multiply
  PROVE  MultiplyInv' /\ routine' = routine
<1> DEFINE d   == dst[at]
           b   == src[1]
           p   == LongMul(d, b, ccr)
           sum == Plain(p.lo, high, p.ccr)
           hi  == AddX(p.hi, 0, sum.ccr)
<1>1. stage = "insn" /\ at' = at - 1 /\ stage' = "dbcc" /\ UNCHANGED <<routine, src, count, start>>
  BY DEF Multiply
<1>2. /\ M \in Positive /\ N \in Nat /\ N > 1 /\ at \in 1..N /\ count = at - 1
      /\ N - (at - 1) \in 0..N /\ N - at \in 0..N
  BY <1>1, Sizes DEF MultiplyInv, BackPlace
<1>3. /\ dst \in [1..N -> 0..M - 1] /\ start.dst \in [1..N -> 0..M - 1]
      /\ start.src = src /\ b \in 0..M - 1 /\ \A i \in 1..N : src[i] = b
      /\ \A i \in 1..at : dst[i] = start.dst[i]
      /\ high \in 0..M - 1
  BY DEF MultiplyInv
<1>4. d \in 0..M - 1 /\ d = start.dst[at] /\ src[at] = b
  <2>1. at \in 1..at /\ at \in 1..N
    BY <1>2
  <2> QED
    BY <1>3, <2>1
<1>5. dst' = [dst EXCEPT ![at] = sum.result] /\ high' = hi.result /\ ccr' = hi.ccr
  BY <1>4 DEF Multiply, Plain
<1>6. /\ sum.result \in 0..M - 1 /\ hi.result \in 0..M - 1
      /\ d * b + high = sum.result + hi.result * M /\ "X" \notin hi.ccr
  <2>1. Multiplied(d, b, high, ccr, p, sum, hi)
    BY DEF Multiplied
  <2> HIDE DEF d, b, p, sum, hi
  <2> QED
    BY <1>3, <1>4, <2>1, ProductStep
<1> HIDE DEF p, sum, hi
<1> DEFINE e == dst'
<1>7. e \in [1..N -> 0..M - 1] /\ e[at] = sum.result /\ \A j \in 1..N : j # at => e[j] = dst[j]
  BY <1>2, <1>3, <1>5, <1>6
<1>8. \A j \in 1..N : j > at => dst[j] = e[j]
  BY <1>2, <1>7
<1>9. \A i \in 1..at - 1 : e[i] = start.dst[i]
  <2>1. \A i \in 1..at - 1 : i \in 1..at /\ i \in 1..N /\ i # at
    BY <1>2
  <2> QED
    BY <1>3, <1>7, <2>1
<1>10. BackPlace' /\ stage' # "trapped"
  BY <1>1, <1>2 DEF BackPlace
<1> HIDE DEF e
<1> DEFINE q == Powers(M)[N - at]
           t == Trailing(dst, M)[N - at]
           u == Trailing(start.dst, M)[N - at]
           s == sum.result
           h == hi.result
<1>11. /\ Trailing(e, M)[N - (at - 1)] = t + s * q /\ Powers(M)[N - (at - 1)] = M * q
       /\ t \in 0..q - 1 /\ q \in Positive
  <2>1. at \in 1..N /\ M \in Positive /\ dst \in [1..N -> 0..M - 1] /\ e \in [1..N -> 0..M - 1]
    BY <1>2, <1>3, <1>7
  <2>2. /\ Trailing(e, M)[N - (at - 1)] = t + e[at] * q /\ Powers(M)[N - (at - 1)] = M * q
        /\ t \in 0..q - 1 /\ q \in Positive
    BY <1>8, <2>1, PlaceAdded
  <2> QED
    BY <1>7, <2>2
<1>12. Trailing(start.dst, M)[N - (at - 1)] = u + d * q /\ u \in 0..q - 1
  <2>1. at \in 1..N /\ M \in Positive /\ start.dst \in [1..N -> 0..M - 1]
    BY <1>2, <1>3
  <2> DEFINE o == start.dst
  <2>2. o \in [1..N -> 0..M - 1] /\ \A j \in 1..N : j > at => o[j] = o[j]
    BY <2>1
  <2> HIDE DEF o
  <2>3. /\ Trailing(o, M)[N - (at - 1)] = Trailing(o, M)[N - at] + o[at] * q
        /\ Trailing(o, M)[N - at] \in 0..q - 1
    BY <2>1, <2>2, PlaceAdded
  <2> QED
    BY <1>4, <2>3 DEF o
<1>13. t + high * q = u * b
  BY DEF MultiplyInv
<1>14. /\ t \in Int /\ u \in Int /\ q \in Int /\ s \in Int /\ h \in Int /\ d \in Int /\ b \in Int
       /\ high \in Int
  <2>1. q \in Int /\ M \in Int
    BY <1>2, <1>11 DEF Positive
  <2>2. s \in 0..M - 1 /\ h \in 0..M - 1
    BY <1>6
  <2> HIDE DEF q, t, u, s, h, d, b
  <2> QED
    BY <1>3, <1>4, <1>11, <1>12, <2>1, <2>2
<1>15. (t + s * q) + h * (M * q) = (u + d * q) * b
  <2>1. d * b + high = s + h * M
    BY <1>6
  <2> HIDE DEF q, t, u, s, h, d, b
  <2>2. Carried(t, high, q, u, b, s, h, d)
    BY <1>13, <1>14, <2>1 DEF Carried
  <2> QED
    BY <2>2, ProductGrows
<1>16. Trailing(e, M)[N - (at - 1)] + hi.result * Powers(M)[N - (at - 1)]
         = Trailing(start.dst, M)[N - (at - 1)] * b
  BY <1>11, <1>12, <1>15
<1> QED
  BY <1>1, <1>3, <1>5, <1>6, <1>7, <1>9, <1>10, <1>16 DEF MultiplyInv, e

LEMMA MultiplyKept ==
  ASSUME MultiplyInv, routine = "MULU", [ChainNext]_chainVars
  PROVE  MultiplyInv' /\ routine' = routine
<1>1. CASE Multiply
  BY <1>1, MultiplyWord
<1>2. CASE Dbcc
  <2>1. BackPlace' /\ UNCHANGED <<routine, src, dst, at, high, ccr, start>>
    BY <1>2, BackDbcc DEF MultiplyInv
  <2>2. stage' # "trapped"
    BY <1>2 DEF Dbcc
  <2> QED
    BY <2>1, <2>2 DEF MultiplyInv
<1>3. CASE UNCHANGED chainVars
  BY <1>3 DEF chainVars, MultiplyInv, BackPlace
<1> QED
  BY <1>1, <1>2, <1>3
  DEF ChainNext, Limb, Compare, Divide, DivideByZero, MultiplySigned, DivideSigned,
      Binary, Decimal, Rotate

LEMMA MultiplyEnds ==
  ASSUME MultiplyInv, routine = "MULU", stage = "done"
  PROVE  ProductExact
<1>1. at = 0 /\ N - at = N /\ at < N /\ M \in Positive /\ N \in Nat /\ N \in 0..N
  BY Sizes DEF MultiplyInv, BackPlace
<1>2. dst \in [1..N -> 0..M - 1] /\ start.dst \in [1..N -> 0..M - 1] /\ start.src = src
  BY DEF MultiplyInv
<1>3. dst \in Digits /\ start.dst \in Digits /\ Binarily(dst) \in Int /\ Whole \in Int
  <2>1. Whole \in Int
    BY WholeEven DEF Positive
  <2>2. dst \in Digits /\ start.dst \in Digits /\ Binarily(dst) \in 0..Whole - 1
    BY <1>1, <1>2, Bounded DEF Binarily, Whole
  <2> QED
    BY <2>1, <2>2
<1>4. /\ Binarily(dst) = Trailing(dst, M)[N] /\ Binarily(start.dst) = Trailing(start.dst, M)[N]
  BY <1>1, <1>3, Splits DEF Binarily
<1>5. /\ Binarily(dst) + high * Whole = Binarily(start.dst) * start.src[1] /\ "X" \notin ccr
  BY <1>1, <1>2, <1>4 DEF MultiplyInv, Whole
<1>6. high * Whole \in Int
  <2>1. high \in Int
    BY Sizes DEF MultiplyInv
  <2> QED
    BY <1>3, <2>1
<1>7. high * Whole + Binarily(dst) = Binarily(start.dst) * start.src[1]
  <2> DEFINE u == Binarily(dst)  k == high * Whole  r == Binarily(start.dst) * start.src[1]
  <2>1. u \in Int /\ k \in Int /\ u + k = r
    BY <1>3, <1>5, <1>6
  <2> HIDE DEF u, k, r
  <2>2. k + u = r
    BY <2>1
  <2> QED
    BY <2>2 DEF u, k, r
<1> QED
  BY <1>5, <1>7 DEF ProductExact, Done

-----------------------------------------------------------------------------
\* DIVU.L of what is carried and a word: the quotient always fits.
Shared(hi, d, b, q, r) == q \in 0..M - 1 /\ r \in 0..b - 1 /\ hi * M + d = q * b + r

LEMMA DivideStep ==
  ASSUME NEW b \in 1..M - 1, NEW hi \in 0..b - 1, NEW d \in 0..M - 1, NEW f,
         NEW q, q = LongDiv(hi, d, b, f)
  PROVE  q.overflow = FALSE /\ Shared(hi, d, b, q.quotient, q.remainder) /\ "V" \notin q.ccr
<1>1. M \in Positive /\ M \in Int /\ M > 0 /\ b \in Positive /\ b \in Int /\ b > 0 /\ b < M
  BY Sizes DEF Positive
<1> DEFINE a == hi * M + d
           t == a \div b
           u == a % b
<1>2. hi \in Int /\ 0 <= hi /\ hi <= b - 1 /\ d \in Int /\ 0 <= d /\ d < M
  BY <1>1
<1>3. a \in Int /\ 0 <= a /\ a < b * M
  <2>1. hi * M >= 0 /\ (b - 1 - hi) * M >= 0
    BY <1>1, <1>2
  <2>2. (b - 1 - hi) * M = b * M - M - hi * M
    BY <1>1, <1>2
  <2> DEFINE bm == b * M  hm == hi * M
  <2>3. bm \in Int /\ hm \in Int /\ hm >= 0 /\ bm - M - hm >= 0
    BY <1>1, <1>2, <2>1, <2>2
  <2> HIDE DEF bm, hm
  <2>4. hm + d \in Int /\ 0 <= hm + d /\ hm + d < bm
    BY <1>1, <1>2, <2>3
  <2> QED
    BY <2>4 DEF hm, bm
<1> HIDE DEF a
<1>4. t \in Int /\ u \in 0..b - 1 /\ a = t * b + u
  BY <1>1, <1>3, Divides
<1> HIDE DEF t, u
<1>5. t \in 0..M - 1
  <2>1. u \in Int /\ 0 <= u /\ u < b
    BY <1>1, <1>4
  <2>2. ASSUME t < 0 PROVE FALSE
    <3>1. (-1 - t) * b >= 0 /\ (-1 - t) * b = -b - t * b
      BY <1>1, <1>4, <2>2
    <3> QED
      BY <1>1, <1>3, <1>4, <2>1, <3>1
  <2>3. ASSUME t >= M PROVE FALSE
    <3>1. (t - M) * b >= 0 /\ (t - M) * b = t * b - b * M
      BY <1>1, <1>4, <2>3
    <3> QED
      BY <1>1, <1>3, <1>4, <2>1, <3>1
  <2> QED
    BY <1>1, <1>4, <2>2, <2>3
<1>6. Quotient(a, b) = t /\ Remainder(a, b) = u
  <2>1. Magnitude(a) = a /\ Magnitude(b) = b /\ ~ (a < 0) /\ ~ (b < 0)
    BY <1>1, <1>3 DEF Magnitude
  <2>2. Quotient(a, b) = t
    BY <2>1 DEF Quotient, t
  <2>3. a - b * t = u
    <3>1. b * t = t * b /\ t * b \in Int /\ u \in Int
      BY <1>1, <1>4
    <3> DEFINE tb == t * b
    <3>2. tb \in Int /\ b * t = tb /\ a = tb + u /\ u \in Int
      BY <1>4, <3>1
    <3> HIDE DEF tb
    <3> QED
      BY <3>2
  <2> QED
    BY <2>2, <2>3 DEF Remainder
<1>7. t % M = t /\ u % M = u
  <2>1. u \in 0..M - 1
    BY <1>1, <1>4
  <2> QED
    BY <1>1, <1>5, <2>1, Small
<1>8. q = [overflow |-> FALSE, quotient |-> t, remainder |-> u, ccr |-> SetNZFlags(t, M)]
  <2>1. ~ (t < 0 \/ t > M - 1)
    BY <1>1, <1>5
  <2>2. q = Divided(a, b, 0, M - 1, M)
    BY DEF LongDiv, DivUnsigned, a
  <2> QED
    BY <1>6, <1>7, <2>1, <2>2 DEF Divided, Word
<1>9. "V" \notin SetNZFlags(t, M)
  BY DEF SetNZFlags, When
<1> QED
  BY <1>4, <1>5, <1>8, <1>9 DEF Shared, a

\* DIVU.L: the words so far are the quotient, and the carried word is the
\* remainder.
DivideInv ==
  /\ FrontPlace
  /\ dst \in [1..N -> 0..M - 1] /\ start.dst \in [1..N -> 0..M - 1]
  /\ start.src = src /\ src[1] \in 0..M - 1 /\ \A i \in 1..N : src[i] = src[1]
  /\ \A i \in 1..N : i >= at => dst[i] = start.dst[i]
  /\ high \in 0..M - 1
  /\ Leading(dst, M)[at - 1] * src[1] + high = Leading(start.dst, M)[at - 1]
  /\ at = 1 => high = 0
  /\ at > 1 => high < src[1] /\ "V" \notin ccr

LEMMA DivideStarts ==
  ASSUME ChainInit, routine = "DIVU"
  PROVE  DivideInv
<1>1. /\ dst \in Numbers("DIVU") /\ src \in Sources("DIVU") /\ high = 0
      /\ at = 1 /\ count = N - 1 /\ stage = "insn"
      /\ start = [src |-> src, dst |-> dst, ccr |-> ccr]
  BY DEF ChainInit, Forward
<1>2. Sources("DIVU") = OneWord /\ Numbers("DIVU") = [1..N -> 0..M - 1]
  BY DEF Sources, Numbers, Decimal, Unsigned
<1>3. M \in Positive /\ N \in Nat /\ N > 1 /\ at - 1 = 0
  BY <1>1, Sizes
<1>4. start.dst = dst /\ start.src = src
  BY <1>1
<1>5. FrontPlace
  BY <1>1, <1>3 DEF FrontPlace
<1>6. src[1] \in 0..M - 1 /\ \A i \in 1..N : src[i] = src[1]
  BY <1>1, <1>2, OneWordTyped
<1>7. dst \in [1..N -> 0..M - 1] /\ dst \in Digits
  BY <1>1, <1>2, <1>3, Bounded
<1>8. Leading(dst, M)[0] = 0
  BY <1>3, <1>7, LeadingUnfolds
<1>9. 0 * src[1] + 0 = 0 /\ 0 \in 0..M - 1
  BY <1>3, <1>6 DEF Positive
<1> QED
  BY <1>1, <1>3, <1>4, <1>5, <1>6, <1>7, <1>8, <1>9 DEF DivideInv

\* A word of the quotient, with what the division before left.
LeftOver(l, b, h, k, q, r, d) ==
  /\ l \in Int /\ b \in Int /\ h \in Int /\ k \in Int /\ q \in Int /\ r \in Int /\ d \in Int
  /\ l * b + h = k /\ h * M + d = q * b + r

LEMMA QuotientGrows ==
  ASSUME NEW l, NEW b, NEW h, NEW k, NEW q, NEW r, NEW d, LeftOver(l, b, h, k, q, r, d)
  PROVE  (l * M + q) * b + r = k * M + d
<1>1. /\ l \in Int /\ b \in Int /\ h \in Int /\ k \in Int /\ q \in Int /\ r \in Int /\ d \in Int
      /\ l * b + h = k /\ h * M + d = q * b + r /\ M \in Int
  BY Sizes DEF LeftOver, Positive
<1>2. (l * M + q) * b = l * b * M + q * b /\ (l * b + h) * M = l * b * M + h * M
  BY <1>1
<1> DEFINE lbm == l * b * M  qb == q * b  hm == h * M  t == (l * M + q) * b  u == k * M
<1>3. /\ lbm \in Int /\ qb \in Int /\ hm \in Int /\ t = lbm + qb /\ u = lbm + hm
      /\ hm + d = qb + r
  BY <1>1, <1>2
<1> HIDE DEF lbm, qb, hm, t, u
<1>4. t + r = u + d
  BY <1>1, <1>3
<1> QED
  BY <1>4 DEF t, u

LEMMA DivideWord ==
  ASSUME DivideInv, Divide
  PROVE  DivideInv' /\ routine' = routine
<1> DEFINE d == dst[at]
           b == src[1]
           q == LongDiv(high, d, b, ccr)
           e == dst'
<1>1. stage = "insn" /\ at' = at + 1 /\ stage' = "dbcc" /\ UNCHANGED <<routine, src, count, start>>
  BY DEF Divide
<1>2. /\ M \in Positive /\ M \in Int /\ M > 0 /\ N \in Nat /\ N > 1 /\ at \in 1..N /\ count = N - at
      /\ (at + 1) - 1 = at /\ at \in Int
  BY <1>1, Sizes DEF DivideInv, FrontPlace, Positive
<1>3. FrontPlace'
  BY <1>1, <1>2 DEF FrontPlace
<1>4. /\ dst \in [1..N -> 0..M - 1] /\ start.dst \in [1..N -> 0..M - 1]
      /\ start.src = src /\ b \in 0..M - 1 /\ \A i \in 1..N : src[i] = b
      /\ \A i \in 1..N : i >= at => dst[i] = start.dst[i]
      /\ high \in 0..M - 1
      /\ at = 1 => high = 0
      /\ at > 1 => high < b
  BY DEF DivideInv
<1>5. d \in 0..M - 1 /\ d = start.dst[at] /\ src[at] = b
  <2>1. at >= at /\ at \in 1..N
    BY <1>2
  <2> QED
    BY <1>4, <2>1
<1>6. b \in 1..M - 1 /\ high \in 0..b - 1
  <2>1. b # 0
    BY <1>5 DEF Divide
  <2> HIDE DEF b
  <2>2. b \in 1..M - 1
    BY <1>2, <1>4, <2>1
  <2> QED
    BY <1>2, <1>4, <2>2
<1>7. /\ ccr' = DivFlags(q, ccr)
      /\ IF q.overflow THEN UNCHANGED <<dst, high>>
         ELSE dst' = [dst EXCEPT ![at] = q.quotient] /\ high' = q.remainder
  BY <1>5 DEF Divide
<1>8. q.overflow = FALSE /\ Shared(high, d, b, q.quotient, q.remainder) /\ "V" \notin q.ccr
  <2>1. q = LongDiv(high, d, b, ccr)
    OBVIOUS
  <2> HIDE DEF q, d, b
  <2> QED
    BY <1>5, <1>6, <2>1, DivideStep
<1> HIDE DEF q
<1> DEFINE s == q.quotient
           r == q.remainder
<1>9. s \in 0..M - 1 /\ r \in 0..b - 1 /\ high * M + d = s * b + r
  BY <1>8 DEF Shared
<1>10. dst' = [dst EXCEPT ![at] = s] /\ high' = r /\ "V" \notin ccr'
  BY <1>7, <1>8 DEF DivFlags
<1>11. e \in [1..N -> 0..M - 1] /\ e[at] = s /\ \A j \in 1..N : j # at => e[j] = dst[j]
  BY <1>2, <1>4, <1>9, <1>10
<1>12. \A j \in 1..N : j < at => dst[j] = e[j]
  BY <1>2, <1>11
<1>13. \A i \in 1..N : i >= at + 1 => e[i] = start.dst[i]
  BY <1>2, <1>4, <1>11
<1> HIDE DEF e
<1> DEFINE l == Leading(dst, M)[at - 1]
           k == Leading(start.dst, M)[at - 1]
<1>14. Leading(e, M)[at] = l * M + s /\ l \in Nat
  <2>1. Leading(e, M)[at] = l * M + e[at] /\ l \in Nat
    BY <1>2, <1>4, <1>11, <1>12, LeadAdded
  <2> QED
    BY <1>11, <2>1
<1>15. Leading(start.dst, M)[at] = k * M + d /\ k \in Nat
  <2> DEFINE o == start.dst
  <2>1. o \in [1..N -> 0..M - 1] /\ \A j \in 1..N : j < at => o[j] = o[j]
    BY <1>4
  <2> HIDE DEF o
  <2>2. Leading(o, M)[at] = Leading(o, M)[at - 1] * M + o[at] /\ Leading(o, M)[at - 1] \in Nat
    BY <1>2, <2>1, LeadAdded
  <2> QED
    BY <1>5, <2>2 DEF o
<1>16. (l * M + s) * b + r = k * M + d
  <2>1. l * b + high = k
    BY DEF DivideInv
  <2>2. s \in Int /\ r \in Int /\ d \in Int /\ b \in Int /\ high \in Int /\ l \in Int /\ k \in Int
    <3> HIDE DEF s, r, d, b, l, k
    <3> QED
      BY <1>2, <1>4, <1>5, <1>9, <1>14, <1>15
  <2> HIDE DEF l, s, b, r, k, d
  <2>3. LeftOver(l, b, high, k, s, r, d)
    BY <1>9, <2>1, <2>2 DEF LeftOver
  <2> QED
    BY <2>3, QuotientGrows
<1>17. Leading(e, M)[at] * b + r = Leading(start.dst, M)[at]
  BY <1>14, <1>15, <1>16
<1>18. r \in 0..M - 1 /\ r < b
  <2> HIDE DEF r, b
  <2> QED
    BY <1>2, <1>6, <1>9
<1>19. /\ dst' \in [1..N -> 0..M - 1] /\ start'.dst \in [1..N -> 0..M - 1]
       /\ \A i \in 1..N : i >= at' => dst'[i] = start'.dst[i]
  BY <1>1, <1>4, <1>11, <1>13 DEF e
<1>20. /\ start'.src = src' /\ src'[1] \in 0..M - 1 /\ \A i \in 1..N : src'[i] = src'[1]
       /\ high' \in 0..M - 1 /\ high' < src'[1] /\ "V" \notin ccr'
  BY <1>1, <1>4, <1>10, <1>18
<1>21. Leading(dst', M)[at' - 1] * src'[1] + high' = Leading(start'.dst, M)[at' - 1]
  BY <1>1, <1>2, <1>10, <1>17 DEF e
<1>22. at' # 1
  BY <1>1, <1>2
<1> QED
  BY <1>1, <1>3, <1>19, <1>20, <1>21, <1>22 DEF DivideInv

LEMMA DivideKept ==
  ASSUME DivideInv, routine = "DIVU", [ChainNext]_chainVars
  PROVE  DivideInv' /\ routine' = routine
<1>1. CASE Divide
  BY <1>1, DivideWord
<1>2. CASE Dbcc
  <2>1. FrontPlace' /\ UNCHANGED <<routine, src, dst, at, high, ccr, start>>
    BY <1>2, FrontDbcc DEF DivideInv
  <2> QED
    BY <2>1 DEF DivideInv
<1>3. CASE DivideByZero
  <2>1. stage' = "trapped" /\ UNCHANGED <<routine, src, dst, at, count, high, ccr, start>>
    BY <1>3 DEF DivideByZero
  <2>2. FrontPlace'
    BY <2>1 DEF DivideInv, FrontPlace
  <2> QED
    BY <2>1, <2>2 DEF DivideInv
<1>4. CASE UNCHANGED chainVars
  BY <1>4 DEF chainVars, DivideInv, FrontPlace
<1> QED
  BY <1>1, <1>2, <1>3, <1>4
  DEF ChainNext, Limb, Compare, Multiply, MultiplySigned, DivideSigned,
      Binary, Decimal, Rotate

LEMMA DivideEnds ==
  ASSUME DivideInv, routine = "DIVU"
  PROVE  QuotientExact
<1>1. stage # "dead"
  BY DEF DivideInv, FrontPlace
<1>2. ASSUME stage = "done"
      PROVE  /\ "V" \notin ccr /\ high < start.src[1]
             /\ Binarily(dst) * start.src[1] + high = Binarily(start.dst)
  <2>1. at = N + 1 /\ at - 1 = N /\ at > 1
    BY <1>2, Sizes DEF DivideInv, FrontPlace
  <2> QED
    BY <2>1 DEF DivideInv, Binarily, Value
<1> QED
  BY <1>1, <1>2 DEF QuotientExact, Done

-----------------------------------------------------------------------------
\* The one division of x by m.
Splitting(x, q, m, r) == x = q * m + r

LEMMA OnlyDivision ==
  ASSUME NEW x \in Int, NEW m \in Positive, NEW q \in Int, NEW r \in 0..m - 1, Splitting(x, q, m, r)
  PROVE  q = x \div m /\ r = x % m
BY Divides DEF Splitting

\* Division toward zero: a quotient and a remainder with the dividend's sign,
\* and no other quotient has one.
LEMMA SignsMultiply ==
  ASSUME NEW w \in Int, NEW a \in Int, w * a >= 0
  PROVE  (a > 0 => w >= 0) /\ (a < 0 => w <= 0)
<1>1. ASSUME a > 0, w < 0 PROVE FALSE
  <2>1. (-1 - w) * a >= 0 /\ (-1 - w) * a = -a - w * a
    BY <1>1
  <2> DEFINE wa == w * a
  <2>2. wa \in Int /\ wa >= 0 /\ -a - wa >= 0
    BY <2>1
  <2> HIDE DEF wa
  <2> QED
    BY <1>1, <2>2
<1>2. ASSUME a < 0, w > 0 PROVE FALSE
  <2>1. (w - 1) * (-a) >= 0 /\ (w - 1) * (-a) = a - w * a
    BY <1>2
  <2> DEFINE wa == w * a
  <2>2. wa \in Int /\ wa >= 0 /\ a - wa >= 0
    BY <2>1
  <2> HIDE DEF wa
  <2> QED
    BY <1>2, <2>2
<1> QED
  BY <1>1, <1>2

\* q and r are the quotient and the remainder of a by b.
Toward(a, b, q, r) ==
  /\ q \in Int /\ r \in Int /\ q * b + r = a /\ Magnitude(r) < Magnitude(b) /\ r * a >= 0

LEMMA Truncates ==
  ASSUME NEW a \in Int, NEW b \in Int, b # 0
  PROVE  Toward(a, b, Quotient(a, b), Remainder(a, b))
<1> DEFINE A == Magnitude(a)
           B == Magnitude(b)
           k == A \div B
           u == A % B
           q == Quotient(a, b)
           r == Remainder(a, b)
<1>1. /\ A \in Int /\ B \in Positive /\ B \in Int /\ A = (IF a < 0 THEN -a ELSE a)
      /\ B = (IF b < 0 THEN -b ELSE b)
  BY DEF Magnitude, Positive
<1>2. q = (IF (a < 0) = (b < 0) THEN k ELSE -k) /\ r = a - b * q
  BY DEF Quotient, Remainder
<1> HIDE DEF A, B, q, r
<1>3. k \in Int /\ u \in 0..B - 1 /\ A = k * B + u
  BY <1>1, Divides
<1> HIDE DEF k, u
<1>4. q \in Int /\ r = IF a < 0 THEN -u ELSE u
  <2>1. u \in Int
    BY <1>1, <1>3
  <2> DEFINE bk == b * k
  <2>2. bk \in Int /\ k * b = bk /\ b * (-k) = -bk /\ k * (-b) = -bk
    BY <1>3
  <2>3. CASE a < 0 /\ b < 0
    <3>1. q = k /\ r = a - bk /\ -a = -bk + u
      BY <1>1, <1>2, <1>3, <2>2, <2>3
    <3> HIDE DEF bk
    <3> QED
      BY <1>3, <2>1, <2>2, <2>3, <3>1
  <2>4. CASE a < 0 /\ ~ (b < 0)
    <3>1. q = -k /\ r = a - (-bk) /\ -a = bk + u
      BY <1>1, <1>2, <1>3, <2>2, <2>4
    <3> HIDE DEF bk
    <3> QED
      BY <1>3, <2>1, <2>2, <2>4, <3>1
  <2>5. CASE ~ (a < 0) /\ b < 0
    <3>1. q = -k /\ r = a - (-bk) /\ a = -bk + u
      BY <1>1, <1>2, <1>3, <2>2, <2>5
    <3> HIDE DEF bk
    <3> QED
      BY <1>3, <2>1, <2>2, <2>5, <3>1
  <2>6. CASE ~ (a < 0) /\ ~ (b < 0)
    <3>1. q = k /\ r = a - bk /\ a = bk + u
      BY <1>1, <1>2, <1>3, <2>2, <2>6
    <3> HIDE DEF bk
    <3> QED
      BY <1>3, <2>1, <2>2, <2>6, <3>1
  <2> QED
    BY <2>3, <2>4, <2>5, <2>6
<1>5. u \in Int /\ 0 <= u /\ u < B /\ r \in Int
  BY <1>1, <1>3, <1>4
<1>6. Magnitude(r) < B
  BY <1>1, <1>4, <1>5 DEF Magnitude
<1>7. r * a >= 0
  <2>1. CASE a < 0
    <3>1. r * a = u * (-a)
      BY <1>4, <1>5, <2>1
    <3>2. u * (-a) >= 0
      BY <1>5, <2>1
    <3> QED
      BY <3>1, <3>2
  <2>2. CASE ~ (a < 0)
    <3>1. u * a >= 0
      BY <1>5, <2>2
    <3> QED
      BY <1>4, <2>2, <3>1
  <2> QED
    BY <2>1, <2>2
<1>8. q * b + r = a
  <2> DEFINE bq == b * q
  <2>1. bq \in Int /\ q * b = bq /\ r = a - bq
    BY <1>2, <1>4
  <2> HIDE DEF bq
  <2>2. bq + r = a
    BY <2>1
  <2> QED
    BY <2>1, <2>2
<1> QED
  BY <1>4, <1>5, <1>6, <1>7, <1>8 DEF Toward, B, q, r

LEMMA OnlyQuotient ==
  ASSUME NEW a \in Int, NEW b \in Int, b # 0, NEW t, NEW w, Toward(a, b, t, w)
  PROVE  t = Quotient(a, b)
<1> DEFINE A == Magnitude(a)
           B == Magnitude(b)
           k == A \div B
           T == IF (a < 0) = (b < 0) THEN t ELSE -t
           W == IF a < 0 THEN -w ELSE w
<1>1. /\ A \in Int /\ B \in Positive /\ B \in Int /\ B > 0 /\ A = (IF a < 0 THEN -a ELSE a)
      /\ B = (IF b < 0 THEN -b ELSE b)
  BY DEF Magnitude, Positive
<1>2. Quotient(a, b) = (IF (a < 0) = (b < 0) THEN k ELSE -k)
  BY DEF Quotient
<1>3. t \in Int /\ w \in Int /\ t * b + w = a /\ -B < w /\ w < B /\ w * a >= 0
  BY <1>1 DEF Toward, Magnitude
<1> HIDE DEF A, B
<1>4. T \in Int /\ W \in Int /\ -B < W /\ W < B
  BY <1>1, <1>3
<1>5. A = T * B + W
  <2> DEFINE tb == t * b
  <2>1. tb \in Int /\ t * (-b) = -tb /\ (-t) * b = -tb /\ (-t) * (-b) = tb
    BY <1>3
  <2>2. T * B = IF a < 0 THEN -tb ELSE tb
    <3>1. CASE a < 0 /\ b < 0
      BY <1>1, <2>1, <3>1
    <3>2. CASE a < 0 /\ ~ (b < 0)
      BY <1>1, <2>1, <3>2
    <3>3. CASE ~ (a < 0) /\ b < 0
      BY <1>1, <2>1, <3>3
    <3>4. CASE ~ (a < 0) /\ ~ (b < 0)
      BY <1>1, <2>1, <3>4
    <3> QED
      BY <3>1, <3>2, <3>3, <3>4
  <2>3. tb + w = a
    BY <1>3
  <2> HIDE DEF tb
  <2> QED
    BY <1>1, <1>3, <2>1, <2>2, <2>3
<1>6. T = k
  <2>1. CASE a # 0
    <3>1. W >= 0
      BY <1>3, <2>1, SignsMultiply
    <3>2. W \in 0..B - 1
      BY <1>1, <1>4, <3>1
    <3>3. Splitting(A, T, B, W)
      BY <1>5 DEF Splitting
    <3> HIDE DEF T, W
    <3> QED
      BY <1>1, <1>4, <3>2, <3>3, OnlyDivision
  <2>2. CASE a = 0
    <3>1. A = 0 /\ A = 0 * B + 0 /\ 0 \in 0..B - 1
      BY <1>1, <2>2
    <3>2. k = 0
      BY <1>1, <3>1, Divides
    <3> HIDE DEF T, W, k
    <3>3. ASSUME T >= 1 PROVE FALSE
      <4>1. (T - 1) * B >= 0 /\ (T - 1) * B = T * B - B
        BY <1>1, <1>4, <3>3
      <4> QED
        BY <1>1, <1>4, <1>5, <3>1, <4>1
    <3>4. ASSUME T <= -1 PROVE FALSE
      <4>1. (-1 - T) * B >= 0 /\ (-1 - T) * B = -B - T * B
        BY <1>1, <1>4, <3>4
      <4> QED
        BY <1>1, <1>4, <1>5, <3>1, <4>1
    <3> QED
      BY <1>4, <3>2, <3>3, <3>4
  <2> QED
    BY <2>1, <2>2
<1>7. k \in Int
  BY <1>4, <1>6
<1> QED
  BY <1>2, <1>3, <1>6, <1>7

-----------------------------------------------------------------------------
\* A word read with its sign, and a number with a sign put into a word.
LEMMA SignedRange ==
  ASSUME NEW m \in Positive, NEW h \in Positive, m = 2 * h, NEW v \in 0..m - 1
  PROVE  Signed(v, m) \in -h..h - 1
BY DEF Signed, Negative, Positive

LEMMA SignedWord ==
  ASSUME NEW m \in Positive, NEW h \in Positive, m = 2 * h, NEW p \in -h..h - 1
  PROVE  /\ p % m \in 0..m - 1 /\ p % m = IF p < 0 THEN p + m ELSE p
         /\ Signed(p % m, m) = p /\ Negative(p % m, m) = (p < 0) /\ (p % m = 0) = (p = 0)
<1>1. m \in Int /\ m > 0 /\ h \in Int /\ h > 0 /\ p \in Int
  BY DEF Positive
<1>2. p % m = IF p < 0 THEN p + m ELSE p
  <2>1. CASE p < 0
    <3>1. p + m \in 0..m - 1 /\ p = (-1) * m + (p + m)
      BY <1>1, <2>1
    <3> DEFINE x == -1
               y == p + m
    <3>2. x \in Int /\ y \in 0..m - 1 /\ Splitting(p, x, m, y)
      BY <3>1 DEF Splitting
    <3> HIDE DEF x, y
    <3>3. y = p % m
      BY <1>1, <3>2, OnlyDivision
    <3> QED
      BY <2>1, <3>3 DEF y
  <2>2. CASE ~ (p < 0)
    <3>1. p \in 0..m - 1
      BY <1>1, <2>2
    <3> QED
      BY <2>2, <3>1, Small
  <2> QED
    BY <2>1, <2>2
<1> DEFINE w == p % m
<1>3. w = IF p < 0 THEN p + m ELSE p
  BY <1>2
<1> HIDE DEF w
<1>4. w \in 0..m - 1
  BY <1>1, <1>3
<1>5. Negative(w, m) = (p < 0)
  BY <1>1, <1>3 DEF Negative
<1>6. Signed(w, m) = p
  <2>1. CASE p < 0
    BY <1>1, <1>3, <1>5, <2>1 DEF Signed, Negative
  <2>2. CASE ~ (p < 0)
    BY <1>1, <1>3, <1>5, <2>2 DEF Signed, Negative
  <2> QED
    BY <2>1, <2>2
<1>7. (w = 0) = (p = 0)
  BY <1>1, <1>3
<1> QED
  BY <1>3, <1>4, <1>5, <1>6, <1>7 DEF w

-----------------------------------------------------------------------------
\* Half of a word's numbers, and half of two words'.
Half(h) == h \in Positive /\ M = 2 * h

LEMMA Halves ==
  ASSUME NEW h, Half(h)
  PROVE  /\ h \in Positive /\ h \in Int /\ h > 0 /\ M \in Positive /\ M \in Int /\ M = 2 * h
         /\ M \div 2 = h /\ h * M \in Positive /\ M * M \in Positive
         /\ M * M = 2 * (h * M) /\ (M * M) \div 2 = h * M /\ h * M = 2 * (h * h)
<1>1. h \in Positive /\ h \in Int /\ h > 0 /\ M \in Int /\ M > 0 /\ M \in Positive /\ M = 2 * h
  BY DEF Half, Positive
<1>2. /\ h * M \in Int /\ M * M = 2 * (h * M) /\ h * M = 2 * (h * h)
  BY <1>1
<1>3. h * M > 0
  BY <1>1
<1>4. \A x \in Int : (2 * x) \div 2 = x
  <2>1. ASSUME NEW x \in Int PROVE (2 * x) \div 2 = x
    <3> DEFINE y == 2 * x
    <3>1. y \in Int /\ 2 \in Positive /\ 0 \in 0..2 - 1 /\ Splitting(y, x, 2, 0)
      BY DEF Splitting, Positive
    <3> HIDE DEF y
    <3>2. x = y \div 2
      BY <3>1, OnlyDivision
    <3> QED
      BY <3>2 DEF y
  <2> QED
    BY <2>1
<1>5. M \div 2 = h
  BY <1>1, <1>4
<1>6. (M * M) \div 2 = h * M
  <2> DEFINE x == h * M
  <2>1. x \in Int /\ M * M = 2 * x
    BY <1>2
  <2> HIDE DEF x
  <2>2. (2 * x) \div 2 = x
    BY <1>4, <2>1
  <2> QED
    BY <2>1, <2>2 DEF x
<1>7. M * M \in Positive /\ h * M \in Positive
  BY <1>2, <1>3 DEF Positive
<1> QED
  BY <1>1, <1>2, <1>5, <1>6, <1>7

\* A number of two words.
TwoWords(hi, lo, v) == hi \in 0..M - 1 /\ lo \in 0..M - 1 /\ v = hi * M + lo

LEMMA TwoWordsMade ==
  ASSUME NEW hi, NEW lo, NEW v, TwoWords(hi, lo, v)
  PROVE  /\ v \in 0..M * M - 1 /\ v \in Int /\ Negative(v, M * M) = Negative(hi, M)
         /\ (v = 0) = (hi = 0 /\ lo = 0)
<1>1. PICK h : Half(h)
  BY Sizes DEF Half
<1>2. /\ h \in Int /\ h > 0 /\ M \in Int /\ M = 2 * h /\ M * M = 2 * (h * M) /\ h * M \in Int
  BY <1>1, Halves DEF Positive
<1>3. /\ hi \in Int /\ 0 <= hi /\ hi <= M - 1 /\ lo \in Int /\ 0 <= lo /\ lo <= M - 1
      /\ v = hi * M + lo
  BY <1>2 DEF TwoWords
<1> DEFINE hm == h * M
           gm == hi * M
           mm == M * M
<1>4. gm \in Int /\ gm >= 0 /\ mm - M - gm >= 0
  <2>1. (M - 1 - hi) * M >= 0 /\ (M - 1 - hi) * M = M * M - M - hi * M /\ hi * M >= 0
    BY <1>2, <1>3
  <2> QED
    BY <1>2, <1>3, <2>1
<1>5. hi >= h => gm >= hm
  <2>1. hi >= h => (hi - h) * M >= 0
    BY <1>2, <1>3
  <2>2. (hi - h) * M = gm - hm
    BY <1>2, <1>3
  <2> QED
    BY <1>2, <1>4, <2>1, <2>2
<1>6. hi < h => gm + M <= hm
  <2>1. hi < h => (h - hi - 1) * M >= 0
    BY <1>2, <1>3
  <2>2. (h - hi - 1) * M = hm - gm - M
    BY <1>2, <1>3
  <2> QED
    BY <1>2, <1>4, <2>1, <2>2
<1>7. hi # 0 => gm >= M
  <2>1. hi # 0 => (hi - 1) * M >= 0
    BY <1>2, <1>3
  <2>2. (hi - 1) * M = gm - M
    BY <1>2, <1>3
  <2> QED
    BY <1>2, <1>4, <2>1, <2>2
<1>8. hi = 0 => gm = 0
  BY <1>2
<1>9. hm \in Int /\ mm = 2 * hm /\ v = gm + lo
  BY <1>2, <1>3
<1> HIDE DEF hm, gm, mm
<1>10. v \in 0..mm - 1 /\ v \in Int
  BY <1>2, <1>3, <1>4, <1>9
<1>11. (2 * v >= mm) = (2 * hi >= M)
  BY <1>2, <1>3, <1>4, <1>5, <1>6, <1>9
<1>12. (v = 0) = (hi = 0 /\ lo = 0)
  BY <1>2, <1>3, <1>4, <1>7, <1>8, <1>9
<1> QED
  BY <1>10, <1>11, <1>12 DEF mm, Negative

\* What MULS.L puts into two words.
SignedMade(a, b, hi, lo, v) ==
  TwoWords(hi, lo, v) /\ v = (a * b) % (M * M)

LEMMA SignedMul ==
  ASSUME NEW a, NEW b, a * b \in Int
  PROVE  LET p == MulLong(a, b, M) IN SignedMade(a, b, p.hi, p.lo, (a * b) % (M * M))
<1> DEFINE q == a * b
           s == M * M
           v == q % s
           p == MulLong(a, b, M)
<1>1. PICK h : Half(h)
  BY Sizes DEF Half
<1>2. M \in Positive /\ M \in Int /\ M > 0 /\ s \in Positive /\ s \in Int
  BY <1>1, Halves DEF Positive
<1>3. p.lo = v % M /\ p.hi = v \div M
  BY DEF MulLong, Word
<1> HIDE DEF q, p
<1>4. v \in 0..s - 1
  <2> HIDE DEF s
  <2> QED
    BY <1>2, Divides DEF q
<1>5. v \in Int /\ 0 <= v /\ v < s
  BY <1>2, <1>4
<1> HIDE DEF v
<1> DEFINE hi == v \div M
           lo == v % M
<1>6. lo \in 0..M - 1 /\ hi \in Int /\ v = hi * M + lo
  BY <1>2, <1>5, Divides
<1> HIDE DEF hi, lo
<1>7. hi \in 0..M - 1
  <2>1. lo \in Int /\ 0 <= lo /\ lo < M
    BY <1>2, <1>6
  <2>2. ASSUME hi < 0 PROVE FALSE
    <3>1. (-1 - hi) * M >= 0 /\ (-1 - hi) * M = -M - hi * M
      BY <1>2, <1>6, <2>2
    <3> QED
      BY <1>2, <1>5, <1>6, <2>1, <3>1
  <2>3. ASSUME hi >= M PROVE FALSE
    <3>1. (hi - M) * M >= 0 /\ (hi - M) * M = hi * M - M * M
      BY <1>2, <1>6, <2>3
    <3> QED
      BY <1>2, <1>5, <1>6, <2>1, <3>1
  <2> QED
    BY <1>2, <1>6, <2>2, <2>3
<1> QED
  BY <1>3, <1>6, <1>7 DEF SignedMade, TwoWords, hi, lo, v, q, p

LEMMA ProductBounded ==
  ASSUME NEW h, Half(h), NEW a \in -h..h - 1, NEW b \in -h..h - 1
  PROVE  /\ a * b \in Int /\ -(h * h) <= a * b /\ a * b <= h * h /\ h * h \in Int /\ h * h >= h
         /\ a * b \in -(h * M)..h * M - 1
<1>1. h \in Int /\ h > 0 /\ M \in Int /\ h * M = 2 * (h * h)
  BY Halves
<1>2. a \in Int /\ -h <= a /\ a <= h /\ b \in Int /\ -h <= b /\ b <= h
  BY <1>1
<1>3. (h - a) * (h + b) >= 0 /\ (h + a) * (h - b) >= 0 /\ (h - a) * (h - b) >= 0 /\ (h + a) * (h + b) >= 0
  BY <1>1, <1>2
<1>4. /\ (h - a) * (h + b) = h * h + h * b - h * a - a * b
      /\ (h + a) * (h - b) = h * h - h * b + h * a - a * b
      /\ (h - a) * (h - b) = h * h - h * b - h * a + a * b
      /\ (h + a) * (h + b) = h * h + h * b + h * a + a * b
  BY <1>1, <1>2
<1>5. (h - 1) * h >= 0 /\ (h - 1) * h = h * h - h
  BY <1>1
<1> DEFINE hh == h * h  hb == h * b  ha == h * a  ab == a * b
<1>6. hh \in Int /\ hb \in Int /\ ha \in Int /\ ab \in Int
  BY <1>1, <1>2
<1>7. /\ hh + hb - ha - ab >= 0 /\ hh - hb + ha - ab >= 0
      /\ hh - hb - ha + ab >= 0 /\ hh + hb + ha + ab >= 0 /\ hh - h >= 0
  BY <1>3, <1>4, <1>5
<1>8. h * M = 2 * hh
  BY <1>1
<1> HIDE DEF hh, hb, ha, ab
<1>9. -hh <= ab /\ ab <= hh /\ hh >= h
  BY <1>1, <1>6, <1>7
<1>10. ab \in -(2 * hh)..2 * hh - 1
  BY <1>1, <1>6, <1>9
<1> QED
  BY <1>6, <1>8, <1>9, <1>10 DEF hh, ab

\* The sign and the words of a product of two words with signs.
LEMMA SignedProduct ==
  ASSUME NEW h, Half(h), NEW a \in -h..h - 1, NEW b \in -h..h - 1,
         NEW hi, NEW lo, NEW v, SignedMade(a, b, hi, lo, v)
  PROVE  /\ v = IF a * b < 0 THEN a * b + M * M ELSE a * b
         /\ Signed(v, M * M) = a * b /\ Negative(hi, M) = (a * b < 0)
         /\ (hi = 0 /\ lo = 0) = (a * b = 0)
<1> DEFINE p == a * b
           s == M * M
           H == h * M
<1>1. s \in Positive /\ H \in Positive /\ s = 2 * H
  BY Halves
<1>2. p \in -H..H - 1
  BY ProductBounded
<1>3. v = p % s /\ TwoWords(hi, lo, v)
  BY DEF SignedMade
<1>4. Negative(v, s) = Negative(hi, M) /\ (v = 0) = (hi = 0 /\ lo = 0)
  BY <1>3, TwoWordsMade
<1> HIDE DEF p, s, H
<1>5. /\ p % s = IF p < 0 THEN p + s ELSE p
      /\ Signed(p % s, s) = p /\ Negative(p % s, s) = (p < 0) /\ (p % s = 0) = (p = 0)
  BY <1>1, <1>2, SignedWord
<1>6. v = IF p < 0 THEN p + s ELSE p
  BY <1>3, <1>5
<1>7. Signed(v, s) = p
  BY <1>3, <1>5
<1>8. Negative(hi, M) = (p < 0)
  BY <1>3, <1>4, <1>5
<1>9. (hi = 0 /\ lo = 0) = (p = 0)
  BY <1>3, <1>4, <1>5
<1> QED
  BY <1>6, <1>7, <1>8, <1>9 DEF p, s

\* MULS.L with one word of product sets V.
Exceeds(hi, lo) == \/ hi \notin {0, M - 1}
                   \/ hi = M - 1 /\ ~ Negative(lo, M)

\* A product that fits one word is found by its upper word.
LEMMA SignedFits ==
  ASSUME NEW h, Half(h), NEW a \in -h..h - 1, NEW b \in -h..h - 1,
         NEW hi, NEW lo, NEW v, SignedMade(a, b, hi, lo, v)
  PROVE  /\ lo = (a * b) % M
         /\ a * b \in -h..h - 1 => ~ Exceeds(hi, lo)
         /\ a * b \notin -h..h - 1 /\ a * b \notin 0..M - 1 => Exceeds(hi, lo)
<1> DEFINE p == a * b
           hh == h * h
           gm == hi * M
<1>1. h \in Int /\ h > 0 /\ M \in Int /\ M = 2 * h /\ M * M = 4 * hh /\ M \in Positive
  BY Halves
<1>2. p \in Int /\ -hh <= p /\ p <= hh /\ hh \in Int /\ hh >= h
  BY ProductBounded
<1>3. hi \in Int /\ 0 <= hi /\ hi <= M - 1 /\ lo \in Int /\ 0 <= lo /\ lo <= M - 1 /\ v = gm + lo
  BY <1>1 DEF SignedMade, TwoWords
<1>4. v = IF p < 0 THEN p + 4 * hh ELSE p
  BY <1>1, SignedProduct
<1>5. lo = p % M
  <2> DEFINE k == IF p < 0 THEN hi - M ELSE hi
  <2>1. k \in Int /\ lo \in 0..M - 1
    BY <1>1, <1>3
  <2>2. p = k * M + lo
    <3>1. CASE p < 0
      <4>1. (hi - M) * M = gm - 4 * hh /\ gm \in Int
        BY <1>1, <1>3
      <4> HIDE DEF p, gm, hh
      <4>2. p = (gm - 4 * hh) + lo
        BY <1>2, <1>3, <1>4, <3>1, <4>1
      <4> QED
        BY <3>1, <4>1, <4>2
    <3>2. CASE ~ (p < 0)
      BY <1>3, <1>4, <3>2
    <3> QED
      BY <3>1, <3>2
  <2>3. Splitting(p, k, M, lo)
    BY <2>2 DEF Splitting
  <2> HIDE DEF k, p
  <2> QED
    BY <1>1, <1>2, <2>1, <2>3, OnlyDivision
<1>6. /\ hi = 0 => gm = 0
      /\ hi = M - 1 => gm = 4 * hh - M
      /\ hi # 0 => gm >= M
      /\ hi # M - 1 => gm <= 4 * hh - M - M
      /\ gm \in Int
  <2>1. hi # 0 => (hi - 1) * M >= 0
    BY <1>1, <1>3
  <2>2. hi # M - 1 => (M - 2 - hi) * M >= 0
    BY <1>1, <1>3
  <2>3. /\ (hi - 1) * M = gm - M /\ (M - 2 - hi) * M = M * M - 2 * M - gm
        /\ (M - 1) * M = M * M - M /\ 0 * M = 0 /\ gm \in Int
    BY <1>1, <1>3
  <2> HIDE DEF hh
  <2>4. (M - 1) * M = 4 * hh - M /\ (M - 2 - hi) * M = 4 * hh - 2 * M - gm
    BY <1>1, <2>3
  <2>5. hi = 0 => gm = 0
    BY <2>3
  <2>6. hi = M - 1 => gm = 4 * hh - M
    BY <2>4
  <2> HIDE DEF gm
  <2> QED
    BY <1>1, <1>2, <2>1, <2>2, <2>3, <2>4, <2>5, <2>6
<1>7. Negative(lo, M) = (lo >= h)
  BY <1>1, <1>3 DEF Negative
<1> HIDE DEF p, hh, gm
<1>8. ASSUME p \in -h..h - 1
      PROVE  ~ Exceeds(hi, lo)
  <2>1. CASE p < 0
    <3>1. hi = M - 1
      BY <1>1, <1>2, <1>3, <1>4, <1>6, <1>8, <2>1
    <3>2. lo >= h
      BY <1>1, <1>2, <1>3, <1>4, <1>6, <1>8, <2>1, <3>1
    <3> QED
      BY <1>1, <1>7, <3>1, <3>2 DEF Exceeds
  <2>2. CASE ~ (p < 0)
    <3>1. hi = 0
      BY <1>1, <1>2, <1>3, <1>4, <1>6, <1>8, <2>2
    <3> QED
      BY <1>1, <3>1 DEF Exceeds
  <2> QED
    BY <2>1, <2>2
<1>9. ASSUME p \notin -h..h - 1, p \notin 0..M - 1
      PROVE  Exceeds(hi, lo)
  <2>1. CASE p < 0
    <3>1. p < -h
      BY <1>1, <1>2, <1>9, <2>1
    <3>2. hi # 0
      BY <1>1, <1>2, <1>3, <1>4, <1>6, <2>1
    <3>3. hi = M - 1 => lo < h
      BY <1>1, <1>2, <1>3, <1>4, <1>6, <2>1, <3>1
    <3> QED
      BY <1>1, <1>3, <3>2, <3>3 DEF Exceeds, Negative
  <2>2. CASE ~ (p < 0)
    <3>1. p >= M
      BY <1>1, <1>2, <1>9, <2>2
    <3>2. hi # 0 /\ hi # M - 1
      BY <1>1, <1>2, <1>3, <1>4, <1>6, <2>2, <3>1
    <3> QED
      BY <3>2 DEF Exceeds
  <2> QED
    BY <2>1, <2>2
<1> QED
  BY <1>5, <1>8, <1>9 DEF p

-----------------------------------------------------------------------------
\* MULS.L and DIVS.L are one instruction: all is right once it is done.
SingleInv ==
  /\ stage \in {"insn", "done", "trapped", "dead"}
  /\ dst \in [1..N -> 0..M - 1] /\ start.dst \in [1..N -> 0..M - 1]
  /\ start.src = src /\ src[1] \in 0..M - 1
  /\ stage = "insn" => at = 1 /\ start.dst = dst
  /\ stage # "insn" => ProductExact /\ QuotientExact

LEMMA SingleStarts ==
  ASSUME ChainInit, routine \in Single
  PROVE  SingleInv
<1>1. /\ dst \in Numbers(routine) /\ src \in Sources(routine) /\ at = 1 /\ stage = "insn"
      /\ start = [src |-> src, dst |-> dst, ccr |-> ccr]
  BY DEF ChainInit
<1>2. Sources(routine) = OneWord /\ Numbers(routine) = [1..N -> 0..M - 1]
  BY DEF Sources, Numbers, Decimal, Unsigned, Single
<1>3. src[1] \in 0..M - 1
  BY <1>1, <1>2, OneWordTyped
<1> QED
  BY <1>1, <1>2, <1>3 DEF SingleInv

LEMMA SignedWords ==
  ASSUME SingleInv, stage = "insn", NEW h, Half(h)
  PROVE  /\ Signed(dst[1], M) \in -h..h - 1 /\ Signed(src[1], M) \in -h..h - 1
         /\ dst[1] \in 0..M - 1 /\ src[1] \in 0..M - 1 /\ at = 1 /\ start.dst = dst /\ start.src = src
<1>1. /\ dst[1] \in 0..M - 1 /\ src[1] \in 0..M - 1 /\ at = 1 /\ start.dst = dst
      /\ start.src = src
  BY Sizes DEF SingleInv
<1>2. M \in Positive /\ h \in Positive /\ M = 2 * h
  BY Halves
<1> QED
  BY <1>1, <1>2, SignedRange

LEMMA ProductOfTwo ==
  ASSUME SingleInv, routine = "MULS", MultiplySigned
  PROVE  SingleInv'
<1>1. PICK h : Half(h)
  BY Sizes DEF Half
<1> DEFINE a == Signed(dst[1], M)
           b == Signed(src[1], M)
           p == LongMul(a, b, ccr)
           hi == p.hi
           lo == p.lo
           v  == (a * b) % (M * M)
<1>2. stage = "insn" /\ stage' = "done" /\ UNCHANGED <<routine, src, at, count, start>>
  BY DEF MultiplySigned
<1>3. /\ a \in -h..h - 1 /\ b \in -h..h - 1 /\ at = 1 /\ start.dst = dst /\ start.src = src
  BY <1>1, <1>2, SignedWords
<1>4. /\ dst' = [dst EXCEPT ![1] = lo] /\ high' = hi /\ ccr' = p.ccr
  BY <1>3 DEF MultiplySigned
<1>5. /\ p.ccr = (ccr \cap {"X"}) \cup When(Negative(hi, M), {"N"})
                   \cup When(lo = 0 /\ hi = 0, {"Z"})
      /\ hi = MulLong(a, b, M).hi /\ lo = MulLong(a, b, M).lo
  BY DEF LongMul
<1>6. SignedMade(a, b, hi, lo, v)
  <2>1. a * b \in Int
    <3> HIDE DEF a, b
    <3> QED
      BY <1>1, <1>3, ProductBounded
  <2> HIDE DEF a, b, p
  <2> QED
    BY <1>5, <2>1, SignedMul
<1> HIDE DEF a, b, p, hi, lo, v
<1>7. /\ Signed(v, M * M) = a * b /\ Negative(hi, M) = (a * b < 0)
      /\ (hi = 0 /\ lo = 0) = (a * b = 0)
  BY <1>1, <1>3, <1>6, SignedProduct
<1>8. hi \in 0..M - 1 /\ lo \in 0..M - 1 /\ v = hi * M + lo
  BY <1>6 DEF SignedMade, TwoWords
<1>9. dst' \in [1..N -> 0..M - 1] /\ dst'[1] = lo
  <2>1. 1 \in 1..N /\ dst \in [1..N -> 0..M - 1]
    BY Sizes DEF SingleInv
  <2> QED
    BY <1>4, <1>8, <2>1
<1>10. ("N" \in ccr') = (a * b < 0) /\ ("Z" \in ccr') = (a * b = 0)
  <2>1. ("N" \in ccr') = Negative(hi, M) /\ ("Z" \in ccr') = (lo = 0 /\ hi = 0)
    BY <1>4, <1>5 DEF When, Negative
  <2> QED
    BY <1>7, <2>1
<1>11. Signed(start'.dst[1], M) = a /\ Signed(start'.src[1], M) = b
  BY <1>2, <1>3 DEF a, b
<1>12. Signed(high' * M + dst'[1], M * M) = a * b
  BY <1>4, <1>7, <1>8, <1>9
<1>13. ProductExact'
  BY <1>2, <1>10, <1>11, <1>12 DEF ProductExact, Done
<1>14. QuotientExact'
  BY <1>2 DEF QuotientExact, Done
<1> QED
  BY <1>2, <1>9, <1>13, <1>14 DEF SingleInv

LEMMA ProductOfOne ==
  ASSUME SingleInv, routine = "MULSL", MultiplySigned
  PROVE  SingleInv'
<1>1. PICK h : Half(h)
  BY Sizes DEF Half
<1> DEFINE a == Signed(dst[1], M)
           b == Signed(src[1], M)
           q == a * b
           p == LongMulSigned(a, b, ccr)
           hi == p.hi
           lo == p.lo
           v  == q % (M * M)
<1>2. stage = "insn" /\ stage' = "done" /\ UNCHANGED <<routine, src, at, count, start>>
  BY DEF MultiplySigned
<1>3. /\ a \in -h..h - 1 /\ b \in -h..h - 1 /\ at = 1 /\ start.dst = dst /\ start.src = src
  BY <1>1, <1>2, SignedWords
<1>4. dst' = [dst EXCEPT ![1] = lo] /\ ccr' = p.ccr
  BY <1>3 DEF MultiplySigned
<1>5. /\ ("V" \in p.ccr <=> Exceeds(hi, lo))
      /\ hi = MulLong(a, b, M).hi /\ lo = MulLong(a, b, M).lo
  <2> DEFINE w == MulLong(a, b, M)
  <2>1. /\ p.hi = w.hi /\ p.lo = w.lo
        /\ p.ccr = (ccr \cap {"X"}) \cup w.ccr \cup When(Exceeds(w.hi, w.lo), {"V"})
    BY DEF LongMulSigned, Exceeds
  <2>2. "V" \notin w.ccr
    BY DEF MulLong, SetNZFlags, When
  <2> HIDE DEF p, w
  <2>3. "V" \in p.ccr <=> Exceeds(w.hi, w.lo)
    <3>1. "V" \in When(Exceeds(w.hi, w.lo), {"V"}) <=> Exceeds(w.hi, w.lo)
      BY DEF When
    <3> QED
      BY <2>1, <2>2, <3>1
  <2> QED
    BY <2>1, <2>3 DEF w
<1>6. SignedMade(a, b, hi, lo, v)
  <2>1. a * b \in Int
    <3> HIDE DEF a, b
    <3> QED
      BY <1>1, <1>3, ProductBounded
  <2> HIDE DEF a, b, p
  <2> QED
    BY <1>5, <2>1, SignedMul
<1> HIDE DEF a, b, p, hi, lo, v
<1>7. /\ lo = q % M
      /\ q \in -h..h - 1 => ~ Exceeds(hi, lo)
      /\ q \notin -h..h - 1 /\ q \notin 0..M - 1 => Exceeds(hi, lo)
  BY <1>1, <1>3, <1>6, SignedFits
<1>8. hi \in 0..M - 1 /\ lo \in 0..M - 1
  BY <1>6 DEF SignedMade, TwoWords
<1>9. dst' \in [1..N -> 0..M - 1] /\ dst'[1] = lo
  <2>1. 1 \in 1..N /\ dst \in [1..N -> 0..M - 1]
    BY Sizes DEF SingleInv
  <2> QED
    BY <1>4, <1>8, <2>1
<1>10. Signed(start'.dst[1], M) * Signed(start'.src[1], M) = q
  BY <1>2, <1>3 DEF a, b
<1> HIDE DEF q
<1>11. /\ dst'[1] = q % M
       /\ IF q \in -h..h - 1 THEN "V" \notin ccr' ELSE "V" \in ccr' \/ q \in 0..M - 1
  BY <1>4, <1>5, <1>7, <1>9
<1>12. M \div 2 = h
  BY <1>1, Halves
<1>13. ProductExact'
  BY <1>2, <1>10, <1>11, <1>12 DEF ProductExact, Done
<1>14. QuotientExact'
  BY <1>2 DEF QuotientExact, Done
<1> QED
  BY <1>2, <1>9, <1>13, <1>14 DEF SingleInv

\* What DIVS.L makes of a dividend and a divisor.
SignedQuotient(a, b, h, q) ==
  \/ /\ q.overflow = TRUE
     /\ \A t \in -h..h - 1 : \A u \in 1 - Magnitude(b)..Magnitude(b) - 1 : u * a >= 0 => t * b + u # a
  \/ /\ q.overflow = FALSE /\ "V" \notin q.ccr
     /\ q.quotient \in 0..M - 1
     /\ Toward(a, b, Signed(q.quotient, M), Signed(q.remainder, M))

LEMMA SignedDivides ==
  ASSUME NEW h, Half(h), NEW a \in Int, NEW b \in -h..h - 1, b # 0
  PROVE  SignedQuotient(a, b, h, LongDivSigned(a, b))
<1> DEFINE Q == Quotient(a, b)
           R == Remainder(a, b)
           q == LongDivSigned(a, b)
           u == [overflow |-> TRUE, quotient |-> 0, remainder |-> 0, ccr |-> {"V"}]
           w == [overflow |-> FALSE, quotient |-> Q % M, remainder |-> R % M, ccr |-> SetNZFlags(Q % M, M)]
<1>1. h \in Positive /\ h \in Int /\ h > 0 /\ M \in Positive /\ M = 2 * h /\ M \div 2 = h /\ b \in Int
  BY Halves
<1>2. Toward(a, b, Q, R)
  BY <1>1, Truncates
<1>3. q = IF Q < -h \/ Q > h - 1 THEN u ELSE w
  BY <1>1 DEF LongDivSigned, DivSigned, Divided, Word
<1> HIDE DEF q
<1>4. CASE Q < -h \/ Q > h - 1
  <2>1. q = u
    BY <1>3, <1>4
  <2>2. q.overflow = TRUE
    BY <2>1
  <2>3. ASSUME NEW t \in -h..h - 1, NEW v \in 1 - Magnitude(b)..Magnitude(b) - 1, v * a >= 0, t * b + v = a
        PROVE  FALSE
    <3>1. Magnitude(b) \in Int /\ Magnitude(v) < Magnitude(b) /\ v \in Int /\ t \in Int
      BY <1>1 DEF Magnitude
    <3>2. Toward(a, b, t, v)
      BY <2>3, <3>1 DEF Toward
    <3>3. t = Q
      BY <1>1, <3>2, OnlyQuotient
    <3> HIDE DEF Q
    <3> QED
      BY <1>1, <1>4, <3>1, <3>3
  <2> QED
    BY <2>2, <2>3 DEF SignedQuotient, q
<1>5. CASE ~ (Q < -h \/ Q > h - 1)
  <2>1. q = w
    BY <1>3, <1>5
  <2> HIDE DEF Q, R
  <2>2. Q \in -h..h - 1
    BY <1>1, <1>2, <1>5 DEF Toward
  <2>3. R \in -h..h - 1
    BY <1>1, <1>2 DEF Toward, Magnitude
  <2>4. Q % M \in 0..M - 1 /\ Signed(Q % M, M) = Q /\ Signed(R % M, M) = R
    BY <1>1, <2>2, <2>3, SignedWord
  <2>5. "V" \notin SetNZFlags(Q % M, M)
    BY DEF SetNZFlags, When
  <2> QED
    BY <1>2, <2>1, <2>4, <2>5 DEF SignedQuotient, q
<1> QED
  BY <1>4, <1>5 DEF q

LEMMA QuotientOfTwo ==
  ASSUME SingleInv, routine = "DIVS", DivideSigned
  PROVE  SingleInv'
<1>1. PICK h : Half(h)
  BY Sizes DEF Half
<1> DEFINE a == Dividend(dst)
           b == Signed(src[1], M)
           q == LongDivSigned(a, b)
<1>2. stage = "insn" /\ src[1] # 0 /\ UNCHANGED <<routine, src, at, count, start>>
  BY DEF DivideSigned
<1>3. /\ b \in -h..h - 1 /\ dst[1] \in 0..M - 1 /\ src[1] \in 0..M - 1
      /\ start.dst = dst /\ start.src = src
  BY <1>1, <1>2, SignedWords
<1>4. h \in Int /\ h > 0 /\ M \in Int /\ M = 2 * h /\ M \div 2 = h
  BY <1>1, Halves
<1>5. b # 0 /\ (b = -1 => src[1] = M - 1)
  BY <1>2, <1>3, <1>4 DEF Signed, Negative
<1>6. a \in Int
  <2>1. dst[2] \in 0..M - 1 /\ dst[2] \in Int /\ dst[1] \in Int
    <3>1. 2 \in 1..N /\ dst \in [1..N -> 0..M - 1]
      BY Sizes DEF SingleInv
    <3> QED
      BY <1>3, <1>4, <3>1
  <2>2. dst[1] * M \in Int /\ M * M \in Int
    BY <1>4, <2>1
  <2> DEFINE d == dst[1] * M  m == M * M
  <2>3. d \in Int /\ m \in Int
    BY <2>2
  <2> HIDE DEF d, m
  <2>4. Signed(d + dst[2], m) \in Int
    BY <2>1, <2>3 DEF Signed
  <2> QED
    BY <2>4 DEF Dividend, d, m
<1>7. Dividend(start'.dst) = a /\ Signed(start'.src[1], M) = b /\ start'.src[1] = src[1]
  BY <1>2, <1>3
<1>8. \/ a = -((M * M) \div 2) /\ b = -1 /\ stage' = "dead" /\ UNCHANGED <<dst, high, ccr>>
      \/ /\ stage' = "done" /\ ccr' = DivFlags(q, ccr)
         /\ IF q.overflow THEN UNCHANGED <<dst, high>>
            ELSE dst' = [dst EXCEPT ![1] = q.quotient] /\ high' = q.remainder
  BY DEF DivideSigned, HostDivides
<1>9. SignedQuotient(a, b, h, q)
  <2> HIDE DEF a, b
  <2> QED
    BY <1>1, <1>3, <1>5, <1>6, SignedDivides
<1> HIDE DEF a, b, q
<1>10. dst \in [1..N -> 0..M - 1] /\ 1 \in 1..N
  BY Sizes DEF SingleInv
<1>11. CASE a = -((M * M) \div 2) /\ b = -1 /\ stage' = "dead" /\ UNCHANGED <<dst, high, ccr>>
  <2>1. ProductExact'
    BY <1>11 DEF ProductExact, Done
  <2>2. QuotientExact'
    BY <1>5, <1>7, <1>11 DEF QuotientExact, Done
  <2> QED
    BY <1>2, <1>11, <2>1, <2>2 DEF SingleInv
<1>12. CASE /\ stage' = "done" /\ ccr' = DivFlags(q, ccr)
            /\ IF q.overflow THEN UNCHANGED <<dst, high>>
               ELSE dst' = [dst EXCEPT ![1] = q.quotient] /\ high' = q.remainder
  <2>1. ProductExact'
    BY <1>2, <1>12 DEF ProductExact, Done
  <2>2. ASSUME q.overflow = TRUE,
               \A t \in -h..h - 1 : \A u \in 1 - Magnitude(b)..Magnitude(b) - 1 : u * a >= 0 => t * b + u # a
        PROVE  QuotientExact' /\ dst' = dst
    <3>1. "V" \in ccr' /\ dst' = dst
      BY <1>12, <2>2 DEF DivFlags
    <3> QED
      BY <1>2, <1>4, <1>7, <1>12, <2>2, <3>1 DEF QuotientExact, Done
  <2>3. ASSUME q.overflow = FALSE, "V" \notin q.ccr, q.quotient \in 0..M - 1,
               Toward(a, b, Signed(q.quotient, M), Signed(q.remainder, M))
        PROVE  QuotientExact' /\ dst' \in [1..N -> 0..M - 1]
    <3>1. /\ "V" \notin ccr' /\ dst' = [dst EXCEPT ![1] = q.quotient] /\ high' = q.remainder
      BY <1>12, <2>3 DEF DivFlags
    <3>2. dst' \in [1..N -> 0..M - 1] /\ dst'[1] = q.quotient
      BY <1>10, <2>3, <3>1
    <3>3. /\ Signed(dst'[1], M) * b + Signed(high', M) = a
          /\ Magnitude(Signed(high', M)) < Magnitude(b) /\ Signed(high', M) * a >= 0
      BY <2>3, <3>1, <3>2 DEF Toward
    <3> QED
      BY <1>2, <1>7, <1>12, <3>1, <3>2, <3>3 DEF QuotientExact, Done
  <2>4. QuotientExact' /\ dst' \in [1..N -> 0..M - 1]
    BY <1>9, <1>10, <2>2, <2>3 DEF SignedQuotient
  <2> QED
    BY <1>2, <1>12, <2>1, <2>4 DEF SingleInv
<1> QED
  BY <1>8, <1>11, <1>12

LEMMA SingleKept ==
  ASSUME SingleInv, routine \in Single, [ChainNext]_chainVars
  PROVE  SingleInv' /\ routine' = routine
<1>1. CASE MultiplySigned
  BY <1>1, ProductOfTwo, ProductOfOne DEF MultiplySigned
<1>2. CASE DivideSigned
  BY <1>2, QuotientOfTwo DEF DivideSigned, Single, SingleInv
<1>3. CASE DivideByZero
  <2>1. stage' = "trapped" /\ UNCHANGED <<routine, src, dst, at, count, high, ccr, start>>
    BY <1>3 DEF DivideByZero
  <2> QED
    BY <2>1 DEF SingleInv, ProductExact, QuotientExact, Done
<1>4. CASE UNCHANGED chainVars
  BY <1>4 DEF chainVars, SingleInv, ProductExact, QuotientExact, Done, Binarily
<1>5. ~ Dbcc
  BY DEF Dbcc, SingleInv
<1> QED
  BY <1>1, <1>2, <1>3, <1>4, <1>5
  DEF ChainNext, Limb, Compare, Multiply, Divide, Single, Binary, Decimal, Rotate

-----------------------------------------------------------------------------
\* The invariant of each routine.
LongInvariant ==
  /\ routine \in Binary \cup Decimal \cup Rotate \cup {"CMPM", "MULU", "DIVU"} \cup Single
  /\ routine \in Chains => ChainInv
  /\ routine = "ROXR" => RoxrInv
  /\ routine = "CMPM" => CompareInv
  /\ routine = "MULU" => MultiplyInv
  /\ routine = "DIVU" => DivideInv
  /\ routine \in Single => SingleInv

LEMMA LongStarts == ChainInit => LongInvariant
<1> SUFFICES ASSUME ChainInit
             PROVE  LongInvariant
  OBVIOUS
<1>1. routine \in Binary \cup Decimal \cup Rotate \cup {"CMPM", "MULU", "DIVU"} \cup Single
  BY DEF ChainInit
<1> QED
  BY <1>1, ChainStarts, RoxrStarts, CompareStarts, MultiplyStarts, DivideStarts, SingleStarts
  DEF LongInvariant

LEMMA LongKept == LongInvariant /\ [ChainNext]_chainVars => LongInvariant'
<1> SUFFICES ASSUME LongInvariant, [ChainNext]_chainVars
             PROVE  LongInvariant'
  OBVIOUS
<1>1. routine \in Binary \cup Decimal \cup Rotate \cup {"CMPM", "MULU", "DIVU"} \cup Single
  BY DEF LongInvariant
<1>2. routine' = routine
  BY <1>1, ChainKept, RoxrKept, CompareKept, MultiplyKept, DivideKept, SingleKept
  DEF LongInvariant, Chains, Rotate
<1>3. routine \in Chains => ChainInv'
  BY ChainKept DEF LongInvariant
<1>4. routine = "ROXR" => RoxrInv'
  BY RoxrKept DEF LongInvariant
<1>5. routine = "CMPM" => CompareInv'
  BY CompareKept DEF LongInvariant
<1>6. routine = "MULU" => MultiplyInv'
  BY MultiplyKept DEF LongInvariant
<1>7. routine = "DIVU" => DivideInv'
  BY DivideKept DEF LongInvariant
<1>8. routine \in Single => SingleInv'
  BY SingleKept DEF LongInvariant
<1> QED
  BY <1>1, <1>2, <1>3, <1>4, <1>5, <1>6, <1>7, <1>8 DEF LongInvariant

LEMMA LongExact == LongInvariant => NumbersExact
<1> SUFFICES ASSUME LongInvariant
             PROVE  NumbersExact
  OBVIOUS
<1>1. routine \in Binary \cup Decimal \cup Rotate \cup {"CMPM", "MULU", "DIVU"} \cup Single
  BY DEF LongInvariant
<1>2. SumExact
  BY SumEnds DEF LongInvariant, SumExact, Done, Chains
<1>3. DecimalExact
  BY DecimalEnds DEF LongInvariant, DecimalExact, Done, Chains
<1>4. ShiftExact
  BY RoxlEnds, RoxrEnds DEF LongInvariant, ShiftExact, Done, Chains, Rotate
<1>5. CompareExact
  BY CompareEnds DEF LongInvariant, CompareExact, Done
<1>6. ProductExact
  <2>1. CASE routine \in Single
    <3>1. stage # "insn" => ProductExact
      BY <2>1 DEF LongInvariant, SingleInv
    <3>2. stage = "insn" => ProductExact
      BY DEF ProductExact, Done
    <3> QED
      BY <3>1, <3>2
  <2>2. CASE routine = "MULU" /\ stage = "done"
    BY <2>2, MultiplyEnds DEF LongInvariant
  <2>3. CASE routine \notin Single /\ ~ (routine = "MULU" /\ stage = "done")
    BY <2>3 DEF ProductExact, Done, Single
  <2> QED
    BY <2>1, <2>2, <2>3
<1>7. QuotientExact
  <2>1. CASE routine \in Single
    <3>1. stage # "insn" => QuotientExact
      BY <2>1 DEF LongInvariant, SingleInv
    <3>2. stage = "insn" => QuotientExact
      BY DEF QuotientExact, Done
    <3> QED
      BY <3>1, <3>2
  <2>2. CASE routine = "DIVU"
    BY <2>2, DivideEnds DEF LongInvariant
  <2>3. CASE routine \notin Single /\ routine # "DIVU"
    <3>1. stage # "dead"
      BY <1>1, <2>3
      DEF LongInvariant, Chains, Rotate, ChainInv, RoxrInv, CompareInv, MultiplyInv, BackPlace, FrontPlace
    <3> QED
      BY <2>3, <3>1 DEF QuotientExact, Done, Single
  <2> QED
    BY <2>1, <2>2, <2>3
<1> QED
  BY <1>2, <1>3, <1>4, <1>5, <1>6, <1>7 DEF NumbersExact

\* What a guest computes word by word is at each word what an instruction on
\* the words so far would compute (Core/InstructionDecoder.cpp and Core/Alu.cpp).
THEOREM LongComputes == ChainSpec => []LongInvariant
BY LongStarts, LongKept, PTL DEF ChainSpec

\* Whatever a guest computes word by word, with words of any width and numbers
\* of any length, is what an instruction on registers as wide as the numbers
\* would compute: the chains of ADDX, SUBX, NEGX, ABCD, SBCD, NBCD, ROXL and
\* ROXR, the comparison by CMPM and DBNE, the product and the quotient by one
\* word; likewise one MULS.L or DIVS.L (Core/InstructionDecoder.cpp, Core/Alu.cpp).
THEOREM LongNumbersExact == ChainSpec => []NumbersExact
BY LongComputes, LongExact, PTL
=============================================================================
