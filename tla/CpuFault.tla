------------------------------ MODULE CpuFault ------------------------------
(***************************************************************************)
(* Bus errors in the CPU's loop (Core/MC68030.cpp). An access that faults  *)
(* sets BusErrorPending; the rest of the instruction runs on with accesses *)
(* short-circuited, and the loop then rolls back PC, SR and registers and  *)
(* raises the bus-error exception, from whose frame the guest restarts the *)
(* instruction. The register snapshot is deferred until an instruction     *)
(* asks for it. One turn of ExecuteNextFast or ExecuteNextFastJit is the   *)
(* steps from phase "turn" to the next "turn". Of the registers only A7 is *)
(* kept here; module Restart has the others.                               *)
(***************************************************************************)
EXTENDS Integers

CONSTANTS
    Words,         \* bound: words of guest code, the values of PC
    MaxDepth,      \* bound: exceptions the guest nests
    Jits,          \* what JitEnabled may be when the loop starts
    SplitVectors   \* the vectors of interrupts and bus errors are on two pages

ASSUME FaultAssumptions ==
    /\ Words \in Nat \ {0} /\ MaxDepth \in Nat \ {0}
    /\ Jits \subseteq BOOLEAN /\ SplitVectors \in BOOLEAN

VARIABLES
    pc, sr,        \* PC; SR as [s: supervisor, mask: interrupts are masked]
    a7, usp, ssp,  \* stack pointers
    frames,        \* memory under the supervisor stack pointer
    pending,       \* BusErrorPending
    where,         \* what kind of access set it
    needed,        \* _regSnapshotNeeded
    saved,         \* A7 in _savedA; _lastPC; _savedSR
    stopped, halted,
    irq,           \* the board asks for an interrupt
    jit,           \* the loop runs ExecuteNextFastJit, not ExecuteNextFast
    phase,         \* where in the turn the loop is
    live           \* ghost: exceptions entered and not returned from

vars == <<pc, sr, a7, usp, ssp, frames, pending, where, needed, saved,
          stopped, halted, irq, jit, phase, live>>

stack == <<a7, usp, ssp, frames>>

Address == 0..(Words - 1)
Status == [s: BOOLEAN, mask: BOOLEAN]
Frame == [pc: Address, sr: Status]

\* A pointer into the supervisor stack is the number of frames above it.
User == -1
Pointer == {User} \cup 0..(MaxDepth + 1)

\* "exec": in the decoder. "fallback": in the decoder, called by ExecuteNextJit.
\* "check": the flag is looked at.
Phase == {"turn", "exec", "fallback", "check"}

Where == {"none", "access", "push", "vector"}

-----------------------------------------------------------------------------
(* Accesses.                                                               *)

\* How an access may end. Once a fault is pending it is short-circuited.
Outcome(kind) ==
    IF pending THEN {where}
    ELSE IF live < MaxDepth THEN {"none", kind}
    ELSE {"none"}

\* SetBusError keeps the first fault.
Faulted(outcome) == where' = outcome /\ pending' = (outcome # "none")

\* Push of a frame: A7 moves whether or not the writes happen.
Pushed(sp, frame, written) ==
    /\ a7' = sp + 1
    /\ frames' = IF written THEN [frames EXCEPT ![sp + 1] = frame] ELSE frames

\* Mutant: a user program's exception is pushed on its own stack.
ExceptionStackOwn(old, sp) == sp

\* The stack on which an exception raised under SR old is pushed.
ExceptionStack(old, sp) == IF old.s THEN sp ELSE ssp

\* USP, once an exception was raised under SR old.
SavedUsp(old, sp) == IF old.s THEN usp ELSE sp

Snapshot == [saved EXCEPT !.a7 = a7]

\* EnsureRegSnapshot, at the head of every group decoder.
EnsureRegSnapshot == needed' = FALSE /\ saved' = IF needed THEN Snapshot ELSE saved

\* The instructions a block may begin with are MemoryInstructions.
Decoding == phase = "exec" /\ ~pending

\* Mutant: nor is the flag looked at when the interpreter ran the instruction.
DecodedUnchecked == "turn"

\* ExecuteNextJit does not look at the flag after its fallback.
Decoded == IF phase = "exec" THEN "check" ELSE "turn"

-----------------------------------------------------------------------------
(* The start of a turn.                                                    *)

\* ProcessInterrupt between an eager copy of the state and the check of the
\* flag. The copy leaves _regSnapshotNeeded as the last instruction left it.
TakeInterrupt ==
    /\ phase = "turn" /\ ~halted /\ irq /\ ~sr.mask /\ live < MaxDepth
    /\ stopped' = FALSE
    /\ saved' = [pc |-> pc, sr |-> sr, a7 |-> a7]
    /\ sr' = [s |-> TRUE, mask |-> TRUE]
    /\ usp' = SavedUsp(sr, a7)
    /\ \E outcome \in Outcome("push") \cup Outcome("vector") :
          /\ Faulted(outcome)
          /\ Pushed(ExceptionStack(sr, a7), [pc |-> pc, sr |-> sr],
                    ~pending /\ outcome # "push")
          /\ IF pending' THEN pc' = 0 /\ UNCHANGED live
                         ELSE pc' \in Address /\ live' = live + 1
    /\ phase' = "check"
    /\ UNCHANGED <<ssp, needed, halted, irq, jit>>

\* An interrupt that is due may still be suppressed (module Pcc).
StartInstruction ==
    /\ phase = "turn" /\ ~halted /\ ~stopped
    /\ saved' = [saved EXCEPT !.pc = pc, !.sr = sr]
    /\ needed' = TRUE
    /\ phase' = "exec"
    /\ UNCHANGED <<pc, sr, stack, pending, where, stopped, halted, irq, jit, live>>

\* ExecuteNextJit: a block runs up to a bail-out, its loads through the cached
\* page, and nobody looks at the flag. A block whose first instruction bails
\* out has that instruction interpreted.
RunBlock ==
    /\ jit /\ phase = "exec"
    /\ saved' = Snapshot
    /\ \/ /\ \E outcome \in Outcome("access") : Faulted(outcome)
          /\ pc' \in Address
          /\ needed' = FALSE /\ phase' = "turn"
       \/ /\ needed' = TRUE /\ phase' = "fallback"
          /\ UNCHANGED <<pc, pending, where>>
    /\ UNCHANGED <<sr, stack, stopped, halted, irq, jit, live>>

-----------------------------------------------------------------------------
(* One instruction: ExecuteNext.                                           *)

\* FetchWord leaves PC and returns 0, which is decoded as ORI #0,D0.
FetchFaults ==
    /\ phase = "exec" \/ (phase = "fallback" /\ pending)
    /\ \E outcome \in Outcome("access") \ {"none"} : Faulted(outcome)
    /\ EnsureRegSnapshot
    /\ phase' = Decoded
    /\ UNCHANGED <<pc, sr, stack, stopped, halted, irq, jit, live>>

\* A Fast handler: registers only, no snapshot.
FastInstruction ==
    /\ Decoding
    /\ pc' \in Address
    /\ phase' = Decoded
    /\ UNCHANGED <<sr, stack, pending, where, needed, saved, stopped, halted,
                   irq, jit, live>>

\* Any other instruction, whose operands or extension words may fault after
\* registers were changed, and whose later steps still run.
MemoryInstruction ==
    /\ Decoding \/ (phase = "fallback" /\ ~pending)
    /\ \E outcome \in Outcome("access") : Faulted(outcome)
    /\ pc' \in Address
    /\ EnsureRegSnapshot
    /\ phase' = Decoded
    /\ UNCHANGED <<sr, stack, stopped, halted, irq, jit, live>>

\* SetSR in supervisor mode, with A7 as the instruction has left it.
SetSR(new, sp) ==
    /\ sr' = new
    /\ IF new.s THEN a7' = sp /\ UNCHANGED ssp
                ELSE a7' = usp /\ ssp' = sp

\* MOVE to SR (and the immediate forms), STOP. A faulting operand reads as 0.
LoadStatus ==
    /\ Decoding /\ sr.s
    /\ \E outcome \in Outcome("access"), new \in Status :
          /\ Faulted(outcome)
          /\ pending' => new = [s |-> FALSE, mask |-> FALSE]
          /\ SetSR(new, a7)
    /\ stopped' \in {stopped, TRUE}
    /\ pc' \in Address
    /\ EnsureRegSnapshot
    /\ phase' = Decoded
    /\ UNCHANGED <<usp, frames, halted, irq, jit, live>>

\* A7 after RTE took off a frame, of whatever format.
Popped(sp) == sp - 1

\* RTE. After a fault, what was not popped reads as 0.
Rte ==
    /\ Decoding /\ sr.s /\ live > 0
    /\ \E outcome \in Outcome("access"), new \in Status :
          /\ Faulted(outcome)
          /\ new = frames[a7].sr \/ (pending' /\ new = [s |-> FALSE, mask |-> FALSE])
          /\ SetSR(new, Popped(a7))
    /\ IF pending' THEN pc' = 0 /\ UNCHANGED live
                   ELSE pc' = frames[a7].pc /\ live' = live - 1
    /\ EnsureRegSnapshot
    /\ phase' = Decoded
    /\ UNCHANGED <<usp, frames, stopped, halted, irq, jit>>

\* RaiseException: TRAP, and every instruction that is refused. A faulting push
\* goes back to the mode and, from user mode, the stack of before.
RaiseException ==
    /\ Decoding /\ live < MaxDepth
    /\ usp' = SavedUsp(sr, a7)
    /\ \E outcome \in Outcome("push") \cup Outcome("vector"), next \in Address :
          /\ Faulted(outcome)
          /\ IF outcome = "push"
               THEN /\ IF sr.s THEN Pushed(a7, [pc |-> next, sr |-> sr], FALSE)
                               ELSE UNCHANGED <<a7, frames>>
                    /\ pc' = next /\ UNCHANGED <<sr, live>>
               ELSE /\ Pushed(ExceptionStack(sr, a7), [pc |-> next, sr |-> sr], TRUE)
                    /\ sr' = [sr EXCEPT !.s = TRUE]
                    /\ IF pending' THEN pc' = 0 /\ UNCHANGED live
                                   ELSE pc' \in Address /\ live' = live + 1
    /\ EnsureRegSnapshot
    /\ phase' = Decoded
    /\ UNCHANGED <<ssp, stopped, halted, irq, jit>>

-----------------------------------------------------------------------------
(* The end of a turn.                                                      *)

NoFault ==
    /\ phase = "check" /\ ~pending
    /\ phase' = "turn"
    /\ UNCHANGED <<pc, sr, stack, pending, where, needed, saved, stopped,
                   halted, irq, jit, live>>

\* The A7 that HandleBusError goes back to.
RolledBack == IF needed THEN a7 ELSE saved.a7

\* Whether the bus error's own frame or vector faults, a double fault. It does
\* when they are where the first fault was.
FrameFaults ==
    IF where = "push" \/ (where = "vector" /\ ~SplitVectors) THEN {TRUE} ELSE BOOLEAN

\* HandleBusError and RaiseBusError.
HandleBusError ==
    /\ phase = "check" /\ pending
    /\ usp' = SavedUsp(saved.sr, RolledBack)
    /\ sr' = [saved.sr EXCEPT !.s = TRUE]
    /\ \E double \in FrameFaults :
          /\ Pushed(ExceptionStack(saved.sr, RolledBack),
                    [pc |-> saved.pc, sr |-> saved.sr], ~double)
          /\ halted' = double
          /\ IF double THEN pc' = saved.pc /\ UNCHANGED live
                       ELSE pc' \in Address /\ live' = live + 1
    /\ pending' = FALSE /\ where' = "none"
    /\ phase' = "turn"
    /\ UNCHANGED <<ssp, needed, saved, stopped, irq, jit>>

\* The board raises or drops its request; seen at the start of a turn.
IrqChanges ==
    /\ phase = "turn"
    /\ irq' = ~irq
    /\ UNCHANGED <<pc, sr, stack, pending, where, needed, saved, stopped,
                   halted, jit, phase, live>>

-----------------------------------------------------------------------------
\* Reset, in supervisor mode with interrupts masked.
Init ==
    /\ pc = 0 /\ sr = [s |-> TRUE, mask |-> TRUE]
    /\ a7 = 0 /\ ssp = 0 /\ usp = User
    /\ frames = [n \in 1..(MaxDepth + 1) |-> [pc |-> 0, sr |-> sr]]
    /\ pending = FALSE /\ where = "none" /\ needed = FALSE
    /\ saved = [pc |-> 0, sr |-> sr, a7 |-> 0]
    /\ stopped = FALSE /\ halted = FALSE /\ irq = FALSE /\ jit \in Jits
    /\ phase = "turn" /\ live = 0

Decode ==
    FetchFaults \/ FastInstruction \/ MemoryInstruction \/ LoadStatus \/ Rte
    \/ RaiseException

Next ==
    \/ TakeInterrupt \/ StartInstruction \/ RunBlock \/ Decode
    \/ NoFault \/ HandleBusError \/ IrqChanges

Spec == Init /\ [][Next]_vars

-----------------------------------------------------------------------------
TypeOK ==
    /\ pc \in Address /\ sr \in Status
    /\ a7 \in Pointer /\ ssp \in Pointer \ {User} /\ usp \in Pointer
    /\ frames \in [1..(MaxDepth + 1) -> Frame]
    /\ where \in Where /\ pending = (where # "none")
    /\ saved.pc \in Address /\ saved.sr \in Status /\ saved.a7 \in Pointer
    /\ needed \in BOOLEAN /\ stopped \in BOOLEAN /\ halted \in BOOLEAN
    /\ irq \in BOOLEAN /\ jit \in Jits /\ phase \in Phase /\ live \in 0..MaxDepth

(* The interpreter looks at BusErrorPending after each instruction and each *)
(* interrupt: no turn starts with a fault that the guest was not told of.  *)
FaultTaken == phase = "turn" /\ ~jit => ~pending

(* "The outer execution loop (ExecuteStep / ExecuteNextFast /              *)
(* ExecuteNextFastJit) checks BusErrorPending after each instruction and   *)
(* routes to HandleBusError" (MC68030.h 107-109): whichever loop it is.    *)
FaultTakenByAny == phase = "turn" => ~pending

(* Between turns, A7 and SSP have exactly the frames above them that the   *)
(* guest has not returned from, and the user program its own stack: no     *)
(* fault in a push, a pop or a vector read leaks a frame or hands the user *)
(* program the supervisor's stack.                                         *)
StackBalanced ==
    phase = "turn" /\ ~pending /\ ~halted =>
        IF sr.s THEN a7 = live /\ usp = User
                ELSE a7 = User /\ ssp = live
=============================================================================
