------------------------------ MODULE Restart -------------------------------
(***************************************************************************)
(* One instruction against a memory whose pages come and go: the handlers  *)
(* of Core/InstructionDecoder and Core/FpuInstructionDecoder, with the     *)
(* order in which each one fetches, reads, commits registers and writes.   *)
(*                                                                         *)
(* An access that faults sets BusErrorPending. The handler runs to its end *)
(* with further accesses short-circuited, HandleBusError takes back D, A,  *)
(* SR and PC, and the operating system, which is external, maps the page   *)
(* and lets the instruction start again from its first word. Whatever else *)
(* the handler did before it ended stays done. (Module CpuFault has the    *)
(* exception itself, its frame and the stacks.)                            *)
(*                                                                         *)
(* Memory is a few cells on pages of two. A byte operand is a cell; longer *)
(* ones are two cells, which an address may put on two pages.              *)
(***************************************************************************)
EXTENDS Integers, Sequences

CONSTANTS
    Instr,      \* the instructions tried
    Bases,      \* the addresses a0 and a1 (and sp with it) may hold first
    Datas,      \* the values d0 may hold first
    MaxEvict    \* bound: pages the operating system takes away meanwhile

\* Effective addresses, in memory or not, and what an instruction is made of.
Reg == {"d0", "d1", "a0", "a1", "sp"}
InMemory == {"ind", "inc", "dec", "disp", "memind"}
Ea(modes) == [mode : modes, reg : Reg]
Operand == Ea(InMemory \cup {"reg"}) \cup [mode : {"imm"}, reg : {"none"}]

Alu == {"add", "sub", "neg", "not", "mul"}
Coprocessor == {"sfc", "dfc", "mmu", "fp"}

Encoded(ops, alus, eas, eas2) ==
    [op : ops, n : {1, 2}, alu : alus, ea : eas, ea2 : eas2, split : Nat, words : [1..4 -> Nat]]

ASSUME InstrAssumption ==
    LET Writable == Ea(InMemory \cup {"reg"})
        Any == Alu \cup {"none"}
    IN  Instr \subseteq
          Encoded({"move"}, Any, Operand, Writable)
          \cup Encoded({"modify", "modifyImm"}, Alu, Writable, Operand)
          \cup Encoded({"toReg", "toRegs", "extended"}, Alu, Operand, Operand)
          \cup Encoded({"writeOnly", "movemIn", "movemOut"}, Any, Writable, Operand)
          \cup Encoded({"bitField"}, {"chg", "clr", "ins"}, Ea(InMemory), Operand)
          \cup Encoded({"cas", "pea", "jsr"}, Any, Ea(InMemory), Operand)
          \cup Encoded({"reload"}, Coprocessor, Operand, Operand)
          \cup Encoded({"unload"}, Coprocessor, Writable, Operand)
          \cup Encoded({"cmpm", "unpk", "movep", "cas2", "link", "unlk", "rts", "movec", "stop",
                      "moves", "fpArith", "frestore"}, Any, Operand, Operand)

ASSUME ValueAssumption == Bases \subseteq Nat /\ Datas \subseteq Nat

Cells == 8
Cell == 0..Cells - 1
DataPage == 0..3
CodePage == {4, 5}
Page == DataPage \cup CodePage

\* Values are of 4 bits, a cell of 2.
Wide(hi, lo) == 4 * hi + lo
Hi(v) == v \div 4
Lo(v) == v % 4
Mod(v) == v % 16

None == [page |-> -1, write |-> FALSE]

VARIABLES
    i,        \* the instruction
    m,        \* the machine
    saved,    \* _savedD, _savedA, _savedSR and _lastPC
    trap,     \* what the frame tells the operating system of the fault
    start,    \* ghost: the machine as the instruction first found it
    ideal,    \* ghost: what the instruction leaves of it when nothing is missing
    halfDone, \* ghost: a fault came after a cell was written
    evicted,  \* pages taken away so far
    phase     \* "exec", "check", "fault" or "done"

vars == <<i, m, saved, trap, start, ideal, halfDone, evicted, phase>>

\* The registers HandleBusError takes back.
Registers(M) == [r |-> M.r, ccr |-> M.ccr, pc |-> M.pc]

-----------------------------------------------------------------------------
(* Accesses. M is the machine in the middle of a handler.                  *)

Ok(M) == M.fault = None

PageOf(a) == (a % Cells) \div 2

\* Mutant: a fault is reported as a read, whatever the access was.
FaultAsRead(p, write) == [page |-> p, write |-> FALSE]

\* SetBusError.
Fault(p, write) == [page |-> p, write |-> write]

Mapped(M, p, write) == M.map[p] = "rw" \/ (~write /\ M.map[p] = "ro")

\* Mutant: the accesses after a fault are carried out.
TouchAgain(M, p, write) ==
    [M EXCEPT !.fault = IF Mapped(M, p, write) THEN None ELSE Fault(p, write)]

\* Translation of an access; after a fault nothing more is accessed.
Touch(M, p, write) ==
    IF Ok(M) /\ ~Mapped(M, p, write) THEN [M EXCEPT !.fault = Fault(p, write)] ELSE M

\* A value read from cells into t.
Take(M, t, v, cells) == [M EXCEPT !.t[t] = v, !.reads = @ \cup cells]

\* What a read of cell c finds, N being the machine once it was translated.
Found(M, N, c) == IF Ok(N) THEN M.mem[c] ELSE 0

\* ReadByte, ReadWord or ReadLong at ad: n cells into t, zero for those that fault (of
\* a long that is half read, the first half is what was read).
Load(M, n, t) ==
    LET a  == M.ad % Cells
        b  == (M.ad + 1) % Cells
        M1 == Touch(M, PageOf(a), FALSE)
        M2 == Touch(M1, PageOf(b), FALSE)
    IN  IF n = 1 THEN Take(M1, t, Found(M, M1, a), {a})
        ELSE Take(M2, t, Wide(Found(M, M1, a), Found(M, M2, b)), {a, b})

StoreCell(M, a, v) ==
    LET M1 == Touch(M, PageOf(a), TRUE)
    IN  IF Ok(M1) THEN [M1 EXCEPT !.mem[a] = v, !.writes = @ \cup {a}] ELSE M1

\* WriteByte, WriteWord or WriteLong at ad. Within a page both cells or none.
Store(M, n, v) ==
    IF n = 1 THEN StoreCell(M, M.ad % Cells, Lo(v))
    ELSE StoreCell(StoreCell(M, M.ad % Cells, Hi(v)), (M.ad + 1) % Cells, Lo(v))

\* FetchWord: the next word of the instruction into t. Words from i.split on are
\* on the second page of code.
Fetch(I, M, t) ==
    LET M1 == Touch(M, IF M.pc >= I.split THEN 5 ELSE 4, FALSE)
    IN  IF Ok(M1) THEN [M1 EXCEPT !.t[t] = I.words[M.pc + 1], !.pc = @ + 1]
        ELSE [M1 EXCEPT !.t[t] = 0]

At(M, a) == [M EXCEPT !.ad = a % Cells]

SetReg(M, r, v) == [M EXCEPT !.r[r] = Mod(v)]

\* The condition codes tell the whole result.
Flags(M, v) == [M EXCEPT !.ccr = Mod(v)]

-----------------------------------------------------------------------------
(* Effective addresses (Core/AddressingModes).                             *)

\* ResolveAddress, into ad.
Resolve(I, M, ea, n) ==
    CASE ea.mode = "ind" -> At(M, M.r[ea.reg])
      [] ea.mode = "inc" -> SetReg(At(M, M.r[ea.reg]), ea.reg, M.r[ea.reg] + n)
      [] ea.mode = "dec" -> At(SetReg(M, ea.reg, M.r[ea.reg] - n), M.r[ea.reg] - n)
      [] ea.mode = "disp" ->
            LET M1 == Fetch(I, M, "e") IN At(M1, M1.r[ea.reg] + M1.t.e)
      [] ea.mode = "memind" ->
            LET M1 == Fetch(I, M, "e")
                M2 == Load(At(M1, M1.r[ea.reg]), 2, "p")
            IN  At(M2, M2.t.p + M2.t.e)

\* ReadValue, and ReadValueForModify, into t.
ReadValue(I, M, ea, n, t) ==
    CASE ea.mode = "reg" -> [M EXCEPT !.t[t] = M.r[ea.reg]]
      [] ea.mode = "imm" -> Fetch(I, M, t)
      [] OTHER -> Load(Resolve(I, M, ea, n), n, t)

\* WriteValueFromModify, to the address ReadValueForModify left.
WriteBack(M, ea, n, v) ==
    IF ea.mode = "reg" THEN SetReg(M, ea.reg, v) ELSE Store(M, n, v)

\* WriteValue.
WriteValue(I, M, ea, n, v) ==
    IF ea.mode = "reg" THEN SetReg(M, ea.reg, v) ELSE Store(Resolve(I, M, ea, n), n, v)

Sp == "sp"

Push(M, v) == LET M1 == At(SetReg(M, Sp, M.r.sp - 2), M.r.sp - 2) IN Store(M1, 2, v)

Pop(M, t) == LET M1 == Load(At(M, M.r.sp), 2, t) IN SetReg(M1, Sp, M.r.sp + 2)

-----------------------------------------------------------------------------
(* The handlers. I is the instruction, M the machine after its first word. *)

\* What an instruction makes of operand x and register or immediate y.
Result(alu, x, y) ==
    CASE alu = "add" -> Mod(x + y)
      [] alu = "sub" -> Mod(x - y)
      [] alu = "neg" -> Mod(-x)
      [] alu = "not" -> 15 - x
      [] alu = "mul" -> Mod(x * y)

\* MOVE.
Move(I, M) ==
    LET M1 == ReadValue(I, M, I.ea, I.n, "x")
    IN  Flags(WriteValue(I, M1, I.ea2, I.n, M1.t.x), M1.t.x)

\* CLR, Scc, MOVE from SR: nothing is read.
WriteOnly(I, M) == Flags(WriteValue(I, M, I.ea, I.n, 0), 0)

\* ADD, SUB, OR, AND, EOR to memory, ADDQ, SUBQ, NEG, NEGX, NOT, the shifts in
\* memory, the bit operations, TAS, NBCD.
Modify(I, M) ==
    LET M1 == ReadValue(I, M, I.ea, I.n, "x")
        v  == Result(I.alu, M1.t.x, M1.r.d0)
    IN  Flags(WriteBack(M1, I.ea, I.n, v), v)

\* ORI, ANDI, EORI, SUBI, ADDI and the static bit operations.
ModifyImmediate(I, M) ==
    LET M1 == Fetch(I, M, "y")
        M2 == ReadValue(I, M1, I.ea, I.n, "x")
        v  == Result(I.alu, M2.t.x, M2.t.y)
    IN  Flags(WriteBack(M2, I.ea, I.n, v), v)

\* ADD, SUB, OR, AND, CMP, MUL, DIV and their kind to a data register.
ToRegister(I, M) ==
    LET M1 == ReadValue(I, M, I.ea, I.n, "x")
        v  == Result(I.alu, M1.t.x, M1.r.d0)
    IN  Flags(SetReg(M1, "d0", v), v)

\* MUL and DIV of longs: an extension word, and two registers.
ToRegisters(I, M) ==
    LET M1 == ToRegister(I, Fetch(I, M, "e")) IN SetReg(M1, "d1", M1.t.x)

\* ADDX, SUBX -(Ay),-(Ax); ABCD, SBCD likewise.
Extended(I, M) ==
    LET M1 == SetReg(SetReg(M, "a0", M.r.a0 - I.n), "a1", M.r.a1 - I.n)
        M2 == Load(At(M1, M1.r.a0), I.n, "x")
        M3 == Load(At(M2, M2.r.a1), I.n, "y")
        v  == Result(I.alu, M3.t.y, M3.t.x)
    IN  Flags(Store(M3, I.n, v), v)

\* CMPM (Ay)+,(Ax)+.
Cmpm(I, M) ==
    LET M1 == Load(At(M, M.r.a0), I.n, "x")
        M2 == SetReg(M1, "a0", M1.r.a0 + I.n)
        M3 == Load(At(M2, M2.r.a1), I.n, "y")
    IN  Flags(SetReg(M3, "a1", M3.r.a1 + I.n), M3.t.y - M3.t.x)

\* UNPK -(Ay),-(Ax): one cell in, two out.
Unpk(I, M) ==
    LET M1 == Fetch(I, M, "y")
        M2 == SetReg(M1, "a0", M1.r.a0 - 1)
        M3 == Load(At(M2, M2.r.a0), 1, "x")
        M4 == SetReg(M3, "a1", M3.r.a1 - 2)
    IN  Store(At(M4, M4.r.a1), 2, M4.t.x + M4.t.y)

\* MOVEM (An)+ to D0, A0, A1.
MovemIn(I, M) ==
    LET M1 == Fetch(I, M, "e")
        a  == M1.r[I.ea.reg]
        M2 == Load(At(M1, a), 2, "x")
        M3 == Load(At(SetReg(M2, "d0", M2.t.x), a + 2), 2, "x")
        M4 == SetReg(M3, "a1", M3.t.x)
    IN  SetReg(M4, I.ea.reg, a + 4)

\* MOVEM D0, A1 to -(An).
MovemOut(I, M) ==
    LET M1 == Fetch(I, M, "e")
        a  == M1.r[I.ea.reg]
        M2 == Store(At(M1, a - 2), 2, IF I.ea.reg = "a1" THEN M1.r.a1 - 2 ELSE M1.r.a1)
        M3 == Store(At(M2, a - 4), 2, M2.r.d0)
    IN  SetReg(M3, I.ea.reg, a - 4)

\* MOVEP Dn,(d,An): every other cell.
MovepOut(I, M) ==
    LET M1 == Fetch(I, M, "e")
        M2 == Store(At(M1, M1.r.a0 + M1.t.e), 1, Hi(M1.r.d0))
    IN  Store(At(M2, M2.r.a0 + M2.t.e + 2), 1, Lo(M2.r.d0))

\* CAS: dc is d0, du is d1.
Cas(I, M) ==
    LET M1 == ReadValue(I, Fetch(I, M, "y"), I.ea, I.n, "x")
        M2 == Flags(M1, M1.t.x - M1.r.d0)
    IN  IF M2.ccr = 0 THEN Store(M2, I.n, M2.r.d1) ELSE SetReg(M2, "d0", M2.t.x)

\* CAS2: both pairs are (d0, d1), at (a0) and (a1).
Cas2(I, M) ==
    LET M1 == Fetch(I, Fetch(I, M, "y"), "y")
        M2 == Load(At(M1, M1.r.a0), I.n, "x")
        M3 == Load(At(M2, M2.r.a1), I.n, "y")
    IN  IF M3.t.x = M3.r.d0 /\ M3.t.y = M3.r.d0
          THEN Flags(Store(At(Store(At(M3, M3.r.a0), I.n, M3.r.d1), M3.r.a1), I.n, M3.r.d1), 0)
          ELSE Flags(SetReg(M3, "d0", M3.t.y), 1)

\* BFCHG, BFCLR, BFINS: the flags are those of the field as it was, or, for
\* BFINS, of what is put in.
BitField(I, M) ==
    LET M1 == Load(Resolve(I, Fetch(I, M, "y"), I.ea, 1), 2, "x")
        v  == CASE I.alu = "chg" -> 15 - M1.t.x
                [] I.alu = "clr" -> 0
                [] I.alu = "ins" -> M1.r.d0
    IN  Flags(Store(M1, 2, v), IF I.alu = "ins" THEN v ELSE M1.t.x)

\* PEA, LINK, UNLK.
Pea(I, M)  == LET M1 == Resolve(I, M, I.ea, 2) IN Push(M1, M1.ad)

Link(I, M) ==
    LET M1 == Push(M, M.r.a0)
        M2 == Fetch(I, SetReg(M1, "a0", M1.r.sp), "e")
    IN  SetReg(M2, Sp, M2.r.sp + M2.t.e)

Unlk(I, M) == LET M1 == Pop(SetReg(M, Sp, M.r.a0), "x") IN SetReg(M1, "a0", M1.t.x)

\* JSR, BSR; RTS, RTR, RTD: the debugger's shadow stack is kept up.
Jsr(I, M) ==
    LET M1 == Resolve(I, M, I.ea, 2)
        to == M1.ad
        M2 == Push(M1, M1.pc)
    IN  [M2 EXCEPT !.kept.shadow = @ + 1, !.pc = to]

Rts(I, M) ==
    LET M1 == Pop(M, "x") IN [M1 EXCEPT !.kept.shadow = @ - 1, !.pc = M1.t.x]

\* MOVEC Rn,Rc: an extension word of 0 is D0 to SFC.
Movec(I, M) ==
    LET M1 == Fetch(I, M, "e")
    IN  IF M1.t.e = 0 THEN [M1 EXCEPT !.kept.sfc = M.r.d0] ELSE [M1 EXCEPT !.kept.dfc = M.r.d1]

\* STOP #imm.
Stop(I, M) == LET M1 == Fetch(I, M, "x") IN Flags([M1 EXCEPT !.kept.stopped = TRUE], M1.t.x)

\* MOVES to a register.
Moves(I, M) ==
    LET M1 == ReadValue(I, Fetch(I, M, "y"), I.ea, I.n, "x")
    IN  IF Ok(M1) THEN SetReg(M1, "d0", M1.t.x) ELSE M1

\* PMOVE to an MMU register, FMOVE to a control register, FMOVEM to registers.
Reload(I, M) ==
    LET M1 == ReadValue(I, Fetch(I, M, "y"), I.ea, I.n, "x")
    IN  [M1 EXCEPT !.kept[I.alu] = M1.t.x]

\* PMOVE, FMOVE and FMOVEM the other way, FSAVE.
Unload(I, M) ==
    LET M1 == Fetch(I, M, "y") IN WriteValue(I, M1, I.ea, I.n, M1.kept[I.alu])

\* The FPU's arithmetic on an operand in memory; a command word of 0 moves a
\* register to itself.
FpArithmetic(I, M) ==
    LET M1 == Fetch(I, M, "y")
        M2 == ReadValue(I, M1, I.ea, I.n, "x")
    IN  IF ~Ok(M1) THEN M1 ELSE [M2 EXCEPT !.kept.fp = Result("mul", @, M2.t.x)]

\* FRESTORE: a null frame resets the FPU.
Frestore(I, M) ==
    LET M1 == ReadValue(I, M, I.ea, I.n, "x")
    IN  IF M1.t.x = 0 THEN [M1 EXCEPT !.kept.fp = 0] ELSE M1

\* The decoder's dispatch.
Handler(I, M) ==
    CASE I.op = "move" -> Move(I, M)           [] I.op = "writeOnly" -> WriteOnly(I, M)
      [] I.op = "modify" -> Modify(I, M)       [] I.op = "modifyImm" -> ModifyImmediate(I, M)
      [] I.op = "toReg" -> ToRegister(I, M)    [] I.op = "toRegs" -> ToRegisters(I, M)
      [] I.op = "extended" -> Extended(I, M)   [] I.op = "cmpm" -> Cmpm(I, M)
      [] I.op = "unpk" -> Unpk(I, M)           [] I.op = "movemIn" -> MovemIn(I, M)
      [] I.op = "movemOut" -> MovemOut(I, M)   [] I.op = "movep" -> MovepOut(I, M)
      [] I.op = "cas" -> Cas(I, M)             [] I.op = "cas2" -> Cas2(I, M)
      [] I.op = "bitField" -> BitField(I, M)   [] I.op = "pea" -> Pea(I, M)
      [] I.op = "link" -> Link(I, M)           [] I.op = "unlk" -> Unlk(I, M)
      [] I.op = "jsr" -> Jsr(I, M)             [] I.op = "rts" -> Rts(I, M)
      [] I.op = "movec" -> Movec(I, M)         [] I.op = "stop" -> Stop(I, M)
      [] I.op = "moves" -> Moves(I, M)         [] I.op = "reload" -> Reload(I, M)
      [] I.op = "unload" -> Unload(I, M)       [] I.op = "fpArith" -> FpArithmetic(I, M)
      [] I.op = "frestore" -> Frestore(I, M)

\* ExecuteNext: an opcode that cannot be fetched is decoded as ORI #0,D0.
Executed(I, M) ==
    LET M1 == Fetch(I, M, "op") IN IF Ok(M1) THEN Handler(I, M1) ELSE Flags(M1, M1.r.d0)

-----------------------------------------------------------------------------
(* The loop around it.                                                     *)

Machine ==
    [r |-> [d0 |-> 0, d1 |-> 9, a0 |-> 0, a1 |-> 0, sp |-> 0], ccr |-> 0, pc |-> 0,
     mem |-> [a \in Cell |-> (a % 3) + 1],
     map |-> [p \in Page |-> "rw"],
     kept |-> [sfc |-> 0, dfc |-> 0, mmu |-> 6, fp |-> 3, stopped |-> FALSE, shadow |-> 1],
     fault |-> None, ad |-> 0, reads |-> {}, writes |-> {},
     t |-> [op |-> 0, x |-> 0, y |-> 0, e |-> 0, p |-> 0]]

Init ==
    /\ i \in Instr
    /\ \E d \in Datas, a \in Bases, b \in Bases, map \in [Page -> {"none", "ro"}] :
          m = [Machine EXCEPT !.r = [d0 |-> d, d1 |-> 9, a0 |-> a, a1 |-> b, sp |-> b],
                              !.map = map]
    /\ saved = Registers(m) /\ trap = None
    /\ start = m /\ ideal = m /\ halfDone = FALSE /\ evicted = 0 /\ phase = "exec"

\* One turn of the execution loop up to the check of the flag.
Execute ==
    /\ phase = "exec" /\ phase' = "check"
    /\ saved' = Registers(m)
    /\ m' = Executed(i, m)
    /\ halfDone' = (halfDone \/ (~Ok(m') /\ m'.writes # {}))
    /\ UNCHANGED <<i, trap, start, ideal, evicted>>

Complete ==
    /\ phase = "check" /\ Ok(m) /\ phase' = "done"
    /\ ideal' = Executed(i, [start EXCEPT !.map = [p \in Page |-> "rw"]])
    /\ UNCHANGED <<i, m, saved, trap, start, halfDone, evicted>>

TakenBack(M) == [M EXCEPT !.r = saved.r, !.ccr = saved.ccr, !.pc = saved.pc]

HandleBusError ==
    /\ phase = "check" /\ ~Ok(m) /\ phase' = "fault"
    /\ trap' = m.fault
    /\ m' = [TakenBack(m) EXCEPT !.fault = None, !.reads = {}, !.writes = {}]
    /\ UNCHANGED <<i, saved, start, ideal, halfDone, evicted>>

\* The operating system maps what was missing, for the access it was told of, and
\* may take another page for it. (External.)
PageIn ==
    /\ phase = "fault" /\ phase' = "exec"
    /\ \E mode \in IF trap.write THEN {"rw"} ELSE {"ro", "rw"}, victim \in Page :
          /\ victim # trap.page => evicted < MaxEvict
          /\ evicted' = IF victim = trap.page THEN evicted ELSE evicted + 1
          /\ m' = [m EXCEPT !.map[victim] = "none", !.map[trap.page] = mode]
    /\ UNCHANGED <<i, saved, trap, start, ideal, halfDone>>

Next == Execute \/ Complete \/ HandleBusError \/ PageIn

Spec == Init /\ [][Next]_vars

-----------------------------------------------------------------------------
(* Properties.                                                             *)

\* What a fault in the middle spoils: registers of the FPU, SFC and the stopped
\* state are no part of what HandleBusError takes back.
Unsaved == {"fpArith", "frestore", "movec", "stop"}

\* The state of the CPU and its coprocessors; the shadow stack is the debugger's.
Kept(M) == [M.kept EXCEPT !.shadow = 0]

\* Restarted as often as it takes, an instruction leaves what it leaves when
\* nothing is missing: no register is stepped twice, no operand read as zero is
\* used, no result stored that was computed from one. Except where a fault came
\* between two writes of an instruction that reads what it writes: the restarted
\* instruction then finds its operand half changed.
RestartExact ==
    /\ phase = "done"
    /\ halfDone => ideal.reads \cap ideal.writes = {}
    => /\ Registers(m) = Registers(ideal) /\ m.mem = ideal.mem
       /\ i.op \notin Unsaved => Kept(m) = Kept(ideal)

\* What the frame tells the operating system is what stopped the instruction, also
\* when later accesses of the same handler would have faulted in another way: an
\* access the page does not allow, so that allowing it gets the instruction further.
TrapTellsCause == phase = "fault" => ~Mapped(m, trap.page, trap.write)

\* "HandleBusError which rolls back register state" (MC68030.h 110): those of the
\* FPU as well.
FpRestarts == phase = "done" => m.kept.fp = ideal.kept.fp
=============================================================================
