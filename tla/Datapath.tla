------------------------------ MODULE Datapath ------------------------------
(* Every instruction the JIT compiles exists twice: as a handler of the      *)
(* interpreter (Core/InstructionDecoder.cpp), which decodes the opcode each  *)
(* time, and as a JitOp, decoded once by TryCompile and run by               *)
(* CompiledBlock::Execute (Core/JitCompiler.cpp).  Here two machines start   *)
(* in the same state and run the same instructions, one with each.           *)
(*                                                                           *)
(* An instruction carries the fields of its opcode: x stands for bits 11-9,  *)
(* y for bits 2-0, ext for the displacement or immediate data.               *)
EXTENDS Alu

CONSTANTS Width,      \* bits of the sizes "b", "w" and "l"
          Regs,       \* registers of each kind
          SP,         \* the address register that is the stack pointer
          DataValues, AddressValues,  \* bound: the registers at the start
          Codes,      \* bound: condition codes at the start
          Fields,     \* bound: quick data and shift counts, 0 .. 7 in the code
          Exts,       \* bound: displacements and immediate data, as words
          Scales,     \* bound: powers of two an index is scaled by, 0 .. 3
          Memory,     \* what the guest's memory holds at each address
          Entry,      \* the address of the first instruction
          MaxSteps    \* bound: instructions executed

Sizes == {"b", "w", "l"}
NZVC  == {"N", "Z", "V", "C"}
XNZVC == NZVC \cup {"X"}

\* Twice the size is the square of the modulus.
Power[n \in 0 .. Width["l"]] == IF n = 0 THEN 1 ELSE 2 * Power[n - 1]

Modulus == [size \in Sizes |-> Power[Width[size]]]
Long    == 0 .. Modulus["l"] - 1

ASSUME WidthAssumption ==
  /\ Width["b"] \in Nat \ {0}
  /\ Width["w"] = 2 * Width["b"]
  /\ Width["l"] = 2 * Width["w"]

ASSUME GuestAssumption ==
  /\ SP \in Regs /\ Entry \in Long /\ Memory \in [Long -> Long]
  /\ DataValues \subseteq Long /\ AddressValues \subseteq Long
  /\ Codes \subseteq SUBSET XNZVC
  /\ Fields \subseteq 0 .. 7 /\ Scales \subseteq 0 .. 3 /\ Exts \subseteq Nat

VARIABLES cpu,     \* the machine the interpreter runs
          jit,     \* the machine the JIT runs
          stale,   \* flags the JIT has left out as dead
          steps

dataVars == <<cpu, jit, stale, steps>>

-----------------------------------------------------------------------------
(* The instructions JitCompiler::Classify knows *)

Dyadic  == {"Add", "Sub", "Cmp", "And", "Or", "Eor"}
Monadic == {"Clr", "Tst", "Neg", "Not"}
Quick   == {"Addq", "Subq"}
QuickA  == {"AddqAn", "SubqAn"}
Shifts  == {"Asl", "Asr", "Lsl", "Lsr"}
OnOne   == {"ExtW", "ExtL", "ExtbL", "Swap"}
OnTwo   == {"MoveLDnDm", "MoveLAnDn", "MoveaLDnAn", "MoveaLAnAm",
            "ExgDnDm", "ExgAnAm", "ExgDnAn", "Mulu", "Muls", "Btst", "LeaAn"}
Loads   == {"MoveLInd", "MoveLPostInc", "MoveLD16"}

Insn(kinds, sizes, xs, ys, exts) ==
  [kind : kinds, size : sizes, x : xs, y : ys, ext : exts]

Plain ==
  UNION {Insn(Dyadic, Sizes, Regs, Regs, {0}),
         Insn(Monadic, Sizes, {0}, Regs, {0}),
         Insn(Quick, Sizes, Fields, Regs, {0}),
         Insn(QuickA, {"l"}, Fields, Regs, {0}),
         Insn(Shifts, {"l"}, Fields, Regs, {0}),
         Insn(OnOne, {"l"}, {0}, Regs, {0}),
         Insn(OnTwo, {"l"}, Regs, Regs, {0}),
         Insn({"Moveq"}, {"l"}, Regs, {0}, Exts),
         Insn({"LeaD16"} \cup Loads, {"l"}, Regs, Regs, Exts),
         Insn({"Nop", "Rts"}, {"l"}, {0}, {0}, {0})}

(* d8(An,Xn): the extension word names an index register, its size and the   *)
(* power of two it is scaled by.                                             *)
Indexed ==
  [kind : {"LeaD8Xn"}, size : {"l"}, x : Regs, y : Regs, ext : Exts,
   address : BOOLEAN, index : Regs, long : BOOLEAN, scale : Scales]

(* Bcc and BRA, with the displacement in the opcode or in a word of its own. *)
Branches ==
  [kind : {"Branch"}, size : {"b", "w"}, x : {0}, y : {0}, ext : Exts \ {0},
   cond : Conditions \ {"F"}]

Instructions == Plain \cup Indexed \cup Branches

(* Bytes after the opcode. *)
TailBytes(i) == IF \/ i.kind \in {"LeaD16", "LeaD8Xn", "MoveLD16"}
                   \/ i.kind = "Branch" /\ i.size = "w"
                THEN 2 ELSE 0

Cast(v, size)        == v % Modulus[size]
Extended(v, size)    == Word(Signed(Cast(v, size), Modulus[size]), Modulus["l"])
Put(reg, v, size)    == reg - Cast(reg, size) + v
Wide(i)              == Word(i, Modulus["l"])
QuickData(i)         == IF i.x = 0 THEN 8 ELSE i.x
Swapped(v)           == Modulus["w"] * (v % Modulus["w"]) + v \div Modulus["w"]
Inverted(v, size)    == Modulus[size] - 1 - v

HasBit(v, n) == (v \div Power[n]) % 2 = 1

Gate(kind, p, q) == CASE kind = "And" -> p /\ q
                      [] kind = "Or"  -> p \/ q
                      [] kind = "Eor" -> p # q

\* The operators &, | and ^ of the host, from the lowest bit up.
Logic(kind, a, b) ==
  LET low[n \in 0 .. Width["l"]] ==
        IF n = 0 THEN 0
        ELSE low[n - 1] + IF Gate(kind, HasBit(a, n - 1), HasBit(b, n - 1))
                          THEN Power[n - 1] ELSE 0
  IN  low[Width["l"]]

Shifter(kind, v, count) ==
  CASE kind \in {"Asl", "Lsl"} -> ShiftLeft(v, count, Modulus["l"])
    [] kind = "Asr" -> ArithShiftRight(v, count, Modulus["l"])
    [] kind = "Lsr" -> LogicalShiftRight(v, count, Modulus["l"])

-----------------------------------------------------------------------------
(* The interpreter.  A handler takes the machine, its pc behind the opcode.  *)

SetD(m, r, v)       == [m EXCEPT !.d[r] = v]
SetA(m, r, v)       == [m EXCEPT !.a[r] = v]
SetCCR(m, f)        == [m EXCEPT !.ccr = f]
UpdateCCR(m, f)     == [m EXCEPT !.ccr = (@ \ NZVC) \cup (f \cap NZVC)]
SetLogicFlags(m, v, size) ==
  UpdateCCR(m, SetNZFlags(Cast(v, size), Modulus[size]))

ReadRegValue(m, r, size)     == Cast(m.d[r], size)
WriteRegValue(m, r, v, size) == SetD(m, r, Put(m.d[r], Cast(v, size), size))

(* Groups 9 and D, data registers: ADD, SUB.  Group B: CMP. *)
DecodeArith(i, m) ==
  LET a == ReadRegValue(m, i.x, i.size)
      b == ReadRegValue(m, i.y, i.size)
      s == IF i.kind = "Add" THEN Add(a, b, m.ccr, FALSE, Modulus[i.size])
                             ELSE Sub(a, b, m.ccr, FALSE, Modulus[i.size])
  IN  IF i.kind = "Cmp" THEN UpdateCCR(m, s.ccr)
      ELSE SetCCR(WriteRegValue(m, i.x, s.result, i.size), s.ccr)

(* Groups 8 and C: OR and AND work on whole registers and cut the result.    *)
(* Group B: EOR goes to the operand that the others read.                    *)
DecodeLogic(i, m) ==
  LET r   == Logic(i.kind, m.d[i.x], m.d[i.y])
      dst == IF i.kind = "Eor" THEN i.y ELSE i.x
  IN  SetLogicFlags(WriteRegValue(m, dst, r, i.size), r, i.size)

(* Group 5 *)
DecodeQuick(i, m) ==
  LET v == ReadRegValue(m, i.y, i.size)
      q == Cast(QuickData(i), i.size)
      s == IF i.kind = "Addq" THEN Add(v, q, m.ccr, FALSE, Modulus[i.size])
                              ELSE Sub(v, q, m.ccr, FALSE, Modulus[i.size])
  IN  SetCCR(WriteRegValue(m, i.y, s.result, i.size), s.ccr)

DecodeQuickA(i, m) ==
  SetA(m, i.y, Wide(m.a[i.y] + IF i.kind = "AddqAn" THEN QuickData(i)
                                                    ELSE -QuickData(i)))

(* Group 4 *)
DecodeMonadic(i, m) ==
  LET v == ReadRegValue(m, i.y, i.size)
      s == Sub(0, v, m.ccr, FALSE, Modulus[i.size])
      n == Inverted(v, i.size)
  IN  CASE i.kind = "Clr" -> SetCCR(WriteRegValue(m, i.y, 0, i.size),
                                    (m.ccr \cap {"X"}) \cup {"Z"})
        [] i.kind = "Tst" -> SetLogicFlags(m, v, i.size)
        [] i.kind = "Neg" -> SetCCR(WriteRegValue(m, i.y, s.result, i.size), s.ccr)
        [] i.kind = "Not" -> SetLogicFlags(WriteRegValue(m, i.y, n, i.size),
                                           n, i.size)

DecodeOnOne(i, m) ==
  LET v == m.d[i.y]
      byte == Cast(Extended(v, "b"), "w")
      Long4(r) == SetLogicFlags(SetD(m, i.y, r), r, "l")
  IN  CASE i.kind = "ExtW"  -> SetLogicFlags(SetD(m, i.y, Put(v, byte, "w")),
                                             byte, "w")
        [] i.kind = "ExtL"  -> Long4(Extended(v, "w"))
        [] i.kind = "ExtbL" -> Long4(Extended(v, "b"))
        [] i.kind = "Swap"  -> Long4(Swapped(v))

(* Group E, register shifts of a long word by an immediate count. *)
DecodeShift(i, m) ==
  LET s == Shifter(i.kind, m.d[i.y], QuickData(i))
  IN  SetCCR(SetD(m, i.y, s.result), s.ccr)

(* Groups 2, 7, and the rest of 0, 4 and C. *)
DecodeMove(v, r, m)  == SetLogicFlags(SetD(m, r, v), v, "l")

DecodeMul(i, m) ==
  LET Factor(r) == IF i.kind = "Muls" THEN Signed(Cast(m.d[r], "w"), Modulus["w"])
                                      ELSE Cast(m.d[r], "w")
      p == Mul(Factor(i.x), Factor(i.y), Modulus["l"])
  IN  UpdateCCR(SetD(m, i.x, p.result), p.ccr)

DecodeBtst(i, m) ==
  SetCCR(m, (m.ccr \ {"Z"})
              \cup When(~ HasBit(m.d[i.y], m.d[i.x] % Width["l"]), {"Z"}))

DecodeTwo(i, m) ==
  CASE i.kind = "MoveLDnDm"  -> DecodeMove(m.d[i.y], i.x, m)
    [] i.kind = "MoveLAnDn"  -> DecodeMove(m.a[i.y], i.x, m)
    [] i.kind = "MoveaLDnAn" -> SetA(m, i.x, m.d[i.y])
    [] i.kind = "MoveaLAnAm" -> SetA(m, i.x, m.a[i.y])
    [] i.kind = "LeaAn"      -> SetA(m, i.x, m.a[i.y])
    [] i.kind = "ExgDnDm"    -> SetD(SetD(m, i.x, m.d[i.y]), i.y, m.d[i.x])
    [] i.kind = "ExgAnAm"    -> SetA(SetA(m, i.x, m.a[i.y]), i.y, m.a[i.x])
    [] i.kind = "ExgDnAn"    -> SetA(SetD(m, i.x, m.a[i.y]), i.y, m.d[i.x])
    [] i.kind \in {"Mulu", "Muls"} -> DecodeMul(i, m)
    [] i.kind = "Btst"       -> DecodeBtst(i, m)

(* ResolveIndexed, brief format. *)
ResolveIndexed(i, m) ==
  LET file == IF i.address THEN m.a ELSE m.d
      v    == IF i.long THEN Signed(file[i.index], Modulus["l"])
                        ELSE Signed(Cast(file[i.index], "w"), Modulus["w"])
  IN  Wide(m.a[i.y] + Extended(i.ext, "b") + v * Power[i.scale])

(* (An), (An)+, d16(An) *)
DecodeLoad(i, m) ==
  LET addr == IF i.kind = "MoveLD16" THEN Wide(m.a[i.y] + Extended(i.ext, "w"))
                                     ELSE m.a[i.y]
      n    == IF i.kind = "MoveLPostInc" THEN SetA(m, i.y, Wide(addr + 4)) ELSE m
  IN  DecodeMove(Memory[addr], i.x, n)

(* Group 6: the displacement counts from behind the opcode. *)
DecodeBranch(i, m) ==
  LET target == Wide(m.pc + Extended(i.ext, i.size))
      next   == Wide(m.pc + TailBytes(i))
  IN  [m EXCEPT !.pc = IF i.cond = "T" \/ EvaluateCondition(i.cond, m.ccr)
                       THEN target ELSE next]

Interpret(i, before) ==
  LET m == [before EXCEPT !.pc = Wide(@ + 2)]      \* FetchWord
      k == i.kind
      Past(n) == [n EXCEPT !.pc = Wide(@ + TailBytes(i))]
  IN  CASE k \in {"Add", "Sub", "Cmp"} -> DecodeArith(i, m)
        [] k \in {"And", "Or", "Eor"}  -> DecodeLogic(i, m)
        [] k \in Quick    -> DecodeQuick(i, m)
        [] k \in QuickA   -> DecodeQuickA(i, m)
        [] k \in Monadic  -> DecodeMonadic(i, m)
        [] k \in OnOne    -> DecodeOnOne(i, m)
        [] k \in Shifts   -> DecodeShift(i, m)
        [] k \in OnTwo    -> DecodeTwo(i, m)
        [] k \in Loads    -> Past(DecodeLoad(i, m))
        [] k = "Moveq"    -> DecodeMove(Extended(i.ext, "b"), i.x, m)
        [] k = "LeaD16"   -> Past(SetA(m, i.x,
                                       Wide(m.a[i.y] + Extended(i.ext, "w"))))
        [] k = "LeaD8Xn"  -> Past(SetA(m, i.x, ResolveIndexed(i, m)))
        [] k = "Nop"      -> m
        [] k = "Rts"      -> [m EXCEPT !.pc = Memory[m.a[SP]],
                                       !.a[SP] = Wide(@ + 4)]
        [] k = "Branch"   -> DecodeBranch(i, m)

-----------------------------------------------------------------------------
(* The JIT.  TryCompile finds out once which register is which. *)

ToX == {"Add", "Sub", "Cmp", "And", "Or", "MoveLDnDm", "MoveLAnDn", "MoveaLDnAn",
        "MoveaLAnAm", "Mulu", "Muls", "LeaAn", "LeaD16", "LeaD8Xn", "Moveq"}
         \cup Loads

Immediate(i) ==
  CASE i.kind \in Quick \cup QuickA \cup Shifts -> QuickData(i)
    [] i.kind \in {"Moveq", "LeaD8Xn"} -> Extended(i.ext, "b")
    [] i.kind \in {"LeaD16", "MoveLD16"} -> Extended(i.ext, "w")
    [] OTHER -> 0

(* Mutant: EOR is taken to have its destination where the others have it. *)
CompileEorLikeOr(i, start) ==
  LET pc  == Wide(start + 2 + TailBytes(i))
      toX == i.kind \in ToX \cup {"Eor"}
  IN  [kind |-> i.kind, size |-> i.size, imm |-> Immediate(i), insn |-> i,
       src |-> IF toX THEN i.y ELSE i.x, dst |-> IF toX THEN i.x ELSE i.y,
       branchTarget |-> Wide((IF i.size = "w" THEN pc - 2 ELSE pc)
                               + Extended(i.ext, i.size)),
       fallthroughPC |-> pc]

(* The displacement of a branch counts from behind the opcode, so one in a   *)
(* word of its own from two bytes before the end.                            *)
Compile(i, start) ==
  LET pc  == Wide(start + 2 + TailBytes(i))
      toX == i.kind \in ToX
  IN  [kind |-> i.kind, size |-> i.size, imm |-> Immediate(i), insn |-> i,
       src |-> IF toX THEN i.y ELSE i.x, dst |-> IF toX THEN i.x ELSE i.y,
       branchTarget |-> Wide((IF i.size = "w" THEN pc - 2 ELSE pc)
                               + Extended(i.ext, i.size)),
       fallthroughPC |-> pc]

(* What an op leaves in the registers, and in the flags if they are needed.  *)
KeepX(ccr, v, size) ==
  (ccr \cap {"X"}) \cup SetNZFlags(Cast(v, size), Modulus[size])

JitAlu(op, m, a, b) ==
  IF op.kind \in {"Add", "Addq"} THEN Add(a, b, m.ccr, FALSE, Modulus[op.size])
                                 ELSE Sub(a, b, m.ccr, FALSE, Modulus[op.size])

JitArith(op, m) ==
  LET d == Cast(m.d[op.dst], op.size)
      s == CASE op.kind \in Quick -> JitAlu(op, m, d, Cast(op.imm, op.size))
             [] op.kind = "Neg"   -> JitAlu(op, m, 0, d)
             [] OTHER -> JitAlu(op, m, d, Cast(m.d[op.src], op.size))
  IN  IF op.kind = "Cmp"
      THEN [m EXCEPT !.ccr = (@ \cap {"X"}) \cup (s.ccr \ {"X"})]
      ELSE [m EXCEPT !.d[op.dst] = Put(@, s.result, op.size), !.ccr = s.ccr]

JitLogic(op, m) ==
  LET d == Cast(m.d[op.dst], op.size)
      v == CASE op.kind = "Clr" -> 0
             [] op.kind = "Tst" -> d
             [] op.kind = "Not" -> Inverted(d, op.size)
             [] OTHER -> Logic(op.kind, d, Cast(m.d[op.src], op.size))
  IN  [m EXCEPT !.d[op.dst] = Put(@, v, op.size),
                !.ccr = KeepX(@, v, op.size)]

JitOnOne(op, m) ==
  LET d == m.d[op.dst]
      v == CASE op.kind = "ExtW"  -> Put(d, Cast(Extended(d, "b"), "w"), "w")
             [] op.kind = "ExtL"  -> Extended(d, "w")
             [] op.kind = "ExtbL" -> Extended(d, "b")
             [] op.kind = "Swap"  -> Swapped(d)
  IN  [m EXCEPT !.d[op.dst] = v,
                !.ccr = KeepX(@, v, IF op.kind = "ExtW" THEN "w" ELSE "l")]

JitShift(op, m) ==
  LET s == Shifter(op.kind, m.d[op.dst], op.imm)
  IN  [m EXCEPT !.d[op.dst] = s.result, !.ccr = s.ccr]

JitToD(op, m, v) == [m EXCEPT !.d[op.dst] = v, !.ccr = KeepX(@, v, "l")]
JitToA(op, m, v) == [m EXCEPT !.a[op.dst] = v]

JitMul(op, m) ==
  LET Factor(r) == IF op.kind = "Muls" THEN Signed(Cast(m.d[r], "w"), Modulus["w"])
                                       ELSE Cast(m.d[r], "w")
  IN  JitToD(op, m, Wide(Factor(op.dst) * Factor(op.src)))

JitBtst(op, m) ==
  IF HasBit(m.d[op.dst], m.d[op.src] % Width["l"])
  THEN [m EXCEPT !.ccr = @ \ {"Z"}]
  ELSE [m EXCEPT !.ccr = @ \cup {"Z"}]

JitExg(op, m) ==
  CASE op.kind = "ExgDnDm" -> [m EXCEPT !.d = [@ EXCEPT ![op.src] = m.d[op.dst],
                                                        ![op.dst] = m.d[op.src]]]
    [] op.kind = "ExgAnAm" -> [m EXCEPT !.a = [@ EXCEPT ![op.src] = m.a[op.dst],
                                                        ![op.dst] = m.a[op.src]]]
    [] op.kind = "ExgDnAn" -> [m EXCEPT !.d[op.src] = m.a[op.dst],
                                        !.a[op.dst] = m.d[op.src]]

JitIndex(op, m) ==
  LET i   == op.insn
      reg == IF i.address THEN m.a[i.index] ELSE m.d[i.index]
      idx == IF i.long THEN reg ELSE Extended(reg, "w")
  IN  Wide(m.a[op.src] + Wide(idx * Power[i.scale]) + op.imm)

JitLoad(op, m) ==
  LET addr == IF op.kind = "MoveLD16" THEN Wide(m.a[op.src] + op.imm)
                                      ELSE m.a[op.src]
      n    == JitToD(op, m, Memory[addr])
  IN  IF op.kind = "MoveLPostInc" THEN [n EXCEPT !.a[op.src] = Wide(addr + 4)] ELSE n

Computed(op, m) ==
  LET k == op.kind
  IN  CASE k \in {"Add", "Sub", "Cmp", "Neg"} \cup Quick -> JitArith(op, m)
        [] k \in {"And", "Or", "Eor", "Clr", "Tst", "Not"} -> JitLogic(op, m)
        [] k \in OnOne    -> JitOnOne(op, m)
        [] k \in Shifts   -> JitShift(op, m)
        [] k \in Loads    -> JitLoad(op, m)
        [] k = "Moveq"     -> JitToD(op, m, op.imm)
        [] k = "MoveLDnDm" -> JitToD(op, m, m.d[op.src])
        [] k = "MoveLAnDn" -> JitToD(op, m, m.a[op.src])
        [] k = "MoveaLDnAn" -> JitToA(op, m, m.d[op.src])
        [] k \in {"MoveaLAnAm", "LeaAn"} -> JitToA(op, m, m.a[op.src])
        [] k = "AddqAn"    -> JitToA(op, m, Wide(m.a[op.dst] + op.imm))
        [] k = "SubqAn"    -> JitToA(op, m, Wide(m.a[op.dst] - op.imm))
        [] k = "LeaD16"    -> JitToA(op, m, Wide(m.a[op.src] + op.imm))
        [] k = "LeaD8Xn"   -> JitToA(op, m, JitIndex(op, m))
        [] k \in {"Mulu", "Muls"} -> JitMul(op, m)
        [] k = "Btst"      -> JitBtst(op, m)
        [] k \in {"ExgDnDm", "ExgAnAm", "ExgDnAn"} -> JitExg(op, m)
        [] k = "Rts"       -> [m EXCEPT !.a[SP] = Wide(@ + 4)]
        [] k \in {"Nop", "Branch"} -> m

(* A compare writes its flags whether they are needed or not.  A branch and  *)
(* RTS end the block, which else goes on at the next instruction.            *)
Execute(op, m, needsFlags) ==
  LET n == Computed(op, m)
      taken == op.insn.cond = "T" \/ EvaluateCondition(op.insn.cond, m.ccr)
  IN  [n EXCEPT
        !.ccr = IF needsFlags \/ op.kind = "Cmp" THEN @ ELSE m.ccr,
        !.pc  = CASE op.kind = "Rts" -> Memory[m.a[SP]]
                  [] op.kind = "Branch" /\ taken -> op.branchTarget
                  [] OTHER -> op.fallthroughPC]

-----------------------------------------------------------------------------
(* Flags an instruction writes; the others it leaves.  Those of a dead       *)
(* instruction are written later, before anybody looks at them, as module    *)
(* Jit shows of the passes of TryCompile.                                    *)
Writes(i) ==
  CASE i.kind \in {"Add", "Sub", "Neg"} \cup Quick \cup Shifts -> XNZVC
    [] i.kind = "Btst" -> {"Z"}
    [] i.kind \in QuickA \cup {"MoveaLDnAn", "MoveaLAnAm", "ExgDnDm", "ExgAnAm",
                   "ExgDnAn", "LeaAn", "LeaD16", "LeaD8Xn", "Nop", "Rts", "Branch"}
         -> {}
    [] OTHER -> NZVC

(* Registers start with values that differ: an instruction on equal operands *)
(* is one on the same register.                                              *)
Files(values) == {f \in [Regs -> values] : \A r, s \in Regs : f[r] = f[s] => r = s}

DataInit ==
  /\ cpu \in [d : Files(DataValues), a : Files(AddressValues),
             ccr : Codes, pc : {Entry}]
  /\ jit = cpu
  /\ stale = {}
  /\ steps = 0

Step(i, needsFlags, hit) ==
  LET bails == i.kind \in Loads \cup {"Rts"} /\ ~ hit
      now   == needsFlags \/ bails \/ i.kind = "Cmp"
  IN  /\ steps < MaxSteps
      /\ i.kind = "Branch" => stale \cap NZVC = {}
      /\ ~ hit => i.kind \in Loads \cup {"Rts"}
      /\ cpu' = Interpret(i, cpu)
      /\ jit' = IF bails THEN Interpret(i, jit)
                ELSE Execute(Compile(i, jit.pc), jit, needsFlags)
      /\ stale' = IF now THEN stale \ Writes(i) ELSE stale \cup Writes(i)
      /\ steps' = steps + 1

DataNext == \E i \in Instructions, needsFlags, hit \in BOOLEAN :
              Step(i, needsFlags, hit)

DataSpec == DataInit /\ [][DataNext]_dataVars

-----------------------------------------------------------------------------
(* The interpreter and the JIT compute the same: the same registers, the     *)
(* same next instruction and, but for flags left out as dead, the same       *)
(* flags.                                                                    *)
JitAgrees ==
  /\ cpu.d = jit.d
  /\ cpu.a = jit.a
  /\ cpu.pc = jit.pc
  /\ cpu.ccr \ stale = jit.ccr \ stale
=============================================================================
