------------------------------ MODULE MultiWord ------------------------------
(* Numbers longer than a register.  A guest computes with them word by word: *)
(* ADDX, SUBX, NEGX, ABCD, SBCD, NBCD, ROXL and ROXR hand X and Z on through *)
(* the condition codes, CMPM and DBNE stop at the first difference, MULU.L   *)
(* and DIVU.L carry a word in a register.  Each routine is one handler of    *)
(* Core/InstructionDecoder.cpp and the DBcc that closes the loop.            *)
(*                                                                           *)
(* Memory is big-endian: word 1 is the most significant.                     *)
EXTENDS Alu

CONSTANTS M,            \* the modulus of a word
          N,            \* bound: words of a number
          Base, Digit,  \* the base of a packed digit, and its patterns
          DecimalWords, \* bound: packed words a guest starts with
          ChainCodes    \* bound: condition codes at the start

VARIABLES routine,  \* what the guest's loop executes
          src, dst, \* the numbers in memory, words 1 .. N
          at,       \* where the address registers point
          count,    \* Dn of DBcc
          high,     \* the register that carries a word on
          ccr,
          stage,    \* "insn", "dbcc", "done", "trapped" or "dead"
          start     \* src, dst and ccr at the start

chainVars == <<routine, src, dst, at, count, high, ccr, stage, start>>

Unsigned == 0 .. M - 1
Packs    == {h * Digit + l : h, l \in 0 .. Base - 1}

ASSUME WordAssumption == M \in Nat \ {0} /\ M % 2 = 0 /\ N \in Nat \ {0, 1}

ASSUME DigitAssumption ==
  /\ Base \in Nat \ {0} /\ Digit \in Nat /\ Base <= Digit
  /\ DecimalWords \subseteq Packs

Binary   == {"ADDX", "SUBX", "NEGX"}
Decimal  == {"ABCD", "SBCD", "NBCD"}
Rotate   == {"ROXL", "ROXR"}
Forward  == {"ROXR", "CMPM", "DIVU"}       \* from the most significant word
Single   == {"MULS", "MULSL", "DIVS"}      \* one instruction, no loop

-----------------------------------------------------------------------------
(* The handlers: d and s are what they read, f the condition codes. *)

(* Mutant: Z is that of the last word. *)
LastZ(r, f) == r

(* Z is only ever cleared, so that it tells of the whole number. *)
Sticky(r, f) ==
  [r EXCEPT !.ccr = (@ \ {"Z"}) \cup (@ \cap f \cap {"Z"})]

AddX(d, s, f) == Sticky(Add(d, s, f, TRUE, M), f)
SubX(d, s, f) == Sticky(Sub(d, s, f, TRUE, M), f)
NegX(d, f)    == Sticky(Sub(0, d, f, TRUE, M), f)
Abcd(d, s, f) == AddBcd(s, d, f, Base, Digit)

(* Mutant: source and destination change places. *)
SbcdSwapped(d, s, f) == SubBcd(d, s, f, Base, Digit)
Sbcd(d, s, f) == SubBcd(s, d, f, Base, Digit)
Nbcd(d, f)    == SubBcd(d, 0, f, Base, Digit)

(* Mutant: the bit pushed out comes in at the other end. *)
RoxlAsRol(d, f) == RotateLeft(d, 1, M)
Roxl(d, f)    == RotateLeftX(d, 1, f, M)
Roxr(d, f)    == RotateRightX(d, 1, f, M)

(* Mutant: CMPM compares source with destination. *)
CmpmSwapped(d, s, f) == (f \cap {"X"}) \cup (Sub(s, d, f, FALSE, M).ccr \ {"X"})
Cmpm(d, s, f) == (f \cap {"X"}) \cup (Sub(d, s, f, FALSE, M).ccr \ {"X"})

(* Mutant: the product's registers change places. *)
LongMulSwapped(a, b, f) ==
  LET p == MulLong(a, b, M)
  IN  [lo |-> p.hi, hi |-> p.lo, ccr |-> f \cap {"X"}]

(* MULU.L and MULS.L with two words of product: flags of both. *)
LongMul(a, b, f) ==
  LET p == MulLong(a, b, M)
  IN  [lo |-> p.lo, hi |-> p.hi,
       ccr |-> (f \cap {"X"})
                 \cup When(Negative(p.hi, M), {"N"})
                 \cup When(p.lo = 0 /\ p.hi = 0, {"Z"})]

(* MULS.L with one word: V if the upper word is neither all zeros nor all    *)
(* ones, or all ones above a word that is not negative.                      *)
LongMulSigned(a, b, f) ==
  LET p == MulLong(a, b, M)
  IN  [lo |-> p.lo, hi |-> p.hi,
       ccr |-> (f \cap {"X"}) \cup p.ccr
                 \cup When(\/ p.hi \notin {0, M - 1}
                           \/ p.hi = M - 1 /\ ~ Negative(p.lo, M), {"V"})]

(* Mutant: the words of the dividend change places. *)
LongDivSwapped(hi, lo, b, f) == DivUnsigned(lo * M + hi, b, M)

(* DIVU.L with two words of dividend; b # 0. *)
LongDiv(hi, lo, b, f) == DivUnsigned(hi * M + lo, b, M)

(* DIVS.L likewise.  The host divides as well, and has no quotient for the   *)
(* least dividend and -1.                                                    *)
HostDivides(a, b)  == ~ (a = -((M * M) \div 2) /\ b = -1)
LongDivSigned(a, b) == DivSigned(a, b, M)

(* Flags after a division: an overflow sets V and leaves all else alone. *)
DivFlags(r, f) == IF r.overflow THEN f \cup {"V"} ELSE (f \cap {"X"}) \cup r.ccr

-----------------------------------------------------------------------------
(* A guest sets up pointers, counter and condition codes. *)

Numbers(r) == [1 .. N -> IF r \in Decimal THEN DecimalWords ELSE Unsigned]
OneWord    == {[i \in 1 .. N |-> w] : w \in Unsigned}
Zero       == [i \in 1 .. N |-> 0]
Sources(r) == CASE r \in {"ADDX", "SUBX", "ABCD", "SBCD", "CMPM"} -> Numbers(r)
                [] r \in {"MULU", "DIVU"} \cup Single -> OneWord
                [] OTHER -> {Zero}

ChainInit ==
  \E r \in Binary \cup Decimal \cup Rotate \cup {"CMPM", "MULU", "DIVU"} \cup Single :
    /\ routine = r
    /\ src \in Sources(r)
    /\ dst \in Numbers(r)
    /\ ccr \in ChainCodes
    /\ at = IF r \in Forward \cup Single THEN 1 ELSE N
    /\ count = N - 1
    /\ high = 0
    /\ stage = "insn"
    /\ start = [src |-> src, dst |-> dst, ccr |-> ccr]

(* The word at the pointers, by the loop's instruction. *)
Handled(r, d, s, f) == CASE r = "ADDX" -> AddX(d, s, f)
                         [] r = "SUBX" -> SubX(d, s, f)
                         [] r = "NEGX" -> NegX(d, f)
                         [] r = "ABCD" -> Abcd(d, s, f)
                         [] r = "SBCD" -> Sbcd(d, s, f)
                         [] r = "NBCD" -> Nbcd(d, f)
                         [] r = "ROXL" -> Roxl(d, f)
                         [] r = "ROXR" -> Roxr(d, f)

Limb ==
  LET r == Handled(routine, dst[at], src[at], ccr)
  IN  /\ stage = "insn" /\ routine \in Binary \cup Decimal \cup Rotate
      /\ dst' = [dst EXCEPT ![at] = r.result]
      /\ ccr' = r.ccr
      /\ at' = IF routine \in Forward THEN at + 1 ELSE at - 1
      /\ stage' = "dbcc"
      /\ UNCHANGED <<routine, src, count, high, start>>

Compare ==
  /\ stage = "insn" /\ routine = "CMPM"
  /\ ccr' = Cmpm(dst[at], src[at], ccr)
  /\ at' = at + 1
  /\ stage' = "dbcc"
  /\ UNCHANGED <<routine, src, dst, count, high, start>>

(* MULU.L by one word, ADD.L of the word carried on, ADDX.L of a zero: the   *)
(* word to store and the one to carry.                                       *)
Multiply ==
  LET p   == LongMul(dst[at], src[at], ccr)
      sum == Add(p.lo, high, p.ccr, FALSE, M)
      hi  == AddX(p.hi, 0, sum.ccr)
  IN  /\ stage = "insn" /\ routine = "MULU"
      /\ dst' = [dst EXCEPT ![at] = sum.result]
      /\ high' = hi.result
      /\ ccr' = hi.ccr
      /\ at' = at - 1
      /\ stage' = "dbcc"
      /\ UNCHANGED <<routine, src, count, start>>

(* DIVU.L by one word: the quotient to store and the remainder to carry. *)
Divide ==
  LET q == LongDiv(high, dst[at], src[at], ccr)
  IN  /\ stage = "insn" /\ routine = "DIVU" /\ src[at] # 0
      /\ ccr' = DivFlags(q, ccr)
      /\ IF q.overflow THEN UNCHANGED <<dst, high>>
         ELSE /\ dst' = [dst EXCEPT ![at] = q.quotient]
              /\ high' = q.remainder
      /\ at' = at + 1
      /\ stage' = "dbcc"
      /\ UNCHANGED <<routine, src, count, start>>

(* Exception 5 *)
DivideByZero ==
  /\ stage = "insn" /\ routine \in {"DIVU", "DIVS"} /\ src[at] = 0
  /\ stage' = "trapped"
  /\ UNCHANGED <<routine, src, dst, at, count, high, ccr, start>>

(* DBF, or DBNE after CMPM: the condition ends the loop, or the counter      *)
(* passing zero.                                                             *)
Dbcc ==
  LET cond == IF routine = "CMPM" THEN "NE" ELSE "F"
  IN  /\ stage = "dbcc"
      /\ IF EvaluateCondition(cond, ccr) THEN UNCHANGED count /\ stage' = "done"
         ELSE /\ count' = count - 1
              /\ stage' = IF count' = -1 THEN "done" ELSE "insn"
      /\ UNCHANGED <<routine, src, dst, at, high, ccr, start>>

(* One MULS.L: the product in high and the first word, or in that alone. *)
MultiplySigned ==
  LET a == Signed(dst[at], M)  b == Signed(src[at], M)
      p == IF routine = "MULS" THEN LongMul(a, b, ccr) ELSE LongMulSigned(a, b, ccr)
  IN  /\ stage = "insn" /\ routine \in {"MULS", "MULSL"}
      /\ dst' = [dst EXCEPT ![at] = p.lo]
      /\ high' = IF routine = "MULS" THEN p.hi ELSE high
      /\ ccr' = p.ccr
      /\ stage' = "done"
      /\ UNCHANGED <<routine, src, at, count, start>>

(* One DIVS.L of the first two words: the host's exception ends the program. *)
Dividend(words) == Signed(words[1] * M + words[2], M * M)

DivideSigned ==
  LET a == Dividend(dst)
      b == Signed(src[1], M)
      q == LongDivSigned(a, b)
  IN  /\ stage = "insn" /\ routine = "DIVS" /\ src[1] # 0
      /\ IF ~ HostDivides(a, b)
         THEN stage' = "dead" /\ UNCHANGED <<dst, high, ccr>>
         ELSE /\ stage' = "done"
              /\ ccr' = DivFlags(q, ccr)
              /\ IF q.overflow THEN UNCHANGED <<dst, high>>
                 ELSE /\ dst' = [dst EXCEPT ![1] = q.quotient]
                      /\ high' = q.remainder
      /\ UNCHANGED <<routine, src, at, count, start>>

ChainNext == \/ Limb \/ Compare \/ Multiply \/ Divide \/ DivideByZero \/ Dbcc
        \/ MultiplySigned \/ DivideSigned

ChainSpec == ChainInit /\ [][ChainNext]_chainVars
-----------------------------------------------------------------------------
(* The powers of a radix, and the numbers that the words of a sequence up to *)
(* each place stand for; the last one is the number they all stand for.      *)
Powers(r) ==
  LET p[i \in 0 .. N] == IF i = 0 THEN 1 ELSE r * p[i - 1]
  IN  p

Leading(words, r) ==
  LET v[i \in 0 .. N] == IF i = 0 THEN 0 ELSE v[i - 1] * r + words[i]
  IN  v

Value(words, r) == Leading(words, r)[N]

Done(r)   == stage = "done" /\ routine \in r
Whole     == Powers(M)[N]                 \* the modulus of a number
Binarily(words) == Value(words, M)

Unpacked(v) == High(v, Digit) * Base + Low(v, Digit)
Decimally(words) == Value([i \in 1 .. N |-> Unpacked(words[i])], Base * Base)

(* A chain of ADDX, SUBX or NEGX is one such instruction on a register as    *)
(* wide as the number: the same sum, carry, overflow and sign, and Z says    *)
(* whether the whole is zero (Alu::Add*, Alu::Sub* and the handlers' Z).     *)
SumExact ==
  Done(Binary) =>
    LET d == Binarily(start.dst)  s == Binarily(start.src)  f == start.ccr
        w == Sticky(CASE routine = "ADDX" -> Add(d, s, f, TRUE, Whole)
                      [] routine = "SUBX" -> Sub(d, s, f, TRUE, Whole)
                      [] routine = "NEGX" -> Sub(0, d, f, TRUE, Whole), f)
    IN  Binarily(dst) = w.result /\ ccr = w.ccr

(* ABCD, SBCD and NBCD compute with decimal numbers of any length: digits    *)
(* stay digits, X and C are the carry or borrow out of the whole, and Z      *)
(* tells of all of it (Alu::AddBcd, Alu::SubBcd).                            *)
DecimalExact ==
  Done(Decimal) =>
    LET d == Decimally(start.dst)  s == Decimally(start.src)
        x == Bit("X" \in start.ccr)
        most == Powers(Base * Base)[N]
        t == CASE routine = "ABCD" -> d + s + x
               [] routine = "SBCD" -> d - s - x
               [] routine = "NBCD" -> -d - x
    IN  /\ \A i \in 1 .. N : dst[i] \in Packs
        /\ Decimally(dst) = t % most
        /\ ("X" \in ccr) = (t \notin 0 .. most - 1)
        /\ ("C" \in ccr) = ("X" \in ccr)
        /\ ("Z" \in ccr) = ("Z" \in start.ccr /\ t % most = 0)

(* Rotating word after word through X rotates the whole through X            *)
(* (Alu::RotateLeftX, Alu::RotateRightX).                                    *)
ShiftExact ==
  Done(Rotate) =>
    LET w == IF routine = "ROXL"
             THEN RotateLeftX(Binarily(start.dst), 1, start.ccr, Whole)
             ELSE RotateRightX(Binarily(start.dst), 1, start.ccr, Whole)
    IN  Binarily(dst) = w.result /\ ccr \cap {"X", "C"} = w.ccr \cap {"X", "C"}

(* CMPM in a loop with DBNE orders whole numbers: the conditions for         *)
(* unsigned numbers hold afterwards as they would for a wide CMP, wherever   *)
(* the loop stopped, and X is what it was.                                   *)
CompareExact ==
  Done({"CMPM"}) =>
    LET d == Binarily(dst)  s == Binarily(src)
    IN  /\ EvaluateCondition("HI", ccr) = (d > s)
        /\ EvaluateCondition("CS", ccr) = (d < s)
        /\ EvaluateCondition("EQ", ccr) = (d = s)
        /\ ("X" \in ccr) = ("X" \in start.ccr)

(* The carried word of a long multiplication never overflows, and product    *)
(* and carry make up the exact product (DecodeLongMul, ADD and ADDX). V of a *)
(* MULS.L to one word tells that the product does not fit it, except when it *)
(* would fit one without a sign (InstructionDecoder.cpp 2786).               *)
ProductExact ==
  /\ Done({"MULU"}) =>
       /\ high * Whole + Binarily(dst) = Binarily(start.dst) * start.src[1]
       /\ "X" \notin ccr
  /\ Done({"MULS"}) =>
       LET p == Signed(start.dst[1], M) * Signed(start.src[1], M)
       IN  /\ Signed(high * M + dst[1], M * M) = p
           /\ ("N" \in ccr) = (p < 0)
           /\ ("Z" \in ccr) = (p = 0)
  /\ Done({"MULSL"}) =>
       LET p    == Signed(start.dst[1], M) * Signed(start.src[1], M)
           fits == p \in -(M \div 2) .. (M \div 2) - 1
       IN  /\ dst[1] = p % M
           /\ IF fits THEN "V" \notin ccr ELSE "V" \in ccr \/ p \in 0 .. M - 1

(* Long division by one word, with the remainder carried on, never           *)
(* overflows and is exact; of a signed one the remainder has the dividend's  *)
(* sign, V tells that the quotient does not fit, and only the least dividend *)
(* divided by -1 ends the emulator (DecodeLongDiv).                          *)
QuotientExact ==
  /\ Done({"DIVU"}) =>
       /\ "V" \notin ccr
       /\ high < start.src[1]
       /\ Binarily(dst) * start.src[1] + high = Binarily(start.dst)
  /\ Done({"DIVS"}) =>
       LET a == Dividend(start.dst)
           b == Signed(start.src[1], M)
           q == Signed(dst[1], M)
           r == Signed(high, M)
       IN  IF "V" \in ccr
           THEN \A t \in -(M \div 2) .. (M \div 2) - 1 :
                  \A u \in 1 - Magnitude(b) .. Magnitude(b) - 1 :
                    u * a >= 0 => t * b + u # a
           ELSE /\ q * b + r = a
                /\ Magnitude(r) < Magnitude(b)
                /\ r * a >= 0
  /\ stage = "dead" => Dividend(start.dst) = -((M * M) \div 2) /\ start.src[1] = M - 1

(* All of it: whatever a guest computes word by word, or by an instruction   *)
(* with two words of result or operand, is what an instruction on registers  *)
(* as wide as the numbers would compute.                                     *)
NumbersExact == /\ SumExact /\ DecimalExact /\ ShiftExact /\ CompareExact
                /\ ProductExact /\ QuotientExact
=============================================================================
