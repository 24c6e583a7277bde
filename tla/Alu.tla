-------------------------------- MODULE Alu --------------------------------
(* What the arithmetic unit computes (Core/Alu.cpp), and the conditions on   *)
(* its flags (Core/MC68030.cpp).  The code has each operation once per       *)
(* operand size; here a size is given by its modulus m (2^8, 2^16, 2^32 in   *)
(* the code, any even number here), and a word is a number below m.  The     *)
(* condition codes are the set of the flags that are 1.                      *)
EXTENDS Integers

Bit(p)       == IF p THEN 1 ELSE 0
When(p, F)   == IF p THEN F ELSE {}

Word(i, m)   == i % m                        \* a cast to the unsigned type
Negative(v, m) == 2 * v >= m                 \* the sign bit
Signed(v, m) == IF Negative(v, m) THEN v - m ELSE v

SetNZFlags(r, m) == When(r = 0, {"Z"}) \cup When(Negative(r, m), {"N"})

-----------------------------------------------------------------------------
(* Addition and subtraction, with X if extend *)

Add(a, b, ccr, extend, m) ==
  LET sum == a + b + Bit(extend /\ "X" \in ccr)
      r   == Word(sum, m)
  IN  [result |-> r,
       ccr |-> SetNZFlags(r, m)
                 \cup When(sum >= m, {"C", "X"})
                 \cup When(/\ Negative(a, m) # Negative(r, m)
                           /\ Negative(b, m) # Negative(r, m), {"V"})]

Sub(a, b, ccr, extend, m) ==
  LET difference == a - b - Bit(extend /\ "X" \in ccr)
      r          == Word(difference, m)
  IN  [result |-> r,
       ccr |-> SetNZFlags(r, m)
                 \cup When(difference < 0, {"C", "X"})
                 \cup When(/\ Negative(a, m) # Negative(b, m)
                           /\ Negative(a, m) # Negative(r, m), {"V"})]

(* Packed decimal: a byte is two digits of a base that leaves some patterns  *)
(* of the digit unused (10 of 16 in the code).  digit is the number of       *)
(* patterns.  Z is only ever cleared.                                        *)
Low(v, digit)  == v % digit
High(v, digit) == v \div digit

Packed(hi, lo, carry, ccr, digit) ==
  LET r == Word(hi, digit) * digit + Word(lo, digit)
  IN  [result |-> r,
       ccr |-> When(carry = 1, {"C", "X"})
                 \cup When(r = 0, ccr \cap {"Z"})
                 \cup When(Negative(r, digit * digit), {"N"})]

AddBcd(src, dst, ccr, base, digit) ==
  LET lo    == Low(dst, digit) + Low(src, digit) + Bit("X" \in ccr)
      carry == Bit(lo >= base)
      hi    == High(dst, digit) + High(src, digit) + carry
      out   == Bit(hi >= base)
  IN  Packed(hi - base * out, lo - base * carry, out, ccr, digit)

SubBcd(src, dst, ccr, base, digit) ==
  LET lo     == Low(dst, digit) - Low(src, digit) - Bit("X" \in ccr)
      borrow == Bit(lo < 0)
      hi     == High(dst, digit) - High(src, digit) - borrow
      out    == Bit(hi < 0)
  IN  Packed(hi + base * out, lo + base * borrow, out, ccr, digit)

-----------------------------------------------------------------------------
(* Multiplication and division.  Operands are numbers, signed for the        *)
(* signed operations; / and % of C++ round toward zero.  The product of two  *)
(* words of half the size fits, so that Mul never sets V.                    *)

Mul(a, b, m) == [result |-> Word(a * b, m), ccr |-> SetNZFlags(Word(a * b, m), m)]

(* The product of two words in two words, and the flags of the low one. *)
MulLong(a, b, m) == LET p == Word(a * b, m * m)
                    IN  [lo |-> p % m, hi |-> p \div m, ccr |-> SetNZFlags(p % m, m)]

Magnitude(i) == IF i < 0 THEN -i ELSE i

Quotient(a, b) == LET q == Magnitude(a) \div Magnitude(b)
                  IN  IF (a < 0) = (b < 0) THEN q ELSE -q

Remainder(a, b) == a - b * Quotient(a, b)

Divided(a, b, least, most, m) ==
  LET q == Quotient(a, b)
  IN  IF q < least \/ q > most
      THEN [overflow |-> TRUE, quotient |-> 0, remainder |-> 0, ccr |-> {"V"}]
      ELSE [overflow |-> FALSE, quotient |-> Word(q, m),
            remainder |-> Word(Remainder(a, b), m),
            ccr |-> SetNZFlags(Word(q, m), m)]

DivUnsigned(a, b, m) == Divided(a, b, 0, m - 1, m)
DivSigned(a, b, m)   == Divided(a, b, -(m \div 2), (m \div 2) - 1, m)

-----------------------------------------------------------------------------
(* Shifts and rotations: count single steps, each of which pushes a bit c    *)
(* out and takes a bit in.                                                   *)

Steps(v, c, count, Step(_)) ==
  LET pass[i \in 0 .. count] ==
        IF i = 0 THEN [r |-> v, c |-> c] ELSE Step(pass[i - 1])
  IN  pass[count]

LeftStep(s, in, m)  == [r |-> Word(2 * s.r + in, m), c |-> Bit(Negative(s.r, m))]
RightStep(s, in, m) == [r |-> s.r \div 2 + in * (m \div 2), c |-> s.r % 2]

Shifted(s, m) == [result |-> s.r,
                  ccr |-> SetNZFlags(s.r, m) \cup When(s.c = 1, {"C", "X"})]

(* ASL and LSL alike: V tells whether the sign at the end is another than    *)
(* at the start.                                                             *)
ShiftLeft(v, count, m) ==
  LET s == Steps(v, 0, count, LAMBDA t : LeftStep(t, 0, m))
  IN  [Shifted(s, m) EXCEPT
         !.ccr = @ \cup When(Negative(v, m) # Negative(s.r, m), {"V"})]

ArithShiftRight(v, count, m) ==
  Shifted(Steps(v, 0, count, LAMBDA t : RightStep(t, Bit(Negative(v, m)), m)), m)

LogicalShiftRight(v, count, m) ==
  Shifted(Steps(v, 0, count, LAMBDA t : RightStep(t, 0, m)), m)

(* Rotations set C only: X comes out clear, since the caller stores the      *)
(* whole condition code.                                                     *)
RotateLeft(v, count, m) ==
  LET s == Steps(v, 0, count, LAMBDA t : LeftStep(t, Bit(Negative(t.r, m)), m))
  IN  [result |-> s.r, ccr |-> SetNZFlags(s.r, m) \cup When(s.c = 1, {"C"})]

RotateRight(v, count, m) ==
  LET s == Steps(v, 0, count, LAMBDA t : RightStep(t, t.r % 2, m))
  IN  [result |-> s.r, ccr |-> SetNZFlags(s.r, m) \cup When(s.c = 1, {"C"})]

(* ROXL and ROXR: the bit pushed out waits in X for the next step. *)
RotateLeftX(v, count, ccr, m) ==
  Shifted(Steps(v, Bit("X" \in ccr), count, LAMBDA t : LeftStep(t, t.c, m)), m)

RotateRightX(v, count, ccr, m) ==
  Shifted(Steps(v, Bit("X" \in ccr), count, LAMBDA t : RightStep(t, t.c, m)), m)

-----------------------------------------------------------------------------
Conditions == {"T", "F", "HI", "LS", "CC", "CS", "NE", "EQ",
               "VC", "VS", "PL", "MI", "GE", "LT", "GT", "LE"}

EvaluateCondition(cond, ccr) ==
  LET c == "C" \in ccr    v == "V" \in ccr
      z == "Z" \in ccr    n == "N" \in ccr
  IN  CASE cond = "T"  -> TRUE        [] cond = "F"  -> FALSE
        [] cond = "HI" -> ~ c /\ ~ z  [] cond = "LS" -> c \/ z
        [] cond = "CC" -> ~ c         [] cond = "CS" -> c
        [] cond = "NE" -> ~ z         [] cond = "EQ" -> z
        [] cond = "VC" -> ~ v         [] cond = "VS" -> v
        [] cond = "PL" -> ~ n         [] cond = "MI" -> n
        [] cond = "GE" -> n = v       [] cond = "LT" -> n # v
        [] cond = "GT" -> ~ z /\ n = v
        [] cond = "LE" -> z \/ n # v
=============================================================================
