------------------------------ MODULE JitProofs ------------------------------
(***************************************************************************)
(* What holds of the block cache for every page size, number of pages,     *)
(* contents of memory, translation and threshold. A block is right when it *)
(* is made; the invariant says what keeps it right in the cache and in the *)
(* hands of the emulation thread: its words are still in memory but for    *)
(* those patched without a flush, unless a flush was missed, and its       *)
(* virtual address still leads to the physical address it was made from,   *)
(* unless another translation took over. The rest is arithmetic on pages:  *)
(* an address is found again from its physical one when no other page      *)
(* leads to its frame, and the words of a block that stays in its page are *)
(* translated alike. For the flags, the                                    *)
(* recursion of the liveness pass is unfolded at the least number where it *)
(* could fail: a flag left out as dead is written again before anything    *)
(* reads it, but for a final BRA and the ops that leave X alone.           *)
(*                                                                         *)
(* And what holds of every instruction a block is made of, for every width *)
(* of a byte: its handler and its op do the same (Datapath). One lemma for *)
(* each group of instructions names what both leave, the registers, the    *)
(* flags and the next address, as Alike. They rest on arithmetic: a word   *)
(* operator cut to a size is the operator on cut words, bit by bit along   *)
(* the powers of two; a remainder may be taken of the parts of a sum or a  *)
(* product; and what replaces the low part of a register is a long word.   *)
(***************************************************************************)
EXTENDS Jit, Datapath, WellFoundedInduction, TLAPS

Block == [va : Addresses, pa : Addresses, ops : Seq(Kinds), needs : SUBSET Nat, bails : Nat]

PageNo == 0 .. Pages - 1

TypeInv ==
    /\ code \in [Addresses -> Kinds]
    /\ map \in [BOOLEAN -> [PageNo -> PageNo]] /\ super \in BOOLEAN
    /\ DOMAIN blocks = 0 .. Slots - 1
    /\ \A s \in 0 .. Slots - 1 : blocks[s] # None => blocks[s] \in Block
    /\ kept \in BOOLEAN
    /\ held # None => held \in [block : Block, pc : Addresses, freed : BOOLEAN]

\* What the compiler takes: no instruction it does not know, and a branch or an
\* RTS only at the end.
Tidy(ops) ==
    /\ \A k \in 1 .. Len(ops) : ops[k] # "other"
    /\ \A k \in 1 .. Len(ops) : ops[k] \in {"bcc", "bra", "rts"} => k = Len(ops)

\* A block with the ops the compiler takes, the flags it computes, and at the same
\* place of its page as of its frame.
Compiled(b) ==
    /\ Tidy(b.ops) /\ Len(b.ops) > 0 /\ b.needs = {k \in DOMAIN b.ops : Live(b.ops)[k]}
    /\ b.va % PageLen = b.pa % PageLen

\* The block's words are in memory, but for those patched without a flush.
Made(b) ==
    \A k \in 1 .. Len(b.ops) :
        /\ b.pa + k - 1 \in Addresses
        /\ code[b.pa + k - 1] = b.ops[k] \/ b.pa + k - 1 \in patched

\* The block's address still translates to where it was made from.
Placed(b) == Physical(b.va) = b.pa

Right(b) == Made(b) /\ (kept \/ Placed(b))

BlocksOK ==
    ~ missed => \A s \in 0 .. Slots - 1 : blocks[s] # None => Right(blocks[s])

HeldOK ==
    held # None =>
      /\ held.block # None /\ Compiled(held.block)
      /\ Physical(held.pc) = held.block.pa
      /\ held.freed \/ missed \/ Right(held.block)

AllCompiled == \A s \in 0 .. Slots - 1 : blocks[s] # None => Compiled(blocks[s])

IInv == TypeInv /\ AllCompiled /\ BlocksOK /\ HeldOK /\ StaleExplained /\ FlagsExplained

-----------------------------------------------------------------------------
(* Arithmetic on pages.                                                    *)

\* An address is its page and its place in the page.
LEMMA Split ==
  ASSUME NEW a \in Nat, NEW b \in Nat \ {0}
  PROVE  /\ a \div b \in Nat /\ a % b \in 0..(b - 1)
         /\ a = (a \div b) * b + (a % b)
<1>1. a \div b \in Int
  OBVIOUS
<1>2. a \div b >= 0
  OBVIOUS
<1>3. a % b \in 0..(b - 1)
  OBVIOUS
<1>4. a % b = a - b * (a \div b)
  BY SMTT(60)
<1>5. b * (a \div b) = (a \div b) * b /\ (a \div b) * b \in Int
  BY <1>1
<1>6. a = (a \div b) * b + (a % b)
  <2> DEFINE d == a \div b
             r == a % b
             m == d * b
  <2>1. r = a - m /\ m \in Int
    BY <1>4, <1>5
  <2> HIDE DEF m, r
  <2>2. a = m + r
    BY <2>1
  <2> QED
    BY <2>2 DEF m, r
<1> QED
  BY <1>1, <1>2, <1>3, <1>6

\* The page and the place are the only ones.
LEMMA SplitUnique ==
  ASSUME NEW b \in Nat \ {0}, NEW p \in Nat, NEW q \in Nat,
         NEW x \in 0..(b - 1), NEW y \in 0..(b - 1),
         p * b + x = q * b + y
  PROVE  p = q /\ x = y
<1>1. p * b \in Nat /\ q * b \in Nat
  OBVIOUS
<1>2. \A u, v \in Nat : u < v => u * b + b <= v * b
  <2> SUFFICES ASSUME NEW u \in Nat, NEW v \in Nat, u < v PROVE u * b + b <= v * b
    OBVIOUS
  <2>1. v = u + 1 + (v - u - 1) /\ v - u - 1 \in Nat
    OBVIOUS
  <2> DEFINE w == v - u - 1
  <2>2. (u + 1 + w) * b = u * b + b + w * b
    BY <2>1
  <2>3. w * b \in Nat /\ u * b \in Nat
    BY <2>1
  <2> QED
    BY <2>1, <2>2, <2>3
<1>3. ~ (p < q)
  BY <1>1, <1>2
<1>4. ~ (q < p)
  BY <1>1, <1>2
<1>5. p = q
  BY <1>3, <1>4
<1> QED
  BY <1>1, <1>5

\* A page number below Pages makes addresses below their number.
LEMMA InPage ==
  ASSUME NEW b \in Nat \ {0}, NEW n \in Nat \ {0}, NEW p \in 0..(n - 1), NEW x \in 0..(b - 1)
  PROVE  p * b + x \in 0..(n * b - 1)
<1>1. n = p + 1 + (n - p - 1) /\ n - p - 1 \in Nat /\ p \in Nat
  OBVIOUS
<1> DEFINE w == n - p - 1
<1>2. (p + 1 + w) * b = p * b + b + w * b
  BY <1>1
<1>3. w * b \in Nat /\ p * b \in Nat
  BY <1>1
<1>4. n * b = p * b + b + w * b
  BY <1>1, <1>2
<1> HIDE DEF w
<1> QED
  BY <1>3, <1>4

\* An address below their number is on one of the pages.
LEMMA PageOfAddress ==
  ASSUME NEW b \in Nat \ {0}, NEW n \in Nat \ {0}, NEW a \in 0..(n * b - 1)
  PROVE  a \div b \in 0..(n - 1)
<1>1. n * b \in Nat /\ a \in Nat
  OBVIOUS
<1>2. a \div b \in Nat /\ a % b \in 0..(b - 1) /\ a = (a \div b) * b + (a % b)
  BY <1>1, Split
<1> DEFINE d == a \div b
<1> HIDE DEF d
<1>3. d < n
  <2> SUFFICES ASSUME d >= n PROVE FALSE
    BY <1>2 DEF d
  <2>1. d = n + (d - n) /\ d - n \in Nat /\ d \in Nat
    BY <1>2 DEF d
  <2>2. (n + (d - n)) * b = n * b + (d - n) * b /\ (d - n) * b \in Nat
    BY <2>1
  <2>3. d * b >= n * b /\ d * b \in Nat
    BY <1>1, <2>1, <2>2
  <2>4. a = d * b + (a % b)
    BY <1>2 DEF d
  <2> QED
    BY <1>1, <1>2, <2>3, <2>4
<1> QED
  BY <1>2, <1>3 DEF d

\* Quotients are ordered as their dividends.
LEMMA DivMonotone ==
  ASSUME NEW a \in Nat, NEW c \in Nat, a <= c, NEW b \in Nat \ {0}
  PROVE  a \div b <= c \div b
  OBVIOUS

\* Every set of numbers that has one has a least.
LEMMA Least ==
  ASSUME NEW S \in SUBSET Nat, S # {}
  PROVE  Min(S) \in S /\ \A y \in S : Min(S) <= y
<1> DEFINE R == OpToRel(<, Nat)
<1>1. IsWellFoundedOn(R, Nat)
  BY NatLessThanWellFounded
<1>2. \A x, y \in Nat : y < x => <<y, x>> \in R
  <2> SUFFICES ASSUME NEW x \in Nat, NEW y \in Nat, y < x PROVE <<y, x>> \in R
    OBVIOUS
  <2> DEFINE ss == <<y, x>>
  <2>1. ss \in Nat \X Nat /\ ss[1] = y /\ ss[2] = x
    OBVIOUS
  <2> HIDE DEF ss
  <2>2. ss \in R
    BY <2>1 DEF OpToRel
  <2> QED
    BY <2>2 DEF ss
<1> HIDE DEF R
<1>3. PICK x \in S : \A y \in S : ~ (<<y, x>> \in R)
  BY <1>1, WFMin
<1>4. \A y \in S : x <= y
  <2> SUFFICES ASSUME NEW y \in S, ~ (x <= y) PROVE FALSE
    OBVIOUS
  <2>1. x \in Nat /\ y \in Nat
    OBVIOUS
  <2>2. y < x
    BY <2>1
  <2>3. <<y, x>> \in R
    BY <1>2, <2>1, <2>2, Zenon
  <2> QED
    BY <1>3, <2>3, Zenon
<1> QED
  BY <1>4 DEF Min

\* Also when it may hold the number before the first address.
LEMMA LeastOrNone ==
  ASSUME NEW S \in SUBSET (Nat \cup {-1}), S # {}
  PROVE  Min(S) \in S /\ \A y \in S : Min(S) <= y
<1>1. CASE -1 \in S
  <2>1. \A y \in S : -1 <= y
    OBVIOUS
  <2> QED
    BY <1>1, <2>1 DEF Min
<1>2. CASE -1 \notin S
  <2>1. S \in SUBSET Nat
    BY <1>2
  <2> QED
    BY <2>1, Least
<1> QED
  BY <1>1, <1>2

-----------------------------------------------------------------------------
(* Blocks.                                                                 *)

\* The bounds, one by one.
LEMMA Bounds ==
  /\ PageLen \in Nat \ {0} /\ Pages \in Nat \ {0} /\ Slots \in Nat \ {0}
  /\ MinBlockLength \in Nat \ {0} /\ MaxBailouts \in Nat \ {0}
  /\ Images \subseteq [Addresses -> Kinds] /\ Maps \subseteq [PageNo -> PageNo]
  /\ Patches \subseteq Kinds /\ Entries \subseteq Addresses
  BY BoundsAssumption DEF PageNo

\* A translated address is an address: its page was replaced, its place kept.
LEMMA Translated ==
  ASSUME TypeInv, NEW va \in Addresses
  PROVE  /\ va \in Nat /\ va \div PageLen \in PageNo /\ va % PageLen \in 0..(PageLen - 1)
         /\ va = (va \div PageLen) * PageLen + (va % PageLen)
         /\ map[super][va \div PageLen] \in PageNo
         /\ Physical(va) = map[super][va \div PageLen] * PageLen + (va % PageLen)
         /\ Physical(va) \in Addresses
<1>1. Pages * PageLen \in Nat /\ va \in 0..(Pages * PageLen - 1)
  BY Bounds DEF Addresses
<1>2. va \in Nat
  BY <1>1
<1>3. va \div PageLen \in PageNo
  BY <1>1, Bounds, PageOfAddress DEF PageNo
<1>4. va % PageLen \in 0..(PageLen - 1) /\ va = (va \div PageLen) * PageLen + (va % PageLen)
  BY <1>2, Bounds, Split
<1> DEFINE p == va \div PageLen
           x == va % PageLen
<1> HIDE DEF p, x
<1>5. map[super][p] \in PageNo
  BY <1>3 DEF TypeInv, p
<1>6. Physical(va) = map[super][p] * PageLen + x
  BY DEF Physical, p, x
<1>7. map[super][p] * PageLen + x \in Addresses
  BY <1>4, <1>5, Bounds, InPage DEF Addresses, PageNo, x
<1> QED
  BY <1>2, <1>3, <1>4, <1>5, <1>6, <1>7 DEF p, x

\* The frame of a translated address is that of its page, its place the same.
LEMMA SamePlace ==
  ASSUME TypeInv, NEW va \in Addresses
  PROVE  /\ Physical(va) \div PageLen = map[super][va \div PageLen]
         /\ va % PageLen = Physical(va) % PageLen
<1> DEFINE pa == Physical(va)
           f == map[super][va \div PageLen]
           x == va % PageLen
<1>1. f \in PageNo /\ x \in 0..(PageLen - 1) /\ pa = f * PageLen + x /\ pa \in Addresses
  BY Translated
<1> HIDE DEF pa, f, x
<1>2. f \in Nat /\ pa \in Nat
  BY <1>1, Bounds DEF PageNo, Addresses
<1>3. /\ pa \div PageLen \in Nat /\ pa % PageLen \in 0..(PageLen - 1)
      /\ pa = (pa \div PageLen) * PageLen + (pa % PageLen)
  BY <1>2, Split, Bounds
<1>4. pa \div PageLen = f /\ pa % PageLen = x
  BY <1>1, <1>2, <1>3, SplitUnique, Bounds
<1> QED
  BY <1>4 DEF pa, f, x

\* The scan of the compiler copies memory from pa on.
LEMMA ScannedIs ==
  ASSUME TypeInv, NEW pa \in Addresses
  PROVE  /\ Scanned(pa) \in Seq(Kinds)
         /\ \A k \in 1 .. Len(Scanned(pa)) :
               pa + k - 1 \in Addresses /\ code[pa + k - 1] = Scanned(pa)[k]
         /\ Tidy(Scanned(pa))
<1> DEFINE here == {a \in Addresses : a >= pa}
           end  == Pages * PageLen - 1
           ends == {end}
                    \cup {a - 1 : a \in {b \in here : code[b] = "other"}}
                    \cup {a \in here : code[a] \in {"bcc", "bra", "rts"}}
           last == Min(ends)
           n    == (last + 1) - pa
           Tidied == /\ \A k \in 1 .. n : code[pa + k - 1] # "other"
                     /\ \A k \in 1 .. n : code[pa + k - 1] \in {"bcc", "bra", "rts"} => k = n
<1>1. end \in Nat /\ Addresses = 0 .. end /\ pa \in 0 .. end
  <2>1. Pages * PageLen \in Nat
    BY Bounds
  <2>2. Addresses = 0 .. end /\ end \in Int
    BY <2>1 DEF Addresses
  <2> HIDE DEF end
  <2> QED
    BY <2>2
<1> HIDE DEF end
<1>2. \A y \in ends : y \in Int /\ pa - 1 <= y /\ -1 <= y /\ y <= end
  BY <1>1
<1>3. ends \in SUBSET (Nat \cup {-1}) /\ ends # {} /\ end \in ends
  BY <1>1, <1>2
<1>4. /\ last \in ends /\ \A y \in ends : last <= y
      /\ \A a \in here : code[a] = "other" => last <= a - 1
      /\ \A a \in here : code[a] \in {"bcc", "bra", "rts"} => last <= a
  <2>1. \A a \in here : code[a] = "other" => a - 1 \in ends
    OBVIOUS
  <2>2. \A a \in here : code[a] \in {"bcc", "bra", "rts"} => a \in ends
    OBVIOUS
  <2> HIDE DEF ends
  <2>3. last \in ends /\ \A y \in ends : last <= y
    BY <1>3, LeastOrNone
  <2> HIDE DEF last, here
  <2> QED
    BY <2>1, <2>2, <2>3
<1> HIDE DEF ends
<1>5. last \in Int /\ pa - 1 <= last /\ last <= end
  BY <1>2, <1>4
<1> HIDE DEF last
<1>6. n \in Nat
  BY <1>1, <1>5
<1>7. Scanned(pa) = [k \in 1 .. n |-> code[pa + k - 1]]
  BY DEF Scanned, here, ends, last, end
<1>8. \A k \in 1 .. n : pa + k - 1 \in Addresses
  BY <1>1, <1>5
<1>9. \A k \in 1 .. n : code[pa + k - 1] \in Kinds
  BY <1>8 DEF TypeInv
<1>10. Tidied
  <2> SUFFICES ASSUME NEW k \in 1 .. n
               PROVE  /\ code[pa + k - 1] # "other"
                      /\ code[pa + k - 1] \in {"bcc", "bra", "rts"} => k = n
    OBVIOUS
  <2> DEFINE a == pa + k - 1
  <2>1. a \in here /\ a \in Int /\ (last <= a => k = n) /\ ~ (last <= a - 1)
    BY <1>1, <1>5, <1>8
  <2> HIDE DEF a
  <2> QED
    BY <1>4, <2>1 DEF a
<1> HIDE DEF n
<1> DEFINE ops == [k \in 1 .. n |-> code[pa + k - 1]]
<1>11. ops \in [1 .. n -> Kinds]
  BY <1>9
<1>12. ops \in Seq(Kinds) /\ Len(ops) = n
  BY <1>6, <1>11
<1>13. \A k \in 1 .. n : ops[k] = code[pa + k - 1]
  OBVIOUS
<1> HIDE DEF ops
<1>14. Scanned(pa) = ops
  BY <1>7 DEF ops
<1>15. Tidy(ops)
  BY <1>10, <1>12, <1>13 DEF Tidy
<1> QED
  BY <1>8, <1>12, <1>13, <1>14, <1>15

\* A block that was just compiled is right.
LEMMA CompiledRight ==
  ASSUME TypeInv, NEW pc \in Addresses
  PROVE  /\ TryCompile(pc) \in Block /\ TryCompile(pc).pa = Physical(pc)
         /\ Right(TryCompile(pc))
         /\ Len(TryCompile(pc).ops) > 0 => Compiled(TryCompile(pc))
<1> DEFINE pa == Physical(pc)
           ops == Scanned(pa)
           need == {i \in DOMAIN ops : Live(ops)[i]}
           b == [va |-> pc, pa |-> pa, ops |-> ops, needs |-> need, bails |-> 0]
<1>1. pa \in Addresses
  BY Translated
<1> HIDE DEF pa
<1>2. /\ ops \in Seq(Kinds)
      /\ \A k \in 1 .. Len(ops) : pa + k - 1 \in Addresses /\ code[pa + k - 1] = ops[k]
      /\ Tidy(ops)
  BY <1>1, ScannedIs
<1> HIDE DEF ops
<1>3. need \in SUBSET Nat
  <2>1. DOMAIN ops \subseteq Nat
    BY <1>2
  <2> QED
    BY <2>1
<1> HIDE DEF need
<1>4. b \in Block /\ b.pa = pa /\ b.va = pc /\ b.ops = ops /\ b.needs = need
  BY <1>1, <1>2, <1>3 DEF Block
<1>5. TryCompile(pc) = b
  BY DEF TryCompile, b, need, ops, pa
<1> HIDE DEF b
<1>6. Made(b)
  BY <1>2, <1>4 DEF Made
<1>7. Placed(b)
  BY <1>4 DEF Placed, pa
<1>8. b.va % PageLen = b.pa % PageLen
  BY <1>4, SamePlace DEF pa
<1>9. Len(b.ops) > 0 => Compiled(b)
  BY <1>2, <1>4, <1>8 DEF Compiled, need
<1> QED
  BY <1>4, <1>5, <1>6, <1>7, <1>9 DEF pa, Right

\* A block that stayed right runs what memory holds at the program counter.
LEMMA RightRunsCurrent ==
  ASSUME TypeInv, NEW b \in Block, NEW pc \in Addresses,
         Made(b), Compiled(b), Physical(pc) = b.pa,
         ~ Crosses(b), ~ Elsewhere(b), ~ Unflushed(b)
  PROVE  Current(b, pc)
<1> DEFINE va == b.va
           len == Len(b.ops)
           p  == va \div PageLen
           x  == va % PageLen
           q  == pc \div PageLen
           y  == pc % PageLen
           f  == map[super][p]
           g  == map[super][q]
<1>1. va \in Addresses /\ len \in Nat \ {0} /\ DOMAIN b.ops = 1 .. len /\ b.pa \in Nat
  BY Bounds DEF Block, Addresses, Compiled
<1>2. /\ va \in Nat /\ p \in PageNo /\ x \in 0..(PageLen - 1) /\ va = p * PageLen + x
      /\ f \in PageNo
  BY <1>1, Translated
<1>3. /\ q \in PageNo /\ y \in 0..(PageLen - 1) /\ pc = q * PageLen + y
      /\ g \in PageNo /\ Physical(pc) = g * PageLen + y
  BY Translated
<1>4. g = b.pa \div PageLen /\ y = x
  BY SamePlace DEF Compiled
<1>5. q = p
  BY <1>3, <1>4 DEF Elsewhere, PageNo
<1>6. f = g
  BY <1>5
<1> HIDE DEF va, len, x, y, f, g, p, q
<1>7. va = pc /\ b.pa = f * PageLen + x
  BY <1>2, <1>3, <1>4, <1>5, <1>6
<1>8. (va + len - 1) \div PageLen = p
  BY DEF Crosses, va, len, p
<1>9. ASSUME NEW k \in 1 .. len
      PROVE  pc + k - 1 \in Addresses /\ code[Physical(pc + k - 1)] = b.ops[k]
  <2> DEFINE z == pc + k - 1
  <2>1. /\ z \in Nat /\ va <= z /\ z <= va + len - 1 /\ va + len - 1 \in Nat
        /\ z = va + (k - 1)
    BY <1>1, <1>2, <1>7
  <2> HIDE DEF z
  <2>2. va \div PageLen <= z \div PageLen /\ z \div PageLen <= (va + len - 1) \div PageLen
    BY <2>1, <1>2, Bounds, DivMonotone
  <2>3. /\ z \div PageLen \in Nat /\ z % PageLen \in 0..(PageLen - 1)
        /\ z = (z \div PageLen) * PageLen + (z % PageLen)
    BY <2>1, Bounds, Split
  <2> DEFINE r == z % PageLen
             d == z \div PageLen
  <2> HIDE DEF r, d
  <2>4. d = p
    <3>1. p <= d /\ d <= p /\ d \in Nat /\ p \in Nat
      BY <2>2, <2>3, <1>2, <1>8 DEF d, p, PageNo
    <3> QED
      BY <3>1
  <2>5. z = p * PageLen + r /\ r \in 0..(PageLen - 1)
    BY <2>3, <2>4 DEF r, d
  <2>6. z \in Addresses
    BY <2>5, <1>2, Bounds, InPage DEF Addresses, PageNo
  <2>7. Physical(z) = f * PageLen + r
    BY <2>4 DEF Physical, f, d, r
  <2>8. Physical(z) = b.pa + k - 1
    <3>1. p * PageLen \in Nat /\ f * PageLen \in Nat
      BY <1>2, Bounds DEF PageNo
    <3> DEFINE u == p * PageLen
               v == f * PageLen
    <3> HIDE DEF u, v
    <3>2. r = x + (k - 1)
      <4>1. u + r = u + x + (k - 1)
        BY <2>1, <2>5, <1>2 DEF u
      <4>2. u \in Nat /\ r \in Nat /\ x \in Nat /\ k \in Nat
        BY <3>1, <2>5, <1>2 DEF u
      <4> QED
        BY <4>1, <4>2
    <3>3. b.pa = v + x
      BY <1>7 DEF v
    <3>4. Physical(z) = v + r
      BY <2>7 DEF v
    <3>5. v \in Nat /\ x \in Nat /\ k \in Nat
      BY <3>1, <1>2 DEF v
    <3> QED
      BY <3>2, <3>3, <3>4, <3>5
  <2>9. b.pa + k - 1 \notin patched
    BY <1>1 DEF Unflushed
  <2>10. code[b.pa + k - 1] = b.ops[k]
    BY <2>9 DEF Made, len
  <2> QED
    BY <2>6, <2>8, <2>10 DEF z
<1> QED
  BY <1>1, <1>7, <1>9 DEF Current, va

-----------------------------------------------------------------------------
(* Flags.                                                                  *)

\* The recursion of Live has a solution: from the end of the block on, each
\* instruction adds one value.
LEMMA LiveUnfolds ==
  ASSUME NEW ops \in Seq(Kinds)
  PROVE  \A k \in 0 .. Len(ops) :
            Live(ops)[k] = (\/ k = Len(ops)
                            \/ ops[k + 1] = "bcc"
                            \/ ops[k + 1] \in {"lea", "store", "rts", "btst"} /\ Live(ops)[k + 1])
<1> DEFINE n == Len(ops)
           Body(f, k) == \/ k = n
                         \/ ops[k + 1] = "bcc"
                         \/ ops[k + 1] \in {"lea", "store", "rts", "btst"} /\ f[k + 1]
           From(d) == \E f : \A k \in (n - d) .. n : f[k] = Body(f, k)
           T == {d \in 0 .. n : ~ From(d)}
<1>1. n \in Nat
  OBVIOUS
<1>2. Live(ops) = CHOOSE f : f = [k \in 0 .. n |-> Body(f, k)]
  BY DEF Live
<1> HIDE DEF n
<1> HIDE DEF Body
<1>3. From(0)
  <2> DEFINE f == [k \in {n} |-> TRUE]
  <2>1. Body(f, n) = TRUE
    BY DEF Body
  <2>2. f[n] = Body(f, n)
    BY <2>1
  <2> HIDE DEF f
  <2>3. \A k \in (n - 0) .. n : f[k] = Body(f, k)
    BY <1>1, <2>2
  <2> QED
    BY <2>3
<1>4. ASSUME NEW d \in 1 .. n, From(d - 1)
      PROVE  From(d)
  <2>1. PICK f : \A k \in (n - (d - 1)) .. n : f[k] = Body(f, k)
    BY <1>4
  <2> DEFINE g == [k \in 0 .. n |-> IF k = n - d THEN Body(f, k) ELSE f[k]]
  <2>2. ASSUME NEW k \in (n - d) .. n PROVE g[k] = Body(g, k)
    <3>1. k \in 0 .. n /\ n - d \in 0 .. n /\ d \in Nat
      BY <1>1
    <3>2. k # n => k + 1 \in 0 .. n /\ k + 1 # n - d
      BY <1>1, <3>1
    <3>3. k # n => g[k + 1] = f[k + 1]
      BY <3>2
    <3>4. Body(g, k) = Body(f, k)
      BY <3>3 DEF Body
    <3>5. CASE k = n - d
      BY <3>1, <3>4, <3>5
    <3>6. CASE k # n - d
      <4>1. k \in (n - (d - 1)) .. n
        BY <1>1, <3>1, <3>6
      <4> QED
        BY <2>1, <3>1, <3>4, <3>6, <4>1
    <3> QED
      BY <3>5, <3>6
  <2> QED
    BY <2>2
<1>5. From(n)
  <2> HIDE DEF From
  <2>1. T \in SUBSET Nat
    BY <1>1
  <2>2. CASE T = {}
    BY <1>1, <2>2
  <2>3. CASE T # {}
    <3> DEFINE d == Min(T)
    <3>1. d \in T /\ \A e \in T : d <= e
      BY <2>1, <2>3, Least
    <3> HIDE DEF d
    <3>2. d \in 0 .. n /\ ~ From(d)
      BY <3>1
    <3>3. d # 0
      BY <1>3, <3>2
    <3>4. d \in 1 .. n /\ d - 1 \in 0 .. n /\ ~ (d <= d - 1)
      BY <1>1, <3>2, <3>3
    <3>5. d - 1 \notin T
      BY <3>1, <3>4
    <3>6. From(d - 1)
      BY <3>4, <3>5
    <3> QED
      BY <1>4, <3>2, <3>4, <3>6
  <2> QED
    BY <2>2, <2>3
<1>6. \E g : g = [k \in 0 .. n |-> Body(g, k)]
  <2>1. PICK f : \A k \in (n - n) .. n : f[k] = Body(f, k)
    BY <1>5
  <2> DEFINE g == [k \in 0 .. n |-> f[k]]
  <2>2. ASSUME NEW k \in 0 .. n PROVE g[k] = Body(g, k)
    <3>1. f[k] = Body(f, k)
      BY <1>1, <2>1
    <3>2. k # n => g[k + 1] = f[k + 1]
      BY <1>1
    <3>3. Body(g, k) = Body(f, k)
      BY <3>2 DEF Body
    <3> QED
      BY <3>1, <3>3
  <2>3. g = [k \in 0 .. n |-> Body(g, k)]
    BY <2>2
  <2> QED
    BY <2>3
<1>7. Live(ops) = [k \in 0 .. n |-> Body(Live(ops), k)]
  BY <1>2, <1>6 DEF Body
<1>8. \A k \in 0 .. n : Live(ops)[k] = Body(Live(ops), k)
  BY <1>7
<1> QED
  BY <1>8 DEF n, Body

\* Flags found dead are overwritten, or the block ends in BRA: up to there no
\* instruction of the block uses them.
LEMMA DeadIsOverwritten ==
  ASSUME NEW ops \in Seq(Kinds), Tidy(ops), NEW i \in 0 .. Len(ops), ~ Live(ops)[i]
  PROVE  \E j \in i + 1 .. Len(ops) :
            /\ ops[j] \in {"add", "move", "cmp", "load", "bra"}
            /\ \A k \in i + 1 .. j - 1 : ops[k] \in {"lea", "store", "rts", "btst"}
<1> DEFINE n == Len(ops)
           Over(k) == \E j \in k + 1 .. n :
                         /\ ops[j] \in {"add", "move", "cmp", "load", "bra"}
                         /\ \A l \in k + 1 .. j - 1 : ops[l] \in {"lea", "store", "rts", "btst"}
           T == {d \in 0 .. n : ~ Live(ops)[n - d] /\ ~ Over(n - d)}
<1>1. n \in Nat /\ \A k \in 1 .. n : ops[k] \in Kinds
  OBVIOUS
<1>2. \A k \in 0 .. n :
        ~ Live(ops)[k] =>
          /\ k # n /\ ops[k + 1] # "bcc"
          /\ ops[k + 1] \in {"lea", "store", "rts", "btst"} => ~ Live(ops)[k + 1]
  BY LiveUnfolds
<1>3. \A k \in 1 .. n : ops[k] \in {"add", "move", "cmp", "load", "bra", "bcc"}
                           \/ ops[k] \in {"lea", "store", "rts", "btst"}
  BY <1>1 DEF Tidy, Kinds
<1> HIDE DEF n
<1>4. ASSUME NEW k \in 0 .. n, ~ Live(ops)[k], k + 1 \in 0 .. n => Live(ops)[k + 1] \/ Over(k + 1)
      PROVE  Over(k)
  <2>1. k + 1 \in 1 .. n /\ ops[k + 1] # "bcc"
    BY <1>1, <1>2, <1>4
  <2>2. CASE ops[k + 1] \in {"add", "move", "cmp", "load", "bra"}
    <3>1. k + 1 \in k + 1 .. n /\ \A l \in k + 1 .. (k + 1) - 1 : FALSE
      BY <1>1, <2>1
    <3> QED
      BY <2>2, <3>1
  <2>3. CASE ops[k + 1] \in {"lea", "store", "rts", "btst"}
    <3>1. Over(k + 1)
      BY <1>2, <1>4, <2>1, <2>3
    <3>2. PICK j \in (k + 1) + 1 .. n :
             /\ ops[j] \in {"add", "move", "cmp", "load", "bra"}
             /\ \A l \in (k + 1) + 1 .. j - 1 : ops[l] \in {"lea", "store", "rts", "btst"}
      BY <3>1
    <3>3. j \in k + 1 .. n /\ \A l \in k + 1 .. j - 1 : l = k + 1 \/ l \in (k + 1) + 1 .. j - 1
      BY <1>1
    <3>4. \A l \in k + 1 .. j - 1 : ops[l] \in {"lea", "store", "rts", "btst"}
      BY <2>3, <3>2, <3>3
    <3> QED
      BY <3>2, <3>3, <3>4
  <2> QED
    BY <1>3, <2>1, <2>2, <2>3
<1> HIDE DEF Over
<1>5. T = {}
  <2> SUFFICES ASSUME T # {} PROVE FALSE
    OBVIOUS
  <2> DEFINE d == Min(T)
  <2>1. d \in T /\ \A e \in T : d <= e
    <3>1. T \in SUBSET Nat
      BY <1>1
    <3> QED
      BY <3>1, Least
  <2> HIDE DEF d
  <2> DEFINE k == n - d
  <2>2. d \in 0 .. n /\ ~ Live(ops)[k] /\ ~ Over(k)
    BY <2>1
  <2>3. k \in 0 .. n
    BY <1>1, <2>2
  <2>4. k + 1 \in 0 .. n => d - 1 \in 0 .. n /\ k + 1 = n - (d - 1) /\ ~ (d <= d - 1)
    BY <1>1, <2>2
  <2>5. k + 1 \in 0 .. n => Live(ops)[k + 1] \/ Over(k + 1)
    BY <2>1, <2>4
  <2> HIDE DEF k
  <2> QED
    BY <1>4, <2>2, <2>3, <2>5
<1>6. n - i \in 0 .. n /\ n - (n - i) = i
  BY <1>1 DEF n
<1>7. Over(i)
  BY <1>5, <1>6
<1> QED
  BY <1>7 DEF Over, n

\* The last of some instructions, with 0 for none.
LEMMA Latest ==
  ASSUME NEW n \in Nat, NEW S \in SUBSET (1 .. n)
  PROVE  /\ Max({0} \cup S) \in {0} \cup S /\ \A y \in S : y <= Max({0} \cup S)
         /\ Max({0} \cup S) \in 0 .. n
<1> DEFINE T == {n - y : y \in {0} \cup S}
           d == Min(T)
<1>1. T \in SUBSET Nat /\ n \in T
  OBVIOUS
<1>2. d \in T /\ \A e \in T : d <= e
  BY <1>1, Least
<1> HIDE DEF d
<1>3. PICK x \in {0} \cup S : d = n - x
  BY <1>2
<1>4. \A y \in {0} \cup S : x >= y
  <2> SUFFICES ASSUME NEW y \in {0} \cup S PROVE x >= y
    OBVIOUS
  <2>1. n - x <= n - y
    BY <1>2, <1>3
  <2> QED
    BY <2>1
<1>5. \E z \in {0} \cup S : \A y \in {0} \cup S : z >= y
  BY <1>4
<1>6. /\ Max({0} \cup S) \in {0} \cup S
      /\ \A y \in {0} \cup S : Max({0} \cup S) >= y
  BY <1>5 DEF Max
<1> DEFINE m == Max({0} \cup S)
<1> HIDE DEF m
<1>7. m \in {0} \cup S /\ \A y \in S : m >= y
  BY <1>6 DEF m
<1>8. m \in 0 .. n /\ \A y \in S : y <= m
  BY <1>7
<1> QED
  BY <1>7, <1>8 DEF m

\* The last of all is the last of some, if it is one of them.
LEMMA SameLatest ==
  ASSUME NEW n \in Nat, NEW T \in SUBSET (1 .. n), NEW S \in SUBSET T,
         Max({0} \cup T) \in {0} \cup S
  PROVE  Max({0} \cup S) = Max({0} \cup T)
<1>1. /\ Max({0} \cup T) \in {0} \cup T /\ Max({0} \cup T) \in 0 .. n
      /\ \A y \in T : y <= Max({0} \cup T)
  BY Latest
<1>2. /\ Max({0} \cup S) \in {0} \cup S /\ Max({0} \cup S) \in 0 .. n
      /\ \A y \in S : y <= Max({0} \cup S)
  BY Latest
<1> QED
  BY <1>1, <1>2

\* The block runs up to its end or to the first instruction handed over.
LEMMA RunsUpTo ==
  ASSUME NEW b \in Block, NEW hits
  PROVE  /\ Executed(b, hits) \in 0 .. Len(b.ops)
         /\ Executed(b, hits) < Len(b.ops) =>
               b.ops[Executed(b, hits) + 1] \in {"load", "store", "rts"}
<1> DEFINE n == Len(b.ops)
           bails == BailsAt(b, hits)
           ends == {n} \cup {k - 1 : k \in bails}
<1>1. n \in Nat /\ DOMAIN b.ops = 1 .. n
  BY DEF Block
<1>2. bails \in SUBSET (1 .. n) /\ \A k \in bails : b.ops[k] \in {"load", "store", "rts"}
  BY <1>1 DEF BailsAt
<1> HIDE DEF n, bails
<1>3. ends \in SUBSET Nat /\ n \in ends
  BY <1>1, <1>2
<1>4. Min(ends) \in ends /\ Min(ends) <= n
  BY <1>3, Least
<1>5. Executed(b, hits) = Min(ends)
  BY DEF Executed, ends, bails, n
<1>6. Min(ends) = n \/ \E k \in bails : Min(ends) = k - 1
  BY <1>4
<1> QED
  BY <1>1, <1>2, <1>4, <1>5, <1>6 DEF n

\* A flag the block leaves wrong was found dead although the guest sees it: the
\* block ends in BRA, or the flag is X and what seemed to overwrite it leaves X
\* alone or was not reached.
LEMMA WrongFlag ==
  ASSUME NEW b \in Block, Compiled(b), NEW hits, NEW f \in Flags,
         f \notin FlagsRight(b, Executed(b, hits)), b.ops[Len(b.ops)] # "bra"
  PROVE  /\ f = "X"
         /\ \E i, j \in DOMAIN b.ops :
               /\ i < j /\ b.ops[i] = "add"
               /\ \/ b.ops[j] \in {"move", "cmp", "load"}
                  \/ b.ops[j] = "add" /\ j > Executed(b, hits)
<1> DEFINE ops == b.ops
           len == Len(ops)
           n == Executed(b, hits)
           T == {k \in 1 .. n : f \in Touches(ops[k])}
           S == {k \in 1 .. n : f \in JitTouches(b, k)}
           w == Max({0} \cup T)
<1>1. ops \in Seq(Kinds) /\ len \in Nat /\ DOMAIN ops = 1 .. len /\ Tidy(ops)
  BY DEF Block, Compiled
<1>2. n \in 0 .. len /\ (n < len => ops[n + 1] \in {"load", "store", "rts"})
  BY RunsUpTo
<1>3. /\ Max({0} \cup S) # Max({0} \cup T)
      /\ ~ (n < len /\ f \in Touches(ops[n + 1]))
  BY DEF FlagsRight, LastWriter
<1>4. n \in Nat /\ T \in SUBSET (1 .. n) /\ S \in SUBSET T
  BY <1>2 DEF JitTouches
<1>5. w \in {0} \cup T /\ w \in 0 .. n /\ \A y \in T : y <= w
  BY <1>4, Latest
<1>6. w \in T /\ w \notin S
  <2>1. w \notin {0} \cup S
    <3> SUFFICES ASSUME w \in {0} \cup S PROVE FALSE
      OBVIOUS
    <3> HIDE DEF S, T
    <3>1. Max({0} \cup S) = Max({0} \cup T)
      BY <1>4, SameLatest
    <3> QED
      BY <1>3, <3>1
  <2> QED
    BY <1>5, <2>1
<1> HIDE DEF w, n, len
<1>7. w \in 1 .. n /\ w \in 1 .. len /\ f \in Touches(ops[w]) /\ f \notin JitTouches(b, w)
  BY <1>1, <1>2, <1>6
<1>8. ops[w] # "cmp" /\ ~ Live(ops)[w]
  BY <1>1, <1>7 DEF JitTouches, Compiled
<1>9. PICK j \in w + 1 .. len :
        /\ ops[j] \in {"add", "move", "cmp", "load", "bra"}
        /\ \A k \in w + 1 .. j - 1 : ops[k] \in {"lea", "store", "rts", "btst"}
  BY <1>1, <1>7, <1>8, DeadIsOverwritten DEF len
<1>10. ops[j] \in {"add", "move", "cmp", "load"} /\ j \in 1 .. len /\ w < j
  BY <1>1, <1>7, <1>9 DEF Tidy, len
<1>11. f \in Touches(ops[j]) => j > n
  BY <1>1, <1>2, <1>5, <1>10
<1>12. CASE f # "X"
  <2>1. f \in Touches(ops[j]) /\ j > n /\ n < len /\ n + 1 \in 1 .. len
    BY <1>1, <1>2, <1>10, <1>11, <1>12 DEF Touches, Flags
  <2>2. ops[n + 1] = "rts"
    BY <1>2, <1>3, <1>12, <2>1 DEF Touches, Flags
  <2>3. n + 1 = len
    BY <1>1, <2>1, <2>2 DEF Tidy, len
  <2>4. j = n + 1
    BY <1>1, <1>2, <1>10, <2>1, <2>3
  <2> QED
    BY <1>10, <2>2, <2>4
<1>13. CASE f = "X"
  <2>1. ops[w] = "add"
    BY <1>7, <1>13 DEF Touches
  <2>2. ops[j] = "add" => j > n
    BY <1>11, <1>13 DEF Touches, Flags
  <2> QED
    BY <1>1, <1>7, <1>10, <1>13, <2>1, <2>2 DEF n
<1> QED
  BY <1>12, <1>13

\* So the run of a block leaves what FlagsExplained says.
LEMMA FlagsOfRun ==
  ASSUME NEW b \in Block, Compiled(b), NEW hits
  PROVE  LET n == Executed(b, hits)
         IN  \/ Flags \subseteq FlagsRight(b, n)
             \/ b.ops[Len(b.ops)] = "bra"
             \/ /\ {"Z", "NVC"} \subseteq FlagsRight(b, n)
                /\ \E i, j \in DOMAIN b.ops :
                     /\ i < j /\ b.ops[i] = "add"
                     /\ \/ b.ops[j] \in {"move", "cmp", "load"}
                        \/ b.ops[j] = "add" /\ j > n
  BY WrongFlag DEF Flags

-----------------------------------------------------------------------------
(* The invariant.                                                          *)

\* The machine starts with an empty cache and no block in hand.
LEMMA InitEstablishes == Init => IInv
<1> SUFFICES ASSUME Init PROVE IInv
  OBVIOUS
<1>1. blocks = Emptied /\ \A s \in 0 .. Slots - 1 : blocks[s] = None
  BY DEF Init, Emptied
<1>2. code \in [Addresses -> Kinds] /\ map \in [BOOLEAN -> [PageNo -> PageNo]]
  BY Bounds DEF Init
<1>3. TypeInv
  BY <1>1, <1>2 DEF Init, TypeInv, Emptied
<1> QED
  BY <1>1, <1>3 DEF Init, IInv, AllCompiled, BlocksOK, HeldOK, StaleExplained, FlagsExplained

\* What is right stays right while memory and translation stay.
LEMMA RightStays ==
  ASSUME code' = code, map' = map, super' = super, patched' = patched, kept' = kept
  PROVE  /\ \A b : Right(b)' <=> Right(b)
         /\ \A va : Physical(va)' = Physical(va)
<1>1. \A b : Made(b)' <=> Made(b)
  BY DEF Made
<1>2. \A va : Physical(va)' = Physical(va)
  BY DEF Physical
<1> QED
  BY <1>1, <1>2 DEF Right, Placed

\* The invariant of the cache, when entries only come in right or go.
LEMMA CacheKept ==
  ASSUME TypeInv, AllCompiled, BlocksOK,
         code' = code, map' = map, super' = super, patched' = patched, missed' = missed,
         kept' = kept,
         DOMAIN blocks' = 0 .. Slots - 1,
         \A s \in 0 .. Slots - 1 :
            \/ blocks'[s] = blocks[s] \/ blocks'[s] = None
            \/ /\ blocks'[s] \in Block /\ Compiled(blocks'[s])
               /\ ~ missed => Right(blocks'[s])
  PROVE  /\ AllCompiled' /\ BlocksOK'
         /\ \A s \in 0 .. Slots - 1 : blocks'[s] # None => blocks'[s] \in Block
<1>1. \A b : Right(b)' <=> Right(b)
  BY RightStays
<1>2. \A b : Compiled(b)' <=> Compiled(b)
  BY DEF Compiled
<1>3. BlocksOK'
  BY <1>1 DEF BlocksOK
<1>4. AllCompiled'
  BY <1>2 DEF AllCompiled
<1> QED
  BY <1>3, <1>4 DEF TypeInv

\* A sampled address is compiled, or barred, or counted.
LEMMA SamplePreserves ==
  ASSUME IInv, NEW pc \in Entries, Sample(pc)
  PROVE  IInv'
<1> DEFINE pa == Physical(pc)
           b  == TryCompile(pc)
<1>1. pc \in Addresses /\ TypeInv
  BY Bounds DEF IInv
<1>2. /\ pa \in Addresses /\ b \in Block /\ b.pa = pa /\ Right(b)
      /\ Len(b.ops) > 0 => Compiled(b)
  BY <1>1, Translated, CompiledRight
<1> HIDE DEF b, pa
<1>3. /\ code' = code /\ map' = map /\ super' = super /\ patched' = patched /\ missed' = missed
      /\ kept' = kept /\ held = None /\ held' = None /\ ran' = None
      /\ \/ Len(b.ops) >= MinBlockLength /\ blocks' = [blocks EXCEPT ![Slot(pa)] = b]
         \/ blocks' = blocks
  BY DEF Sample, guest, ui, b, pa
<1>4. Len(b.ops) \in Nat
  BY <1>2 DEF Block
<1>5. CASE Len(b.ops) >= MinBlockLength /\ blocks' = [blocks EXCEPT ![Slot(pa)] = b]
  <2>1. Compiled(b)
    BY <1>2, <1>4, <1>5, Bounds
  <2>2. DOMAIN blocks' = 0 .. Slots - 1
        /\ \A s \in 0 .. Slots - 1 : blocks'[s] = blocks[s] \/ blocks'[s] = b
    BY <1>1, <1>5 DEF TypeInv
  <2>3. /\ AllCompiled' /\ BlocksOK'
        /\ \A s \in 0 .. Slots - 1 : blocks'[s] # None => blocks'[s] \in Block
    BY <1>2, <1>3, <2>1, <2>2, CacheKept DEF IInv
  <2> QED
    BY <1>3, <2>2, <2>3 DEF IInv, TypeInv, HeldOK, StaleExplained, FlagsExplained
<1>6. CASE blocks' = blocks
  <2>1. DOMAIN blocks' = 0 .. Slots - 1
        /\ \A s \in 0 .. Slots - 1 : blocks'[s] = blocks[s]
    BY <1>1, <1>6 DEF TypeInv
  <2>2. /\ AllCompiled' /\ BlocksOK'
        /\ \A s \in 0 .. Slots - 1 : blocks'[s] # None => blocks'[s] \in Block
    BY <1>3, <2>1, CacheKept DEF IInv
  <2> QED
    BY <1>3, <2>1, <2>2 DEF IInv, TypeInv, HeldOK, StaleExplained, FlagsExplained
<1> QED
  BY <1>3, <1>5, <1>6

\* The emulation thread takes a block whose physical address is that of its
\* program counter.
LEMMA LookupPreserves ==
  ASSUME IInv, NEW pc \in Addresses, Lookup(pc)
  PROVE  IInv'
<1> DEFINE s == Slot(Physical(pc))
           b == blocks[s]
<1>1. TypeInv /\ Physical(pc) \in Nat
  BY Translated DEF IInv, Addresses
<1>2. s \in 0 .. Slots - 1
  BY <1>1, Bounds DEF Slot
<1> HIDE DEF s
<1>3. /\ b # None /\ b.pa = Physical(pc)
      /\ held' = [block |-> b, pc |-> pc, freed |-> FALSE] /\ ran' = None
      /\ code' = code /\ map' = map /\ super' = super /\ patched' = patched /\ missed' = missed
      /\ kept' = kept /\ blocks' = blocks
  BY DEF Lookup, guest, cache, ui, s
<1>4. b \in Block /\ Compiled(b) /\ (missed \/ Right(b))
  BY <1>2, <1>3 DEF IInv, TypeInv, AllCompiled, BlocksOK
<1> HIDE DEF b
<1>5. held' \in [block : Block, pc : Addresses, freed : BOOLEAN]
  BY <1>3, <1>4
<1>6. TypeInv'
  BY <1>1, <1>3, <1>5 DEF TypeInv
<1>7. HeldOK'
  BY <1>3, <1>4, RightStays DEF HeldOK, Compiled
<1>8. AllCompiled' /\ BlocksOK'
  BY <1>3, RightStays DEF IInv, AllCompiled, BlocksOK, Compiled
<1> QED
  BY <1>3, <1>6, <1>7, <1>8 DEF IInv, StaleExplained, FlagsExplained

\* A block that runs may be counted, or be removed and barred.
LEMMA RunPreserves ==
  ASSUME IInv, NEW hits \in SUBSET Addresses, Run(hits)
  PROVE  IInv'
<1> DEFINE b    == held.block
           n    == Executed(b, hits)
           more == [b EXCEPT !.bails = @ + 1]
<1>1. /\ TypeInv /\ held # None /\ held.pc \in Addresses
      /\ b # None /\ b \in Block /\ Compiled(b)
      /\ Physical(held.pc) = b.pa
      /\ held.freed \/ missed \/ Right(b)
  BY DEF IInv, TypeInv, HeldOK, Run
<1>2. /\ more \in Block /\ more.pa = b.pa /\ more.va = b.va /\ more.ops = b.ops
      /\ Compiled(more)
  BY <1>1 DEF Block, Compiled
<1>3. /\ held' = None /\ code' = code /\ map' = map /\ super' = super
      /\ patched' = patched /\ missed' = missed /\ kept' = kept
      /\ \/ blocks' = blocks
         \/ blocks' = [blocks EXCEPT ![Slot(b.pa)] = IF @ = b THEN more ELSE @]
         \/ blocks' = [blocks EXCEPT ![Slot(b.pa)] = IF @ # None /\ @.pa = b.pa THEN None ELSE @]
  BY DEF Run, guest, ui, cache, RemoveBlock
<1>4. /\ ran'.stale = ~ Current(b, held.pc) /\ ran'.freed = held.freed
      /\ ran'.block = b /\ ran'.n = n /\ ran'.right = FlagsRight(b, n)
      /\ ran'.crosses = Crosses(b) /\ ran'.aliased = Aliased(b)
      /\ ran'.outlived = Outlived(b) /\ ran'.unflushed = Unflushed(b)
  BY DEF Run
<1> HIDE DEF b, more
<1>5. StaleExplained'
  <2> SUFFICES ASSUME ~ Current(b, held.pc), ~ Crosses(b), ~ Aliased(b), ~ Outlived(b),
                      ~ Unflushed(b), ~ held.freed, ~ missed
               PROVE  FALSE
    BY <1>3, <1>4 DEF StaleExplained
  <2>1. ~ Elsewhere(b)
    BY <1>1 DEF Right, Placed, Aliased, Outlived
  <2> QED
    BY <1>1, <2>1, RightRunsCurrent DEF Right
<1>6. FlagsExplained'
  BY <1>1, <1>3, <1>4, FlagsOfRun DEF FlagsExplained
<1>7. DOMAIN blocks' = 0 .. Slots - 1
  BY <1>1, <1>3 DEF TypeInv
<1>8. ASSUME NEW s \in 0 .. Slots - 1
      PROVE  blocks'[s] = blocks[s] \/ blocks'[s] = None \/ (blocks[s] = b /\ blocks'[s] = more)
  BY <1>1, <1>3 DEF TypeInv
<1>9. ASSUME NEW s \in 0 .. Slots - 1, blocks[s] = b, blocks'[s] = more
      PROVE  /\ blocks'[s] \in Block /\ Compiled(blocks'[s])
             /\ ~ missed => Right(blocks'[s])
  BY <1>1, <1>2, <1>9 DEF IInv, BlocksOK, Right, Made, Placed
<1>10. /\ AllCompiled' /\ BlocksOK'
      /\ \A s \in 0 .. Slots - 1 : blocks'[s] # None => blocks'[s] \in Block
  BY <1>3, <1>7, <1>8, <1>9, CacheKept DEF IInv
<1>11. TypeInv'
  BY <1>1, <1>3, <1>7, <1>10 DEF TypeInv
<1> QED
  BY <1>3, <1>5, <1>6, <1>10, <1>11 DEF IInv, HeldOK

\* A flush empties the cache, or, with the JIT off, is remembered as missed.
LEMMA FlushPreserves ==
  ASSUME IInv, Invalidated, Between,
         code' \in [Addresses -> Kinds], map' \in [BOOLEAN -> [PageNo -> PageNo]],
         super' \in BOOLEAN
  PROVE  IInv'
<1>1. /\ held' = None /\ ran' = None /\ kept' \in BOOLEAN
      /\ \/ blocks' = Emptied
         \/ missed' = TRUE /\ blocks' = blocks
  BY DEF Invalidated, Between, ui, IInv, TypeInv
<1>2. DOMAIN blocks = 0 .. Slots - 1 /\ AllCompiled
      /\ \A s \in 0 .. Slots - 1 : blocks[s] # None => blocks[s] \in Block
  BY DEF IInv, TypeInv
<1>3. CASE blocks' = Emptied
  <2>1. DOMAIN blocks' = 0 .. Slots - 1 /\ \A s \in 0 .. Slots - 1 : blocks'[s] = None
    BY <1>3 DEF Emptied
  <2> QED
    BY <1>1, <2>1 DEF IInv, TypeInv, AllCompiled, BlocksOK, HeldOK, StaleExplained, FlagsExplained
<1>4. CASE missed' = TRUE /\ blocks' = blocks
  BY <1>1, <1>2, <1>4 DEF IInv, TypeInv, AllCompiled, BlocksOK, HeldOK, StaleExplained, FlagsExplained
<1> QED
  BY <1>1, <1>3, <1>4

\* Where another translation takes over, the words of the blocks are still theirs.
LEMMA TakeOverPreserves ==
  ASSUME IInv, Kept, Between, code' = code,
         map' \in [BOOLEAN -> [PageNo -> PageNo]], super' \in BOOLEAN
  PROVE  IInv'
<1>1. /\ held' = None /\ ran' = None /\ kept' = TRUE
      /\ blocks' = blocks /\ patched' = patched /\ missed' = missed
  BY DEF Kept, Between, ui
<1>2. TypeInv'
  BY <1>1 DEF IInv, TypeInv
<1>3. AllCompiled'
  BY <1>1 DEF IInv, AllCompiled, Compiled
<1>4. \A b : Right(b) => Right(b)'
  BY <1>1 DEF Right, Made
<1>5. BlocksOK'
  BY <1>1, <1>4 DEF IInv, BlocksOK
<1> QED
  BY <1>1, <1>2, <1>3, <1>5 DEF IInv, HeldOK, StaleExplained, FlagsExplained

\* The guest changes its code, its translation or its mode, or is reset.
LEMMA GuestPreserves ==
  ASSUME IInv,
         \/ \E mode \in BOOLEAN, t \in Maps : Remap(mode, t)
         \/ SetSR \/ SetSupervisorMode \/ Reset \/ EditSR
         \/ \E pa \in Addresses, kind \in Patches : Replace(pa, kind) \/ Patch(pa, kind)
  PROVE  IInv'
<1> USE Bounds
<1>1. ASSUME NEW mode \in BOOLEAN, NEW t \in Maps, Remap(mode, t) PROVE IInv'
  <2>1. map' = [map EXCEPT ![mode] = t] /\ code' = code /\ super' = super
        /\ Invalidated /\ Between
    BY <1>1 DEF Remap, Change
  <2> QED
    BY <2>1, FlushPreserves DEF IInv, TypeInv
<1>2. CASE SetSR
  <2>1. super' = FALSE /\ code' = code /\ map' = map /\ Invalidated /\ Between
    BY <1>2 DEF SetSR
  <2> QED
    BY <2>1, FlushPreserves DEF IInv, TypeInv
<1>3. ASSUME NEW pa \in Addresses, NEW kind \in Patches, Replace(pa, kind) PROVE IInv'
  <2>1. code' = [code EXCEPT ![pa] = kind] /\ map' = map /\ super' = super
        /\ Invalidated /\ Between
    BY <1>3 DEF Replace, Change
  <2> QED
    BY <2>1, FlushPreserves DEF IInv, TypeInv
<1>4. ASSUME NEW pa \in Addresses, NEW kind \in Patches, Patch(pa, kind) PROVE IInv'
  <2>1. /\ code' = [code EXCEPT ![pa] = kind] /\ patched' = patched \cup {pa}
        /\ map' = map /\ super' = super /\ missed' = missed /\ blocks' = blocks
        /\ kept' = kept /\ held = None /\ held' = None /\ ran' = None
    BY <1>4 DEF Patch, Change, Between, ui
  <2>2. \A a \in Addresses : code'[a] = code[a] \/ a \in patched'
    BY <2>1 DEF IInv, TypeInv
  <2>3. TypeInv'
    BY <2>1 DEF IInv, TypeInv
  <2>4. ASSUME NEW s \in 0 .. Slots - 1, Right(blocks[s])
        PROVE  Right(blocks[s])'
    <3>1. Made(blocks[s])'
      BY <2>1, <2>2, <2>4 DEF Right, Made
    <3>2. Placed(blocks[s])' <=> Placed(blocks[s])
      BY <2>1 DEF Placed, Physical
    <3> QED
      BY <2>1, <2>4, <3>1, <3>2 DEF Right
  <2>5. BlocksOK'
    BY <2>1, <2>4 DEF IInv, BlocksOK
  <2>6. AllCompiled'
    BY <2>1 DEF IInv, AllCompiled, Compiled
  <2> QED
    BY <2>1, <2>3, <2>5, <2>6 DEF IInv, HeldOK, StaleExplained, FlagsExplained
<1>5. CASE SetSupervisorMode
  <2>1. super' = TRUE /\ code' = code /\ map' = map /\ Kept /\ Between
    BY <1>5 DEF SetSupervisorMode
  <2> QED
    BY <2>1, TakeOverPreserves DEF IInv, TypeInv
<1>6. CASE Reset
  <2>1. /\ map' = [s \in BOOLEAN |-> [p \in PageNo |-> p]]
        /\ super' = TRUE /\ code' = code /\ Kept /\ Between
    BY <1>6 DEF Reset, Change, PageNo
  <2> QED
    BY <2>1, TakeOverPreserves
<1>7. CASE EditSR
  <2>1. super' = ~ super /\ code' = code /\ map' = map /\ Kept /\ Between
    BY <1>7 DEF EditSR, Change
  <2>2. super' \in BOOLEAN
    BY <2>1, Zenon DEF IInv, TypeInv
  <2> QED
    BY <2>1, <2>2, TakeOverPreserves DEF IInv, TypeInv
<1> QED
  BY <1>1, <1>2, <1>3, <1>4, <1>5, <1>6, <1>7

\* A step that leaves the machine, the cache and the block in hand alone.
LEMMA StayPreserves ==
  ASSUME IInv, code' = code, map' = map, super' = super, patched' = patched,
         missed' = missed, kept' = kept, blocks' = blocks, held' = held,
         ran' = ran \/ ran' = None
  PROVE  IInv'
<1>1. TypeInv'
  BY DEF IInv, TypeInv
<1>2. AllCompiled'
  BY DEF IInv, AllCompiled, Compiled
<1>3. BlocksOK'
  BY RightStays DEF IInv, BlocksOK
<1>4. HeldOK'
  BY RightStays DEF IInv, HeldOK, Compiled
<1>5. StaleExplained' /\ FlagsExplained'
  BY DEF IInv, StaleExplained, FlagsExplained
<1> QED
  BY <1>1, <1>2, <1>3, <1>4, <1>5 DEF IInv

\* The settings window empties the cache under the block in hand, or nothing.
LEMMA SetJitPreserves ==
  ASSUME IInv, NEW on \in BOOLEAN, SetJit(on)
  PROVE  IInv'
<1>1. code' = code /\ map' = map /\ super' = super /\ ran' = None
  BY DEF SetJit
<1>2. CASE on
  <2>1. blocks' = blocks /\ held' = held /\ patched' = patched /\ missed' = missed /\ kept' = kept
    BY <1>2 DEF SetJit, cache
  <2> QED
    BY <1>1, <2>1, StayPreserves
<1>3. CASE ~ on
  <2>1. /\ blocks' = Emptied
        /\ kept' = FALSE
        /\ held' = IF held = None THEN None ELSE [held EXCEPT !.freed = TRUE]
    BY <1>3 DEF SetJit
  <2>2. DOMAIN blocks' = 0 .. Slots - 1 /\ \A s \in 0 .. Slots - 1 : blocks'[s] = None
    BY <2>1 DEF Emptied
  <2>3. held' # None =>
          /\ held # None /\ held' \in [block : Block, pc : Addresses, freed : BOOLEAN]
          /\ held'.block = held.block /\ held'.pc = held.pc /\ held'.freed
    BY <2>1 DEF IInv, TypeInv
  <2>4. TypeInv'
    BY <1>1, <2>1, <2>2, <2>3 DEF IInv, TypeInv
  <2>5. HeldOK'
    BY <1>1, <2>3 DEF IInv, HeldOK, Physical, Compiled
  <2> QED
    BY <1>1, <2>2, <2>4, <2>5 DEF IInv, AllCompiled, BlocksOK, StaleExplained, FlagsExplained
<1> QED
  BY <1>2, <1>3

\* Every step preserves the invariant.
LEMMA NextPreserves == IInv /\ [Next]_vars => IInv'
<1> SUFFICES ASSUME IInv, [Next]_vars PROVE IInv'
  OBVIOUS
<1>1. CASE RunLoop \/ UNCHANGED vars
  <2>1. /\ code' = code /\ map' = map /\ super' = super /\ patched' = patched /\ missed' = missed
        /\ kept' = kept /\ blocks' = blocks /\ held' = held /\ (ran' = ran \/ ran' = None)
    BY <1>1 DEF RunLoop, vars, guest, cache, ui
  <2> QED
    BY <2>1, StayPreserves
<1>2. CASE \E pc \in Entries : Sample(pc)
  BY <1>2, SamplePreserves
<1>3. CASE \E pc \in Addresses : Lookup(pc)
  BY <1>3, LookupPreserves
<1>4. CASE \E hits \in SUBSET Addresses : Run(hits)
  BY <1>4, RunPreserves
<1>5. CASE \/ \E mode \in BOOLEAN, t \in Maps : Remap(mode, t)
           \/ SetSR \/ SetSupervisorMode \/ Reset \/ EditSR
           \/ \E pa \in Addresses, kind \in Patches : Replace(pa, kind) \/ Patch(pa, kind)
  BY <1>5, GuestPreserves
<1>6. CASE \E on \in BOOLEAN : SetJit(on)
  BY <1>6, SetJitPreserves
<1> QED
  BY <1>1, <1>2, <1>3, <1>4, <1>5, <1>6 DEF Next

LEMMA Inductive == Spec => []IInv
  BY InitEstablishes, NextPreserves, PTL DEF Spec

(* A block that runs does what the interpreter would do with the memory    *)
(* and the translation of now, but for the six gaps the property names:   *)
(* for every page size, memory, translation, cache size and threshold.     *)
THEOREM StaleIsExplained == Spec => []StaleExplained
<1>1. IInv => StaleExplained
  BY DEF IInv
<1> QED
  BY <1>1, Inductive, PTL

(* Dropping dead flags changes no flag the guest can see, but for the ones *)
(* set before a final BRA and for X: in blocks of every length.            *)
THEOREM FlagsAreExplained == Spec => []FlagsExplained
<1>1. IInv => FlagsExplained
  BY DEF IInv
<1> QED
  BY <1>1, Inductive, PTL

-----------------------------------------------------------------------------
(* Words and powers of two.                                                *)

\* The widths of the sizes.
LEMMA Widths ==
  /\ Width["b"] \in Nat \ {0} /\ Width["w"] \in Nat \ {0} /\ Width["l"] \in Nat \ {0}
  /\ Width["l"] >= 4 /\ Width["b"] < Width["w"] /\ Width["w"] < Width["l"]
  /\ Width["w"] - Width["b"] = Width["b"] /\ Width["l"] - Width["w"] = Width["w"]
<1>1. ASSUME NEW b \in Nat \ {0}, NEW w, NEW l, w = 2 * b, l = 2 * w
      PROVE  /\ w \in Nat \ {0} /\ l \in Nat \ {0} /\ l >= 4 /\ b < w /\ w < l
             /\ w - b = b /\ l - w = w
  BY <1>1
<1> QED
  BY <1>1, WidthAssumption, Zenon

\* From zero upwards, one step after the other.
LEMMA Climbs ==
  ASSUME NEW n \in Nat, NEW S, 0 \in S, \A m \in 0..n - 1 : m \in S => m + 1 \in S
  PROVE  \A m \in 0..n : m \in S
<1> DEFINE T == {m \in 0..n : m \notin S}
           R == OpToRel(<, Nat)
<1> SUFFICES ASSUME T # {} PROVE FALSE
  OBVIOUS
<1>1. T \in SUBSET Nat
  OBVIOUS
<1>2. IsWellFoundedOn(R, Nat)
  BY NatLessThanWellFounded
<1>3. \A x, y \in Nat : y < x => <<y, x>> \in R
  <2> SUFFICES ASSUME NEW x \in Nat, NEW y \in Nat, y < x PROVE <<y, x>> \in R
    OBVIOUS
  <2> DEFINE ss == <<y, x>>
  <2>1. ss \in Nat \X Nat /\ ss[1] = y /\ ss[2] = x
    OBVIOUS
  <2> HIDE DEF ss
  <2>2. ss \in R
    BY <2>1 DEF OpToRel
  <2> QED
    BY <2>2 DEF ss
<1> HIDE DEF R
<1>4. \E x \in T : \A y \in T : ~ (<<y, x>> \in R)
  <2> HIDE DEF T
  <2> QED
    BY <1>1, <1>2, WFMin
<1>5. PICK x \in T : \A y \in T : ~ (<<y, x>> \in R)
  BY <1>4
<1>6. x \in 1..n /\ x - 1 \in 0..n - 1 /\ (x - 1) + 1 = x /\ x \notin S
  OBVIOUS
<1>7. x - 1 \in T
  BY <1>6
<1>8. <<x - 1, x>> \in R
  BY <1>1, <1>3, <1>6, <1>7
<1> QED
  BY <1>5, <1>7, <1>8

\* A recursion over 0 .. n has a solution.
Solves(f, n, V, z, G) ==
  f \in [0..n -> V] /\ \A k \in 0..n : f[k] = IF k = 0 THEN z ELSE G[k][f[k - 1]]

\* Recursions of one step to the next have a solution.
LEMMA Recursion ==
  ASSUME NEW n \in Nat, NEW V, NEW z \in V, NEW G \in [0..n -> [V -> V]]
  PROVE  \E f : Solves(f, n, V, z, G)
<1> DEFINE Upto(m) == \E f \in [0..n -> V] :
                        \A k \in 0..m : f[k] = IF k = 0 THEN z ELSE G[k][f[k - 1]]
           S == {m \in 0..n : Upto(m)}
<1>1. 0 \in S
  <2> DEFINE f == [k \in 0..n |-> z]
  <2>1. f \in [0..n -> V] /\ \A k \in 0..0 : f[k] = z /\ k = 0
    OBVIOUS
  <2> HIDE DEF f
  <2>2. Upto(0)
    BY <2>1
  <2> QED
    BY <2>2
<1>2. ASSUME NEW m \in 0..n - 1, m \in S PROVE m + 1 \in S
  <2>1. PICK f \in [0..n -> V] :
          \A k \in 0..m : f[k] = IF k = 0 THEN z ELSE G[k][f[k - 1]]
    BY <1>2
  <2> DEFINE g == [k \in 0..n |-> IF k = m + 1 THEN G[k][f[k - 1]] ELSE f[k]]
  <2>2. m + 1 \in 0..n /\ m \in 0..n /\ (m + 1) - 1 = m
    OBVIOUS
  <2>3. f[m] \in V /\ G[m + 1][f[m]] \in V
    BY <2>2
  <2>4. g \in [0..n -> V]
    BY <2>2, <2>3
  <2>5. \A k \in 0..m + 1 : g[k] = IF k = 0 THEN z ELSE G[k][g[k - 1]]
    <3> TAKE k \in 0..m + 1
    <3>1. CASE k = m + 1
      <4>1. g[k] = G[k][f[m]] /\ g[k - 1] = f[m]
        BY <2>2, <3>1
      <4> QED
        BY <3>1, <4>1
    <3>2. CASE k # m + 1
      <4>1. k \in 0..m /\ k \in 0..n /\ g[k] = f[k]
        BY <3>2
      <4>2. k # 0 => k - 1 \in 0..n /\ g[k - 1] = f[k - 1]
        BY <3>2
      <4> QED
        BY <2>1, <4>1, <4>2
    <3> QED
      BY <3>1, <3>2
  <2> HIDE DEF g
  <2> QED
    BY <2>2, <2>4, <2>5
<1> HIDE DEF S
<1>3. n \in S
  <2>1. \A m \in 0..n : m \in S
    BY <1>1, <1>2, Climbs
  <2> QED
    BY <2>1
<1> QED
  BY <1>3 DEF S, Solves

\* The powers of two.
LEMMA PowerUnfolds ==
  \A n \in 0..Width["l"] : /\ Power[n] \in Nat \ {0}
                           /\ Power[n] = IF n = 0 THEN 1 ELSE 2 * Power[n - 1]
<1> DEFINE w == Width["l"]
           V == Nat \ {0}
           G == [k \in 0..w |-> [v \in V |-> 2 * v]]
<1>1. w \in Nat /\ 1 \in V
  BY Widths
<1>2. Power = CHOOSE p : p = [n \in 0..w |-> IF n = 0 THEN 1 ELSE 2 * p[n - 1]]
  BY DEF Power
<1> HIDE DEF w
<1>3. G \in [0..w -> [V -> V]]
  OBVIOUS
<1>4. \A k \in 0..w : \A v \in V : G[k][v] = 2 * v
  OBVIOUS
<1> HIDE DEF V, G
<1>a. PICK f : Solves(f, w, V, 1, G)
  BY <1>1, <1>3, Recursion
<1>5. f \in [0..w -> V] /\ \A k \in 0..w : f[k] = IF k = 0 THEN 1 ELSE G[k][f[k - 1]]
  BY <1>a DEF Solves
<1>6. ASSUME NEW k \in 0..w, k # 0 PROVE k - 1 \in 0..w /\ G[k][f[k - 1]] = 2 * f[k - 1]
  BY <1>1, <1>4, <1>5, <1>6
<1>7. f = [k \in 0..w |-> IF k = 0 THEN 1 ELSE 2 * f[k - 1]]
  BY <1>5, <1>6
<1>8. Power = [n \in 0..w |-> IF n = 0 THEN 1 ELSE 2 * Power[n - 1]]
  BY <1>2, <1>7
<1>9. \A k \in 0..w : Power[k] = IF k = 0 THEN 1 ELSE 2 * Power[k - 1]
  BY <1>8
<1> DEFINE S == {k \in 0..w : Power[k] \in V}
<1>10. 0 \in S
  BY <1>1, <1>9
<1>11. ASSUME NEW m \in 0..w - 1, m \in S PROVE m + 1 \in S
  <2>1. m + 1 \in 0..w /\ m + 1 # 0 /\ (m + 1) - 1 = m /\ Power[m] \in V
    BY <1>1, <1>11
  <2>2. Power[m + 1] = 2 * Power[m]
    BY <1>9, <2>1
  <2> QED
    BY <2>1, <2>2 DEF V
<1> HIDE DEF S
<1>12. \A k \in 0..w : k \in S
  BY <1>1, <1>10, <1>11, Climbs
<1> QED
  BY <1>9, <1>12 DEF S, V, w

Positive == Nat \ {0}

\* Division with a remainder, and the only one.
LEMMA Divides ==
  ASSUME NEW x \in Int, NEW m \in Positive
  PROVE  /\ x % m \in 0..m - 1 /\ x \div m \in Int /\ x = (x \div m) * m + (x % m)
         /\ \A q \in Int, r \in 0..m - 1 : x = q * m + r => q = x \div m /\ r = x % m
<1>0. m \in Int /\ m > 0 /\ m # 0
  BY DEF Positive
<1>1. x % m \in 0..m - 1
  BY <1>0
<1>2. x \div m \in Int
  BY <1>0
<1>3. x % m = x - m * (x \div m)
  BY <1>0, SMTT(60)
<1> DEFINE d == x \div m
           e == x % m
<1>4. x = d * m + e
  BY <1>0, <1>1, <1>2, <1>3
<1> HIDE DEF d, e
<1>5. ASSUME NEW q \in Int, NEW r \in 0..m - 1, x = q * m + r PROVE q = d /\ r = e
  <2>0. d \in Int /\ e \in 0..m - 1
    BY <1>1, <1>2 DEF d, e
  <2>1. (q - d) * m = e - r
    BY <1>0, <1>4, <1>5, <2>0
  <2>2. q - d >= 1 => (q - d) * m >= m
    BY <1>0, <2>0
  <2>3. q - d <= -1 => (q - d) * m <= -m
    <3>1. (d - q - 1) * m = d * m - q * m - m
      BY <1>0, <2>0
    <3>2. (q - d) * m = q * m - d * m
      BY <1>0, <2>0
    <3>3. d - q - 1 \in Nat => (d - q - 1) * m >= 0
      BY <1>0, <2>0
    <3> QED
      BY <1>0, <2>0, <3>1, <3>2, <3>3
  <2>4. q = d
    BY <1>0, <2>0, <2>1, <2>2, <2>3
  <2> QED
    BY <1>0, <1>4, <1>5, <2>0, <2>4
<1> QED
  BY <1>1, <1>2, <1>4, <1>5 DEF d, e

\* Multiples of the modulus do not times.
LEMMA Multiples ==
  ASSUME NEW x \in Int, NEW k \in Int, NEW m \in Positive
  PROVE  (x + k * m) % m = x % m
<1> DEFINE d == x \div m
           e == x % m
<1>0. m \in Int /\ m > 0
  BY DEF Positive
<1>1. d \in Int /\ e \in 0..m - 1 /\ x = d * m + e
  BY Divides DEF d, e
<1> HIDE DEF d, e
<1>2. x + k * m = (d + k) * m + e /\ x + k * m \in Int
  BY <1>0, <1>1
<1>3. d + k \in Int
  BY <1>1
<1>4. e = (x + k * m) % m
  BY <1>1, <1>2, <1>3, Divides
<1> QED
  BY <1>4 DEF e

\* A remainder of what is already small is the number itself.
LEMMA Small ==
  ASSUME NEW m \in Positive, NEW x \in 0..m - 1
  PROVE  x % m = x /\ x \div m = 0
<1>1. x \in Int /\ x = 0 * m + x /\ 0 \in Int
  BY DEF Positive
<1> QED
  BY <1>1, Divides

\* Remainders may be taken of the parts of a sum or a product.
LEMMA Parts ==
  ASSUME NEW x \in Int, NEW y \in Int, NEW m \in Positive
  PROVE  /\ ((x % m) + y) % m = (x + y) % m
         /\ (x + (y % m)) % m = (x + y) % m
         /\ ((x % m) * y) % m = (x * y) % m
<1> DEFINE d == x \div m
           e == x % m
           c == y \div m
           f == y % m
<1>0. m \in Int /\ m > 0
  BY DEF Positive
<1>1. d \in Int /\ e \in Int /\ x = d * m + e
  BY <1>0, Divides DEF d, e
<1>2. c \in Int /\ f \in Int /\ y = c * m + f
  BY <1>0, Divides DEF c, f
<1> HIDE DEF d, e, c, f
<1>3. x + y = (e + y) + d * m /\ e + y \in Int
  BY <1>0, <1>1
<1>4. x + y = (x + f) + c * m /\ x + f \in Int
  BY <1>0, <1>2
<1>5. x * y = e * y + (d * y) * m /\ e * y \in Int /\ d * y \in Int
  <2>0. e * y \in Int /\ d * y \in Int
    BY <1>1
  <2>1. x * y = (d * m + e) * y
    BY <1>1
  <2>2. (d * m + e) * y = e * y + (d * m) * y
    BY <1>0, <1>1
  <2>3. (d * m) * y = (d * y) * m
    BY <1>0, <1>1
  <2> QED
    BY <2>0, <2>1, <2>2, <2>3, Zenon
<1>6. (x + y) % m = (e + y) % m /\ (x + y) % m = (x + f) % m
  BY <1>1, <1>2, <1>3, <1>4, Multiples
<1>7. (x * y) % m = (e * y) % m
  BY <1>5, Multiples
<1> QED
  BY <1>6, <1>7 DEF e, f

\* Powers of a sum.
LEMMA PowerSplits ==
  ASSUME NEW k \in 0..Width["l"], NEW j \in 0..Width["l"] - k
  PROVE  k + j \in 0..Width["l"] /\ Power[k + j] = Power[j] * Power[k]
<1> DEFINE w == Width["l"]
           S == {i \in 0..w - k : Power[k + i] = Power[i] * Power[k]}
<1>0. w \in Nat /\ k \in 0..w /\ w - k \in Nat
  BY Widths
<1>1. \A n \in 0..w : Power[n] \in Positive /\ Power[n] = IF n = 0 THEN 1 ELSE 2 * Power[n - 1]
  BY PowerUnfolds DEF Positive
<1> HIDE DEF w
<1>2. 0 \in S
  <2>1. Power[0] = 1 /\ Power[k] \in Int /\ k + 0 = k
    BY <1>0, <1>1 DEF Positive
  <2>2. Power[k] = 1 * Power[k]
    BY <2>1
  <2> QED
    BY <1>0, <2>1, <2>2
<1>3. ASSUME NEW i \in 0..(w - k) - 1, i \in S PROVE i + 1 \in S
  <2>1. /\ i + 1 \in 0..w /\ i + 1 # 0 /\ (i + 1) - 1 = i /\ i \in 0..w /\ i + 1 \in 0..w - k
        /\ k + (i + 1) \in 0..w /\ k + (i + 1) # 0 /\ (k + (i + 1)) - 1 = k + i
        /\ k + i \in 0..w
    BY <1>0
  <2>2. Power[i + 1] = 2 * Power[i] /\ Power[k + (i + 1)] = 2 * Power[k + i]
    BY <1>1, <2>1
  <2>3. Power[k + i] = Power[i] * Power[k]
    BY <1>3
  <2>4. Power[i] \in Int /\ Power[k] \in Int
    BY <1>0, <1>1, <2>1 DEF Positive
  <2>5. 2 * (Power[i] * Power[k]) = (2 * Power[i]) * Power[k]
    BY <2>4
  <2> QED
    BY <2>1, <2>2, <2>3, <2>5
<1> HIDE DEF S
<1>4. \A i \in 0..w - k : i \in S
  BY <1>0, <1>2, <1>3, Climbs
<1>5. j \in S
  BY <1>4 DEF w
<1> QED
  BY <1>0, <1>5 DEF S, w

\* Powers of two grow with their exponents.
LEMMA PowersGrow ==
  ASSUME NEW k \in 0..Width["l"], NEW n \in 0..Width["l"], k <= n
  PROVE  /\ n - k \in 0..Width["l"] /\ Power[n - k] \in Positive /\ Power[k] \in Positive
         /\ Power[n] = Power[n - k] * Power[k] /\ Power[k] <= Power[n]
<1>0. Width["l"] \in Nat
  BY Widths
<1>1. n - k \in 0..Width["l"] - k /\ n - k \in 0..Width["l"] /\ k + (n - k) = n
  BY <1>0
<1>2. Power[n] = Power[n - k] * Power[k]
  BY <1>1, PowerSplits, Zenon
<1>3. Power[n - k] \in Positive /\ Power[k] \in Positive
  BY <1>1, PowerUnfolds DEF Positive
<1>4. ASSUME NEW x \in Positive, NEW y \in Positive PROVE y <= x * y
  <2>1. x * y = y + (x - 1) * y /\ (x - 1) * y >= 0
    BY DEF Positive
  <2>2. x * y \in Int /\ (x - 1) * y \in Int /\ y \in Int
    BY DEF Positive
  <2> QED
    BY <2>1, <2>2
<1> QED
  BY <1>1, <1>2, <1>3, <1>4

\* The moduli.
LEMMA Moduli ==
  /\ \A s \in Sizes : Modulus[s] \in Positive /\ Modulus[s] = Power[Width[s]]
  /\ \A s \in Sizes : \E h \in Positive : Modulus[s] = 2 * h
  /\ Modulus["w"] = Modulus["b"] * Modulus["b"]
  /\ Modulus["l"] = Modulus["w"] * Modulus["w"]
  /\ \A s \in Sizes : Modulus[s] <= Modulus["l"] /\ \E k \in Positive : Modulus["l"] = k * Modulus[s]
<1>1. \A s \in Sizes : Width[s] \in 0..Width["l"] /\ Width[s] # 0
  BY Widths DEF Sizes
<1>2. \A s \in Sizes : Modulus[s] = Power[Width[s]]
  BY DEF Modulus
<1>3. \A s \in Sizes : Modulus[s] \in Positive
  BY <1>1, <1>2, PowerUnfolds DEF Positive
<1>4. ASSUME NEW s \in Sizes PROVE \E h \in Positive : Modulus[s] = 2 * h
  <2>1. Width[s] - 1 \in 0..Width["l"] /\ Modulus[s] = 2 * Power[Width[s] - 1]
    BY <1>1, <1>2, PowerUnfolds, Widths
  <2> QED
    BY <2>1, PowerUnfolds DEF Positive
<1>5. Modulus["w"] = Modulus["b"] * Modulus["b"] /\ Modulus["l"] = Modulus["w"] * Modulus["w"]
  <2>1. "b" \in Sizes /\ "w" \in Sizes /\ "l" \in Sizes
    BY DEF Sizes
  <2>2. Power[Width["w"]] = Power[Width["w"] - Width["b"]] * Power[Width["b"]]
    BY <1>1, <2>1, Widths, PowersGrow
  <2>3. Power[Width["l"]] = Power[Width["l"] - Width["w"]] * Power[Width["w"]]
    BY <1>1, <2>1, Widths, PowersGrow
  <2> QED
    BY <1>2, <2>1, <2>2, <2>3, Widths
<1>6. ASSUME NEW s \in Sizes
      PROVE  Modulus[s] <= Modulus["l"] /\ \E k \in Positive : Modulus["l"] = k * Modulus[s]
  <2>1. "l" \in Sizes
    BY DEF Sizes
  <2>2. Width["l"] \in 0..Width["l"] /\ Width[s] <= Width["l"] /\ Width[s] \in 0..Width["l"]
    BY <1>1, Widths
  <2>3. /\ Power[Width["l"] - Width[s]] \in Positive
        /\ Power[Width["l"]] = Power[Width["l"] - Width[s]] * Power[Width[s]]
        /\ Power[Width[s]] <= Power[Width["l"]]
    BY <2>2, PowersGrow
  <2>4. Modulus[s] = Power[Width[s]] /\ Modulus["l"] = Power[Width["l"]]
    BY <1>2, <2>1
  <2> QED
    BY <2>3, <2>4
<1> QED
  BY <1>2, <1>3, <1>4, <1>5, <1>6, Zenon

-----------------------------------------------------------------------------
(* The operators &, | and ^, bit by bit.                                   *)

\* The bits below a power of two are those of the remainder.
LEMMA LowBits ==
  ASSUME NEW v \in Int, NEW k \in 0..Width["l"], NEW j \in 0..Width["l"]
  PROVE  /\ j < k => HasBit(v % Power[k], j) = HasBit(v, j)
         /\ j >= k => ~ HasBit(v % Power[k], j)
<1> DEFINE P == Power[k]
           Q == Power[j]
           e == v % P
<1>0. P \in Positive /\ Q \in Positive
  BY PowerUnfolds DEF Positive
<1>1. e \in 0..P - 1 /\ v \div P \in Int /\ v = (v \div P) * P + e
  BY <1>0, Divides
<1>2. CASE j < k
  <2>1. j + 1 \in 0..Width["l"] /\ j + 1 <= k
    BY <1>2, Widths
  <2> DEFINE R == Power[k - (j + 1)]
             d == v \div P
             q == e \div Q
             r == e % Q
  <2>2. R \in Positive /\ P = R * Power[j + 1]
    BY <2>1, PowersGrow
  <2>3. Power[j + 1] = 2 * Q
    BY <2>1, PowerUnfolds
  <2>4. q \in Int /\ r \in 0..Q - 1 /\ e = q * Q + r
    <3>1. e \in Int
      BY <1>0, <1>1 DEF Positive
    <3> HIDE DEF e, Q
    <3> QED
      BY <1>0, <3>1, Divides
  <2>5. d \in Int /\ v = d * P + e
    BY <1>1
  <2>e. HasBit(v % P, j) = (q % 2 = 1) /\ HasBit(v, j) = ((v \div Q) % 2 = 1)
    BY DEF HasBit
  <2> HIDE DEF R, d, q, r, P, Q, e
  <2>6. /\ P \in Int /\ Q \in Int /\ R \in Int /\ d \in Int /\ q \in Int /\ r \in Int
        /\ d * R \in Int
    BY <1>0, <2>2, <2>4, <2>5 DEF Positive
  <2>7. v = (q + (d * R) * 2) * Q + r
    <3>1. P = R * (2 * Q)
      BY <2>2, <2>3
    <3>2. d * (R * (2 * Q)) = ((d * R) * 2) * Q
      BY <2>6
    <3>3. v = ((d * R) * 2) * Q + (q * Q + r)
      BY <2>4, <2>5, <3>1, <3>2
    <3>4. (q + (d * R) * 2) * Q = q * Q + ((d * R) * 2) * Q
      BY <2>6
    <3>5. ((d * R) * 2) * Q \in Int /\ q * Q \in Int
      BY <2>6
    <3> QED
      BY <2>6, <3>3, <3>4, <3>5
  <2>8. q + (d * R) * 2 \in Int
    BY <2>6
  <2>9. v \div Q = q + (d * R) * 2
    BY <1>0, <2>4, <2>7, <2>8, Divides
  <2>10. (q + (d * R) * 2) % 2 = q % 2
    <3>1. 2 \in Positive
      BY DEF Positive
    <3> QED
      BY <2>6, <3>1, Multiples
  <2> QED
    BY <1>2, <2>e, <2>9, <2>10 DEF P, Q, e
<1>3. CASE j >= k
  <2>1. P <= Q
    BY <1>3, PowersGrow
  <2> HIDE DEF e, P, Q
  <2>2. e \in 0..Q - 1
    BY <1>0, <1>1, <2>1 DEF Positive
  <2>3. e \div Q = 0
    BY <1>0, <2>2, Small
  <2>4. HasBit(v % P, j) <=> ((e \div Q) % 2 = 1)
    BY DEF HasBit, e, Q
  <2>5. ~ (0 % 2 = 1)
    OBVIOUS
  <2>6. ~ HasBit(v % Power[k], j)
    BY <2>3, <2>4, <2>5, Zenon DEF P
  <2> QED
    BY <1>3, <2>6
<1> QED
  BY <1>2, <1>3 DEF P

Operators == {"And", "Or", "Eor"}

\* What bit n adds.
Added(kind, a, b, n) == IF Gate(kind, HasBit(a, n), HasBit(b, n)) THEN Power[n] ELSE 0

\* Its sums.
Sums(f, kind, a, b) ==
  /\ f \in [0..Width["l"] -> Int]
  /\ \A n \in 0..Width["l"] : f[n] = IF n = 0 THEN 0 ELSE f[n - 1] + Added(kind, a, b, n - 1)

\* The recursion of the operators &, | and ^, unfolded.
LEMMA LogicUnfolds ==
  ASSUME NEW kind, NEW a, NEW b
  PROVE  \E f : Sums(f, kind, a, b) /\ Logic(kind, a, b) = f[Width["l"]]
<1> DEFINE w == Width["l"]
           low == CHOOSE f : f = [n \in 0..w |-> IF n = 0 THEN 0
                                                 ELSE f[n - 1] + Added(kind, a, b, n - 1)]
<1>1. w \in Nat /\ 0 \in Int
  BY Widths
<1>2. Logic(kind, a, b) = low[w]
  BY DEF Logic, Added
<1> HIDE DEF w, low
<1>a. \A k \in 0..w : k # 0 => k - 1 \in 0..w /\ Added(kind, a, b, k - 1) \in Int
  BY <1>1, PowerUnfolds DEF Added, w
<1> DEFINE H == [k \in 0..w |-> IF k = 0 THEN 0 ELSE Added(kind, a, b, k - 1)]
           I == [k \in 0..w |-> [v \in Int |-> v + H[k]]]
<1>3. H \in [0..w -> Int] /\ \A k \in 0..w : k # 0 => H[k] = Added(kind, a, b, k - 1)
  BY <1>a
<1> HIDE DEF H
<1>4. I \in [0..w -> [Int -> Int]] /\ \A k \in 0..w : \A v \in Int : I[k][v] = v + H[k]
  BY <1>3
<1> HIDE DEF I
<1>b. PICK f : Solves(f, w, Int, 0, I)
  BY <1>1, <1>4, Recursion
<1>5. f \in [0..w -> Int] /\ \A k \in 0..w : f[k] = IF k = 0 THEN 0 ELSE I[k][f[k - 1]]
  BY <1>b DEF Solves
<1>6. ASSUME NEW k \in 0..w, k # 0
      PROVE  k - 1 \in 0..w /\ I[k][f[k - 1]] = f[k - 1] + Added(kind, a, b, k - 1)
  <2>1. k - 1 \in 0..w /\ H[k] = Added(kind, a, b, k - 1)
    BY <1>a, <1>3, <1>6
  <2>2. f[k - 1] \in Int
    BY <1>5, <2>1
  <2>3. I[k][f[k - 1]] = f[k - 1] + H[k]
    BY <1>4, <2>2
  <2> QED
    BY <2>1, <2>3
<1>7. \A k \in 0..w : f[k] = IF k = 0 THEN 0 ELSE f[k - 1] + Added(kind, a, b, k - 1)
  BY <1>5, <1>6
<1>8. f = [k \in 0..w |-> IF k = 0 THEN 0 ELSE f[k - 1] + Added(kind, a, b, k - 1)]
  BY <1>5, <1>7
<1>9. low = [k \in 0..w |-> IF k = 0 THEN 0 ELSE low[k - 1] + Added(kind, a, b, k - 1)]
  BY <1>8 DEF low
<1>10. \A k \in 0..w : low[k] = IF k = 0 THEN 0 ELSE low[k - 1] + Added(kind, a, b, k - 1)
  BY <1>9
<1> DEFINE S == {k \in 0..w : low[k] \in Int}
<1>11. 0 \in S
  BY <1>1, <1>10
<1>12. ASSUME NEW m \in 0..w - 1, m \in S PROVE m + 1 \in S
  <2>1. m + 1 \in 0..w /\ m + 1 # 0 /\ (m + 1) - 1 = m /\ low[m] \in Int
    BY <1>1, <1>12
  <2>2. low[m + 1] = low[m] + Added(kind, a, b, m) /\ Added(kind, a, b, m) \in Int
    BY <1>a, <1>10, <2>1
  <2> QED
    BY <2>1, <2>2
<1> HIDE DEF S
<1>13. \A k \in 0..w : k \in S
  BY <1>1, <1>11, <1>12, Climbs
<1>14. low \in [0..w -> Int]
  BY <1>9, <1>13 DEF S
<1>15. Sums(low, kind, a, b)
  BY <1>10, <1>14 DEF Sums, w
<1> QED
  BY <1>2, <1>15 DEF w

\* Sums of the same are the same.
LEMMA SumsAgree ==
  ASSUME NEW f, NEW kind, NEW a, NEW b, Sums(f, kind, a, b),
         NEW g, NEW c, NEW d, Sums(g, kind, c, d), NEW k \in 0..Width["l"],
         \A n \in 0..k - 1 : Added(kind, a, b, n) = Added(kind, c, d, n)
  PROVE  f[k] = g[k]
<1> DEFINE S == {n \in 0..k : f[n] = g[n]}
<1>1. k \in Nat /\ \A n \in 0..k : n \in 0..Width["l"]
  BY Widths
<1>2. 0 \in S
  BY <1>1 DEF Sums
<1>3. ASSUME NEW m \in 0..k - 1, m \in S PROVE m + 1 \in S
  <2>1. m + 1 \in 0..k /\ m + 1 # 0 /\ (m + 1) - 1 = m /\ m + 1 \in 0..Width["l"] /\ f[m] = g[m]
    BY <1>1, <1>3
  <2>2. f[m + 1] = f[m] + Added(kind, a, b, m)
    BY <2>1 DEF Sums
  <2>3. g[m + 1] = g[m] + Added(kind, c, d, m)
    BY <2>1 DEF Sums
  <2>4. Added(kind, a, b, m) = Added(kind, c, d, m)
    OBVIOUS
  <2> QED
    BY <2>1, <2>2, <2>3, <2>4
<1> HIDE DEF S
<1>4. \A n \in 0..k : n \in S
  BY <1>1, <1>2, <1>3, Climbs
<1>5. k \in S
  BY <1>1, <1>4
<1> QED
  BY <1>5 DEF S

\* What bit n adds is nothing or a power of two.
LEMMA AddedIs ==
  ASSUME NEW kind, NEW a, NEW b, NEW n \in 0..Width["l"]
  PROVE  Added(kind, a, b, n) \in {0, Power[n]}
  BY DEF Added

\* The sum of the bits below k is the remainder by a power of two.
LEMMA SumsCut ==
  ASSUME NEW f, NEW kind, NEW a, NEW b, Sums(f, kind, a, b), NEW k \in 0..Width["l"]
  PROVE  /\ f[k] \in 0..Power[k] - 1
         /\ \A n \in k..Width["l"] : f[n] % Power[k] = f[k]
<1> DEFINE w == Width["l"]
           S == {n \in 0..w : f[n] \in 0..Power[n] - 1}
           T == {n \in 0..w : n >= k => f[n] % Power[k] = f[k]}
<1>1. w \in Nat
  BY Widths
<1>2. \A n \in 0..w : Power[n] \in Positive /\ Power[n] = IF n = 0 THEN 1 ELSE 2 * Power[n - 1]
  BY PowerUnfolds DEF Positive
<1>3. ASSUME NEW m \in 0..w - 1
      PROVE  /\ m + 1 \in 0..w /\ m \in 0..w /\ f[m] \in Int
             /\ Power[m + 1] = 2 * Power[m] /\ Power[m] \in Positive
             /\ f[m + 1] = f[m] + Added(kind, a, b, m)
             /\ Added(kind, a, b, m) \in {0, Power[m]}
  <2>1. m + 1 \in 0..w /\ m + 1 # 0 /\ (m + 1) - 1 = m /\ m \in 0..w
    BY <1>1
  <2>2. f[m] \in Int /\ f[m + 1] = f[m] + Added(kind, a, b, m)
    BY <2>1 DEF Sums
  <2> QED
    BY <1>2, <2>1, <2>2, AddedIs
<1>4. 0 \in 0..w /\ f[0] = 0 /\ Power[0] = 1
  BY <1>1, <1>2 DEF Sums
<1> HIDE DEF w
<1>5. 0 \in S
  BY <1>4
<1>6. ASSUME NEW m \in 0..w - 1, m \in S PROVE m + 1 \in S
  <2>1. f[m] \in 0..Power[m] - 1
    BY <1>6
  <2> QED
    BY <1>3, <2>1 DEF Positive
<1> HIDE DEF S
<1>7. \A n \in 0..w : n \in S
  BY <1>1, <1>5, <1>6, Climbs
<1>8. k \in 0..w /\ f[k] \in 0..Power[k] - 1
  BY <1>7 DEF S, w
<1>9. f[k] % Power[k] = f[k]
  BY <1>2, <1>8, Small
<1>10. 0 \in T
  <2>1. 0 >= k => k = 0
    BY <1>1, <1>8
  <2> QED
    BY <1>4, <1>9, <2>1
<1>11. ASSUME NEW m \in 0..w - 1, m \in T PROVE m + 1 \in T
  <2>1. CASE m + 1 < k
    BY <1>3, <1>8, <2>1
  <2>2. CASE m + 1 = k
    BY <1>3, <1>8, <1>9, <2>2
  <2>3. CASE m >= k
    <3>1. f[m] % Power[k] = f[k]
      BY <1>11, <2>3
    <3>2. /\ Power[m - k] \in Positive /\ Power[k] \in Positive
          /\ Power[m] = Power[m - k] * Power[k]
      BY <1>3, <2>3, PowersGrow DEF w
    <3>3. CASE Added(kind, a, b, m) = 0
      BY <1>3, <3>1, <3>3
    <3>4. CASE Added(kind, a, b, m) = Power[m]
      <4>1. f[m + 1] = f[m] + Power[m - k] * Power[k]
        BY <1>3, <3>2, <3>4
      <4>2. (f[m] + Power[m - k] * Power[k]) % Power[k] = f[m] % Power[k]
        <5>1. f[m] \in Int /\ Power[m - k] \in Int
          BY <1>3, <3>2 DEF Positive
        <5> QED
          BY <3>2, <5>1, Multiples
      <4> QED
        BY <1>3, <3>1, <4>1, <4>2
    <3> QED
      BY <1>3, <3>3, <3>4
  <2> QED
    BY <1>3, <1>8, <2>1, <2>2, <2>3
<1> HIDE DEF T
<1>12. \A n \in 0..w : n \in T
  BY <1>1, <1>10, <1>11, Climbs
<1>13. \A n \in k..w : n \in 0..w /\ n >= k
  BY <1>1, <1>8
<1> QED
  BY <1>8, <1>12, <1>13 DEF T, w

\* The operators work on each bit by itself: it is the same to cut the operands
\* or the result.
LEMMA LogicCuts ==
  ASSUME NEW kind \in Operators, NEW a \in Int, NEW b \in Int, NEW s \in Sizes
  PROVE  Logic(kind, a % Modulus[s], b % Modulus[s]) = Logic(kind, a, b) % Modulus[s]
<1> DEFINE w == Width["l"]
           k == Width[s]
           c == a % Power[k]
           d == b % Power[k]
<1>1. k \in 0..w /\ w \in Nat /\ w \in k..w
  BY Widths DEF Sizes
<1>2. Modulus[s] = Power[k]
  BY Moduli
<1>3. PICK f : Sums(f, kind, a, b) /\ Logic(kind, a, b) = f[w]
  BY LogicUnfolds
<1>4. PICK g : Sums(g, kind, c, d) /\ Logic(kind, c, d) = g[w]
  BY LogicUnfolds
<1>5. f[w] % Power[k] = f[k]
  BY <1>1, <1>3, SumsCut
<1>6. ASSUME NEW n \in 0..w
      PROVE  /\ n < k => HasBit(c, n) = HasBit(a, n) /\ HasBit(d, n) = HasBit(b, n)
             /\ n >= k => ~ HasBit(c, n) /\ ~ HasBit(d, n)
  BY <1>1, LowBits
<1> HIDE DEF c, d
<1>7. f[k] = g[k]
  <2>1. ASSUME NEW n \in 0..k - 1 PROVE Added(kind, a, b, n) = Added(kind, c, d, n)
    <3>1. n \in 0..w /\ n < k
      BY <1>1
    <3>2. HasBit(c, n) = HasBit(a, n) /\ HasBit(d, n) = HasBit(b, n)
      BY <1>6, <3>1
    <3> QED
      BY <3>2, Zenon DEF Added
  <2> QED
    BY <1>1, <1>3, <1>4, <2>1, SumsAgree DEF w
<1>8. g[w] = g[k]
  <2> DEFINE S == {n \in 0..w : n >= k => g[n] = g[k]}
  <2>1. 0 \in S
    BY <1>1
  <2>2. ASSUME NEW m \in 0..w - 1, m \in S PROVE m + 1 \in S
    <3>1. /\ m + 1 \in 0..w /\ m + 1 # 0 /\ (m + 1) - 1 = m /\ m \in 0..w
      BY <1>1
    <3>2. g[m] \in Int /\ g[m + 1] = g[m] + Added(kind, c, d, m)
      BY <1>4, <3>1 DEF Sums
    <3>3. CASE m >= k
      <4>1. ~ HasBit(c, m) /\ ~ HasBit(d, m)
        BY <1>6, <3>1, <3>3
      <4>2. ~ Gate(kind, HasBit(c, m), HasBit(d, m))
        BY <4>1 DEF Gate, Operators, HasBit
      <4>3. Added(kind, c, d, m) = 0
        BY <4>2 DEF Added
      <4> QED
        BY <2>2, <3>1, <3>2, <3>3, <4>3
    <3>4. CASE m + 1 = k
      BY <3>1, <3>4
    <3>5. CASE m + 1 < k
      BY <1>1, <3>1, <3>5
    <3> QED
      BY <1>1, <3>1, <3>3, <3>4, <3>5
  <2> HIDE DEF S
  <2>3. \A n \in 0..w : n \in S
    BY <1>1, <2>1, <2>2, Climbs
  <2> QED
    BY <1>1, <2>3 DEF S
<1> QED
  BY <1>2, <1>3, <1>4, <1>5, <1>7, <1>8 DEF c, d

\* The operators give a word.
LEMMA LogicIs ==
  ASSUME NEW kind, NEW a, NEW b
  PROVE  Logic(kind, a, b) \in Long
<1>1. PICK f : Sums(f, kind, a, b) /\ Logic(kind, a, b) = f[Width["l"]]
  BY LogicUnfolds
<1>2. Width["l"] \in 0..Width["l"] /\ "l" \in Sizes
  BY Widths DEF Sizes
<1>3. f[Width["l"]] \in 0..Power[Width["l"]] - 1
  BY <1>1, <1>2, SumsCut
<1> QED
  BY <1>1, <1>2, <1>3, Moduli DEF Long

\* The exclusive or is that of its operands in either order.
LEMMA EorCommutes ==
  ASSUME NEW a, NEW b
  PROVE  Logic("Eor", a, b) = Logic("Eor", b, a)
<1>1. PICK f : Sums(f, "Eor", a, b) /\ Logic("Eor", a, b) = f[Width["l"]]
  BY LogicUnfolds
<1>2. PICK g : Sums(g, "Eor", b, a) /\ Logic("Eor", b, a) = g[Width["l"]]
  BY LogicUnfolds
<1>3. \A n : Added("Eor", a, b, n) = Added("Eor", b, a, n)
  BY DEF Added, Gate, HasBit
<1>4. Width["l"] \in 0..Width["l"]
  BY Widths
<1>5. f[Width["l"]] = g[Width["l"]]
  BY <1>1, <1>2, <1>3, <1>4, SumsAgree
<1> QED
  BY <1>1, <1>2, <1>5

-----------------------------------------------------------------------------
(* Shifts: what the single steps leave is a word.                          *)

Bits == {0, 1}

\* A word and the bit pushed out of it.
Pairs(m) == [r : 0..m - 1, c : Bits]

\* One step of either direction.
Push(left, t, in, m) == IF left THEN LeftStep(t, in, m) ELSE RightStep(t, in, m)

Pass(left, in, m, v, times) ==
  CHOOSE p : p = [i \in 0..times |-> IF i = 0 THEN [r |-> v, c |-> 0]
                                     ELSE Push(left, p[i - 1], in, m)]

\* The single steps of a shift stay in the word.
LEMMA PassStays ==
  ASSUME NEW left \in BOOLEAN, NEW in \in Bits, NEW h \in Positive, NEW m, m = 2 * h,
         NEW v \in 0..m - 1, NEW times \in Nat
  PROVE  Pass(left, in, m, v, times)[times] \in Pairs(m)
<1> DEFINE V == Pairs(m)
           z == [r |-> v, c |-> 0]
           G == [k \in 0..times |-> [t \in V |-> Push(left, t, in, m)]]
           pass == Pass(left, in, m, v, times)
<1>1. \A t \in V : Push(left, t, in, m) \in V
  <2> SUFFICES ASSUME NEW t \in V PROVE Push(left, t, in, m) \in V
    OBVIOUS
  <2>1. t.r \in 0..m - 1 /\ t.c \in Bits
    BY DEF Pairs
  <2>2. 2 * t.r + in \in Int /\ m \in Positive
    BY <2>1 DEF Bits, Positive
  <2>3. (2 * t.r + in) % m \in 0..m - 1
    BY <2>2, Divides
  <2>4. LeftStep(t, in, m) \in Pairs(m)
    BY <2>1, <2>3 DEF LeftStep, Word, Bit, Bits, Pairs
  <2>5. m \div 2 = h /\ t.r \div 2 \in 0..h - 1 /\ t.r % 2 \in Bits
    BY <2>1 DEF Bits, Positive
  <2>6. in * h \in {0, h}
    BY DEF Bits, Positive
  <2>7. t.r \div 2 + in * h \in 0..m - 1
    BY <2>5, <2>6 DEF Positive
  <2>8. RightStep(t, in, m) \in Pairs(m)
    BY <2>5, <2>7 DEF RightStep, Pairs
  <2> QED
    BY <2>4, <2>8 DEF Push
<1>2. z \in V
  BY DEF Pairs, Bits
<1>3. pass = CHOOSE p : p = [i \in 0..times |-> IF i = 0 THEN z ELSE Push(left, p[i - 1], in, m)]
  BY DEF Pass
<1> HIDE DEF V, z, pass
<1>4. G \in [0..times -> [V -> V]] /\ \A k \in 0..times : \A t \in V : G[k][t] = Push(left, t, in, m)
  BY <1>1
<1> HIDE DEF G
<1>5. PICK f : Solves(f, times, V, z, G)
  BY <1>2, <1>4, Recursion
<1>6. /\ f \in [0..times -> V]
      /\ \A k \in 0..times : f[k] = IF k = 0 THEN z ELSE G[k][f[k - 1]]
  BY <1>5 DEF Solves
<1>7. ASSUME NEW k \in 0..times, k # 0
      PROVE  G[k][f[k - 1]] = Push(left, f[k - 1], in, m)
  <2>1. k - 1 \in 0..times
    BY <1>7
  <2>2. f[k - 1] \in V
    BY <1>6, <2>1
  <2> QED
    BY <1>4, <2>2
<1>8. f = [k \in 0..times |-> IF k = 0 THEN z ELSE Push(left, f[k - 1], in, m)]
  BY <1>6, <1>7
<1>9. pass = [k \in 0..times |-> IF k = 0 THEN z ELSE Push(left, pass[k - 1], in, m)]
  BY <1>3, <1>8
<1>10. \A k \in 0..times : pass[k] = IF k = 0 THEN z ELSE Push(left, pass[k - 1], in, m)
  BY <1>9
<1> DEFINE S == {k \in 0..times : pass[k] \in V}
<1>11. 0 \in S
  BY <1>2, <1>10
<1>12. ASSUME NEW n \in 0..times - 1, n \in S PROVE n + 1 \in S
  <2>1. n + 1 \in 0..times /\ n + 1 # 0 /\ (n + 1) - 1 = n /\ pass[n] \in V
    BY <1>12
  <2>2. pass[n + 1] = Push(left, pass[n], in, m)
    BY <1>10, <2>1
  <2> QED
    BY <1>1, <2>1, <2>2
<1> HIDE DEF S
<1>13. \A k \in 0..times : k \in S
  BY <1>11, <1>12, Climbs
<1>14. times \in S
  BY <1>13
<1> QED
  BY <1>14 DEF S, V, pass

ShiftOps == {"Asl", "Asr", "Lsl", "Lsr"}

\* A shift gives a word and flags.
LEMMA ShifterIs ==
  ASSUME NEW kind \in ShiftOps, NEW v \in Long, NEW times \in Nat
  PROVE  Shifter(kind, v, times) \in [result : Long, ccr : SUBSET XNZVC]
<1> DEFINE m == Modulus["l"]
<1>1. m \in Positive /\ v \in 0..m - 1 /\ Long = 0..m - 1
  BY Moduli DEF Sizes, Long
<1>2. PICK h \in Positive : m = 2 * h
  BY Moduli DEF Sizes
<1> HIDE DEF m
<1>3. ASSUME NEW t \in Pairs(m)
      PROVE  Shifted(t, m) \in [result : Long, ccr : SUBSET XNZVC]
  BY <1>1 DEF Shifted, SetNZFlags, When, Pairs, XNZVC, NZVC
<1>4. Steps(v, 0, times, LAMBDA t : LeftStep(t, 0, m)) = Pass(TRUE, 0, m, v, times)[times]
  BY DEF Steps, Pass, Push
<1>5. \A in : Steps(v, 0, times, LAMBDA t : RightStep(t, in, m)) = Pass(FALSE, in, m, v, times)[times]
  BY DEF Steps, Pass, Push
<1>6. Bit(Negative(v, m)) \in Bits /\ 0 \in Bits /\ TRUE \in BOOLEAN /\ FALSE \in BOOLEAN
  BY DEF Bit, Bits
<1>7. Pass(TRUE, 0, m, v, times)[times] \in Pairs(m)
  BY <1>1, <1>2, <1>6, PassStays
<1>8. \A in \in Bits : Pass(FALSE, in, m, v, times)[times] \in Pairs(m)
  BY <1>1, <1>2, <1>6, PassStays
<1>9. ShiftLeft(v, times, m) \in [result : Long, ccr : SUBSET XNZVC]
  <2>1. Shifted(Pass(TRUE, 0, m, v, times)[times], m) \in [result : Long, ccr : SUBSET XNZVC]
    BY <1>3, <1>7
  <2> QED
    BY <1>4, <2>1 DEF ShiftLeft, When, XNZVC, NZVC
<1>10. ArithShiftRight(v, times, m) \in [result : Long, ccr : SUBSET XNZVC]
  BY <1>3, <1>5, <1>6, <1>8 DEF ArithShiftRight
<1>11. LogicalShiftRight(v, times, m) \in [result : Long, ccr : SUBSET XNZVC]
  BY <1>3, <1>5, <1>6, <1>8 DEF LogicalShiftRight
<1> QED
  BY <1>9, <1>10, <1>11 DEF Shifter, ShiftOps, m

-----------------------------------------------------------------------------
(* Words of the sizes.                                                     *)

\* What the casts of the code give.
LEMMA CastIs ==
  ASSUME NEW s \in Sizes, NEW v \in Int
  PROVE  /\ Cast(v, s) \in 0..Modulus[s] - 1 /\ Cast(v, s) \in Long
         /\ Signed(Cast(v, s), Modulus[s]) \in Int
         /\ Extended(v, s) \in Long /\ Wide(v) \in Long
         /\ v \in 0..Modulus[s] - 1 => Cast(v, s) = v /\ v \in Long
         /\ v \in Long => Wide(v) = v
<1> DEFINE m == Modulus[s]
           n == Modulus["l"]
<1>1. m \in Positive /\ n \in Positive /\ m <= n /\ Long = 0..n - 1
  BY Moduli DEF Sizes, Long
<1> HIDE DEF m, n
<1>2. v % m \in 0..m - 1 /\ v % n \in Long
  BY <1>1, Divides
<1>3. Cast(v, s) = v % m /\ Wide(v) = v % n
  BY DEF Cast, Wide, Word, m, n
<1>4. Signed(v % m, m) \in Int
  BY <1>1, <1>2 DEF Signed, Positive
<1>5. Signed(v % m, m) % n \in Long
  BY <1>1, <1>4, Divides
<1>6. Extended(v, s) = Signed(v % m, m) % n
  BY <1>3 DEF Extended, Word, m, n
<1>7. v \in 0..m - 1 => v % m = v
  BY <1>1, Small
<1>8. v \in 0..n - 1 => v % n = v
  BY <1>1, Small
<1>9. \A x \in 0..m - 1 : x \in Long
  BY <1>1 DEF Positive
<1> QED
  BY <1>1, <1>2, <1>3, <1>4, <1>5, <1>6, <1>7, <1>8, <1>9 DEF m

\* Remainders by the long word may be taken of the parts.
LEMMA WideParts ==
  ASSUME NEW x \in Int, NEW y \in Int
  PROVE  /\ Wide(Wide(x) + y) = Wide(x + y) /\ Wide(x + Wide(y)) = Wide(x + y)
         /\ Wide(Wide(x) * y) = Wide(x * y)
  BY Parts, Moduli DEF Wide, Word, Sizes

\* The low part of a register is replaced.
LEMMA PutIs ==
  ASSUME NEW s \in Sizes, NEW v \in Long, NEW x \in 0..Modulus[s] - 1
  PROVE  Put(v, x, s) \in Long /\ Cast(Put(v, x, s), s) = x /\ Put(v, Cast(v, s), s) = v
<1> DEFINE m == Modulus[s]
           n == Modulus["l"]
           q == v \div m
           r == v % m
<1>1. m \in Positive /\ n \in Positive /\ Long = 0..n - 1
  BY Moduli DEF Sizes, Long
<1>2. PICK k \in Positive : n = k * m
  BY Moduli DEF Sizes
<1>3. Cast(v, s) = r /\ Put(v, x, s) = (v - r) + x /\ Put(v, r, s) = (v - r) + r
  BY DEF Cast, Put
<1>a. x \in 0..m - 1
  OBVIOUS
<1> HIDE DEF m, n
<1>4. v \in Int /\ m \in Int /\ m > 0 /\ k \in Int /\ x \in Int /\ n \in Int
  BY <1>1, <1>2, <1>a DEF Positive
<1>5. q \in Int /\ r \in 0..m - 1 /\ v = q * m + r
  BY <1>1, <1>4, Divides
<1> HIDE DEF q, r
<1>6. (v - r) + x = q * m + x /\ q * m \in Int /\ (q * m) + x \in Int
  BY <1>4, <1>5
<1>7. (q * m + x) % m = x
  BY <1>1, <1>4, <1>5, <1>6, <1>a, Divides
<1>8. q >= 0
  <2> SUFFICES ASSUME q < 0 PROVE FALSE
    BY <1>5
  <2>1. q + 1 <= 0 /\ q + 1 \in Int
    BY <1>5
  <2>2. (q + 1) * m <= 0 /\ (q + 1) * m = q * m + m
    BY <1>4, <1>5, <2>1
  <2> QED
    BY <1>1, <1>4, <1>5, <1>6, <2>2
<1>9. q <= k - 1
  <2> SUFFICES ASSUME q >= k PROVE FALSE
    BY <1>4, <1>5
  <2>1. q * m = k * m + (q - k) * m /\ (q - k) * m >= 0 /\ k * m \in Int /\ (q - k) * m \in Int
    BY <1>4, <1>5
  <2> QED
    BY <1>1, <1>2, <1>4, <1>5, <1>6, <2>1
<1>10. q * m >= 0
  BY <1>4, <1>5, <1>8
<1>11. q * m <= n - m
  <2>1. n - m = q * m + (k - 1 - q) * m /\ (k - 1 - q) * m >= 0 /\ (k - 1 - q) * m \in Int
    BY <1>2, <1>4, <1>5, <1>9
  <2> QED
    BY <1>4, <1>6, <2>1
<1>12. q * m + x \in 0..n - 1
  BY <1>4, <1>6, <1>10, <1>11, <1>a
<1>13. (v - r) + r = v
  BY <1>4, <1>5
<1>14. Cast(q * m + x, s) = (q * m + x) % m
  BY DEF Cast, m
<1> QED
  BY <1>1, <1>3, <1>6, <1>7, <1>12, <1>13, <1>14

\* The halves of a long word change places.
LEMMA SwappedIs ==
  ASSUME NEW v \in Long
  PROVE  Swapped(v) \in Long
<1> DEFINE m == Modulus["w"]
           n == Modulus["l"]
           q == v \div m
           r == v % m
<1>1. m \in Positive /\ n \in Positive /\ n = m * m /\ v \in 0..n - 1
  BY Moduli DEF Sizes, Long
<1>2. Swapped(v) = m * r + q /\ Long = 0..n - 1
  BY DEF Swapped, Long
<1> HIDE DEF m, n
<1>4. v \in Int /\ m \in Int /\ m > 0 /\ n \in Int
  BY <1>1 DEF Positive
<1>5. q \in Int /\ r \in 0..m - 1 /\ v = q * m + r
  BY <1>1, <1>4, Divides
<1> HIDE DEF q, r
<1>8. q >= 0
  <2> SUFFICES ASSUME q < 0 PROVE FALSE
    BY <1>5
  <2>1. q + 1 <= 0 /\ q + 1 \in Int
    BY <1>5
  <2>2. (q + 1) * m <= 0 /\ (q + 1) * m = q * m + m /\ q * m \in Int
    BY <1>4, <1>5, <2>1
  <2> QED
    BY <1>1, <1>4, <1>5, <2>2
<1>9. q <= m - 1
  <2> SUFFICES ASSUME q >= m PROVE FALSE
    BY <1>4, <1>5
  <2>1. q * m = m * m + (q - m) * m /\ (q - m) * m >= 0 /\ m * m \in Int /\ (q - m) * m \in Int
    BY <1>4, <1>5
  <2> QED
    BY <1>1, <1>4, <1>5, <2>1
<1>10. m * r >= 0 /\ m * r \in Int
  BY <1>4, <1>5
<1>11. m * r <= m * m - m
  <2>1. m * m - m = m * r + m * (m - 1 - r) /\ m * (m - 1 - r) >= 0 /\ m * (m - 1 - r) \in Int
    BY <1>4, <1>5
  <2>2. m * m \in Int
    BY <1>4
  <2> QED
    BY <1>4, <1>10, <2>1, <2>2
<1>12. m * r + q \in 0..n - 1
  BY <1>1, <1>4, <1>5, <1>8, <1>9, <1>10, <1>11
<1> QED
  BY <1>2, <1>12

\* Sums and differences, without X, do not depend on the flags.
LEMMA SumIs ==
  ASSUME NEW s \in Sizes, NEW x \in 0..Modulus[s] - 1, NEW y \in 0..Modulus[s] - 1, NEW f
  PROVE  /\ Add(x, y, f, FALSE, Modulus[s]) = Add(x, y, {}, FALSE, Modulus[s])
         /\ Sub(x, y, f, FALSE, Modulus[s]) = Sub(x, y, {}, FALSE, Modulus[s])
         /\ Add(x, y, f, FALSE, Modulus[s]) \in [result : 0..Modulus[s] - 1, ccr : SUBSET XNZVC]
         /\ Sub(x, y, f, FALSE, Modulus[s]) \in [result : 0..Modulus[s] - 1, ccr : SUBSET XNZVC]
<1> DEFINE m == Modulus[s]
<1>1. m \in Positive /\ x \in 0..m - 1 /\ y \in 0..m - 1
  BY Moduli
<1> HIDE DEF m
<1>2. x \in Int /\ y \in Int
  BY <1>1 DEF Positive
<1>3. Bit(FALSE /\ "X" \in f) = 0 /\ Bit(FALSE /\ "X" \in {}) = 0
  BY DEF Bit
<1>4. Word(x + y + 0, m) \in 0..m - 1 /\ Word(x - y - 0, m) \in 0..m - 1
  <2>1. x + y + 0 \in Int /\ x - y - 0 \in Int
    BY <1>2
  <2> QED
    BY <1>1, <2>1, Divides DEF Word
<1>5. Add(x, y, f, FALSE, m) = Add(x, y, {}, FALSE, m) /\ Sub(x, y, f, FALSE, m) = Sub(x, y, {}, FALSE, m)
  BY <1>3, Zenon DEF Add, Sub
<1>6. Add(x, y, f, FALSE, m) \in [result : 0..m - 1, ccr : SUBSET XNZVC]
  BY <1>3, <1>4 DEF Add, SetNZFlags, When, XNZVC, NZVC
<1>7. Sub(x, y, f, FALSE, m) \in [result : 0..m - 1, ccr : SUBSET XNZVC]
  BY <1>3, <1>4 DEF Sub, SetNZFlags, When, XNZVC, NZVC
<1> QED
  BY <1>5, <1>6, <1>7 DEF m

-----------------------------------------------------------------------------
(* Every instruction, in both machines.                                    *)

File   == [Regs -> Long]

State(d, a, f, p) == [d |-> d, a |-> a, ccr |-> f, pc |-> p]

\* The fields an instruction of each kind has.
LEMMA FieldsOf ==
  ASSUME NEW i \in Instructions
  PROVE  /\ i.kind \in Dyadic => i.size \in Sizes /\ i.x \in Regs /\ i.y \in Regs
         /\ i.kind \in Monadic => i.size \in Sizes /\ i.y \in Regs
         /\ i.kind \in Quick => i.size \in Sizes /\ i.x \in Fields /\ i.y \in Regs
         /\ i.kind \in QuickA \cup Shifts => i.x \in Fields /\ i.y \in Regs
         /\ i.kind \in OnOne => i.y \in Regs
         /\ i.kind \in OnTwo => i.x \in Regs /\ i.y \in Regs
         /\ i.kind = "Moveq" => i.x \in Regs /\ i.ext \in Nat
         /\ i.kind \in {"LeaD16"} \cup Loads => i.x \in Regs /\ i.y \in Regs /\ i.ext \in Nat
         /\ i.kind = "LeaD8Xn" => /\ i.x \in Regs /\ i.y \in Regs /\ i.ext \in Nat
                                  /\ i.index \in Regs /\ i.address \in BOOLEAN
                                  /\ i.long \in BOOLEAN /\ i.scale \in Scales
         /\ i.kind = "Branch" => i.size \in {"b", "w"} /\ i.ext \in Nat
         /\ i.kind \in UNION {Dyadic, Monadic, Quick, QuickA, Shifts, OnOne, OnTwo, Loads,
                              {"Moveq", "LeaD16", "LeaD8Xn", "Nop", "Rts", "Branch"}}
<1> USE DEF Insn, Dyadic, Monadic, Quick, QuickA, Shifts, OnOne, OnTwo, Loads
<1>0. Exts \subseteq Nat
  BY GuestAssumption
<1>1. CASE i \in Plain
  BY <1>0, <1>1 DEF Plain
<1>2. CASE i \in Indexed
  BY <1>0, <1>2 DEF Indexed
<1>3. CASE i \in Branches
  BY <1>0, <1>3 DEF Branches
<1> QED
  BY <1>1, <1>2, <1>3 DEF Instructions

\* Where the instruction after this one is.
After(i, p) == Wide(p + 2 + TailBytes(i))

\* An instruction other than a branch does the same in both machines: it leaves
\* registers D and A, writes flags W of those it is said to write, and goes on at P.
Alike(i, d, a, p, D, A, W, P) ==
  /\ D \in File /\ A \in File /\ W \in SUBSET Writes(i) /\ P \in Long
  /\ \A f \in SUBSET XNZVC :
       /\ Interpret(i, State(d, a, f, p)) = State(D, A, (f \ Writes(i)) \cup W, P)
       /\ Execute(Compile(i, p), State(d, a, f, p), TRUE) = State(D, A, (f \ Writes(i)) \cup W, P)
       /\ Execute(Compile(i, p), State(d, a, f, p), FALSE) =
            State(D, A, IF i.kind = "Cmp" THEN (f \ Writes(i)) \cup W ELSE f, P)

\* The machine after the fetch of the opcode.
LEMMA Fetched ==
  ASSUME NEW d, NEW a, NEW f, NEW p
  PROVE  [State(d, a, f, p) EXCEPT !.pc = Wide(@ + 2)] = State(d, a, f, Wide(p + 2))
  BY DEF State

\* The parts of a machine.
LEMMA StateIs ==
  ASSUME NEW d, NEW a, NEW f, NEW p
  PROVE  /\ State(d, a, f, p).d = d /\ State(d, a, f, p).a = a
         /\ State(d, a, f, p).ccr = f /\ State(d, a, f, p).pc = p
  BY DEF State

\* A data register is written.
LEMMA SetDIs ==
  ASSUME NEW d, NEW a, NEW f, NEW p, NEW r, NEW v
  PROVE  SetD(State(d, a, f, p), r, v) = State([d EXCEPT ![r] = v], a, f, p)
  BY DEF State, SetD

\* An address register is written.
LEMMA SetAIs ==
  ASSUME NEW d, NEW a, NEW f, NEW p, NEW r, NEW v
  PROVE  SetA(State(d, a, f, p), r, v) = State(d, [a EXCEPT ![r] = v], f, p)
  BY DEF State, SetA

\* The condition codes are written.
LEMMA SetCCRIs ==
  ASSUME NEW d, NEW a, NEW f, NEW p, NEW g
  PROVE  SetCCR(State(d, a, f, p), g) = State(d, a, g, p)
  BY DEF State, SetCCR

\* The condition codes but X are written.
LEMMA UpdateCCRIs ==
  ASSUME NEW d, NEW a, NEW f, NEW p, NEW g
  PROVE  UpdateCCR(State(d, a, f, p), g) = State(d, a, (f \ NZVC) \cup (g \cap NZVC), p)
<1> DEFINE h == (f \ NZVC) \cup (g \cap NZVC)
<1>a. State(d, a, f, p).ccr = f
  BY StateIs
<1>1. UpdateCCR(State(d, a, f, p), g) = [State(d, a, f, p) EXCEPT !.ccr = h]
  BY <1>a DEF UpdateCCR
<1> HIDE DEF h
<1>2. [State(d, a, f, p) EXCEPT !.ccr = h] = State(d, a, h, p)
  BY DEF State
<1> QED
  BY <1>1, <1>2 DEF h

\* Where the next instruction is, by one addition or by two.
LEMMA AfterIs ==
  ASSUME NEW i, NEW p \in Long
  PROVE  /\ TailBytes(i) \in {0, 2} /\ After(i, p) \in Long /\ Wide(p + 2) \in Long
         /\ Wide(Wide(p + 2) + TailBytes(i)) = After(i, p)
         /\ TailBytes(i) = 0 => After(i, p) = Wide(p + 2)
         /\ p \in Int
<1>1. TailBytes(i) \in {0, 2}
  BY DEF TailBytes
<1>2. p \in Int /\ "l" \in Sizes
  BY Moduli DEF Long, Sizes, Positive
<1>3. p + 2 + TailBytes(i) \in Int /\ p + 2 \in Int /\ TailBytes(i) \in Int
  BY <1>1, <1>2
<1>4. Wide(p + 2 + TailBytes(i)) \in Long /\ Wide(p + 2) \in Long
  BY <1>2, <1>3, CastIs
<1>5. Wide(Wide(p + 2) + TailBytes(i)) = Wide((p + 2) + TailBytes(i))
  BY <1>3, WideParts
<1>6. TailBytes(i) = 0 => p + 2 + TailBytes(i) = p + 2
  BY <1>2
<1> QED
  BY <1>1, <1>2, <1>4, <1>5, <1>6 DEF After

\* What the last step of an op does with what it computed.
LEMMA ExecutedIs ==
  ASSUME NEW i, i.kind \notin {"Rts", "Branch"}, NEW d, NEW a, NEW f, NEW p, NEW D, NEW A, NEW g,
         NEW n \in BOOLEAN,
         Computed(Compile(i, p), State(d, a, f, p)) = State(D, A, g, p)
  PROVE  Execute(Compile(i, p), State(d, a, f, p), n) =
           State(D, A, IF n \/ i.kind = "Cmp" THEN g ELSE f, After(i, p))
<1> DEFINE op == Compile(i, p)
<1>1. op.kind = i.kind /\ op.fallthroughPC = Wide(p + 2 + TailBytes(i))
  BY DEF Compile
<1>2. State(d, a, f, p).ccr = f
  BY DEF State
<1> HIDE DEF op
<1>3. Computed(op, State(d, a, f, p)) = State(D, A, g, p)
  BY DEF op
<1>4. Execute(op, State(d, a, f, p), n) =
        [State(D, A, g, p) EXCEPT !.ccr = IF n \/ i.kind = "Cmp" THEN @ ELSE f,
                                  !.pc  = Wide(p + 2 + TailBytes(i))]
  BY <1>1, <1>2, <1>3 DEF Execute
<1> QED
  BY <1>4 DEF State, After, op

\* From the parts of an instruction to the whole.
LEMMA Together ==
  ASSUME NEW i, i.kind \notin {"Rts", "Branch"}, NEW d, NEW a, NEW p \in Long,
         NEW D \in File, NEW A \in File, NEW W \in SUBSET Writes(i),
         \A f \in SUBSET XNZVC :
           /\ Interpret(i, State(d, a, f, p)) = State(D, A, (f \ Writes(i)) \cup W, After(i, p))
           /\ Computed(Compile(i, p), State(d, a, f, p)) = State(D, A, (f \ Writes(i)) \cup W, p)
  PROVE  Alike(i, d, a, p, D, A, W, After(i, p))
<1>1. After(i, p) \in Long
  BY AfterIs
<1>2. ASSUME NEW f \in SUBSET XNZVC
      PROVE  /\ Execute(Compile(i, p), State(d, a, f, p), TRUE) =
                  State(D, A, IF TRUE \/ i.kind = "Cmp" THEN (f \ Writes(i)) \cup W ELSE f, After(i, p))
             /\ Execute(Compile(i, p), State(d, a, f, p), FALSE) =
                  State(D, A, IF FALSE \/ i.kind = "Cmp" THEN (f \ Writes(i)) \cup W ELSE f, After(i, p))
  <2> DEFINE g == (f \ Writes(i)) \cup W
  <2>1. Computed(Compile(i, p), State(d, a, f, p)) = State(D, A, g, p)
    OBVIOUS
  <2> HIDE DEF g
  <2>2. \A n \in BOOLEAN : Execute(Compile(i, p), State(d, a, f, p), n) =
          State(D, A, IF n \/ i.kind = "Cmp" THEN g ELSE f, After(i, p))
    BY <2>1, ExecutedIs
  <2>3. TRUE \in BOOLEAN /\ FALSE \in BOOLEAN
    OBVIOUS
  <2> QED
    BY <2>2, <2>3, Zenon DEF g
<1> QED
  BY <1>1, <1>2 DEF Alike

\* After an instruction with an extension word.
PastTail(m, i) == [m EXCEPT !.pc = Wide(@ + TailBytes(i))]

\* Which handler an instruction goes to.
LEMMA Dispatched ==
  ASSUME NEW i, NEW d, NEW a, NEW f, NEW p, NEW q, q = Wide(p + 2), NEW n,
         n = Interpret(i, State(d, a, f, p))
  PROVE  LET m == State(d, a, f, q)
             k == i.kind
         IN  /\ k \in {"Add", "Sub", "Cmp"} => n = DecodeArith(i, m)
             /\ k \in {"And", "Or", "Eor"} => n = DecodeLogic(i, m)
             /\ k \in Quick => n = DecodeQuick(i, m)
             /\ k \in QuickA => n = DecodeQuickA(i, m)
             /\ k \in Monadic => n = DecodeMonadic(i, m)
             /\ k \in OnOne => n = DecodeOnOne(i, m)
             /\ k \in Shifts => n = DecodeShift(i, m)
             /\ k \in OnTwo => n = DecodeTwo(i, m)
             /\ k \in Loads => n = PastTail(DecodeLoad(i, m), i)
             /\ k = "Moveq" => n = DecodeMove(Extended(i.ext, "b"), i.x, m)
             /\ k = "LeaD16" => n = PastTail(SetA(m, i.x, Wide(m.a[i.y] + Extended(i.ext, "w"))), i)
             /\ k = "LeaD8Xn" => n = PastTail(SetA(m, i.x, ResolveIndexed(i, m)), i)
             /\ k = "Nop" => n = m
             /\ k = "Rts" => n = [m EXCEPT !.pc = Memory[m.a[SP]], !.a[SP] = Wide(@ + 4)]
             /\ k = "Branch" => n = DecodeBranch(i, m)
<1> DEFINE m == State(d, a, f, q)
<1>1. [State(d, a, f, p) EXCEPT !.pc = Wide(@ + 2)] = m
  BY Fetched
<1> HIDE DEF m
<1> QED
  BY <1>1 DEF Interpret, Quick, QuickA, Monadic, OnOne, Shifts, OnTwo, Loads, PastTail, m

\* The two forms of LEA with an extension word.
LEMMA LeaDispatched ==
  ASSUME NEW i, NEW d, NEW a, NEW f, NEW p
  PROVE  LET m == State(d, a, f, Wide(p + 2))
             n == Interpret(i, State(d, a, f, p))
         IN  /\ i.kind = "LeaD16" => n = PastTail(SetA(m, i.x, Wide(m.a[i.y] + Extended(i.ext, "w"))), i)
             /\ i.kind = "LeaD8Xn" => n = PastTail(SetA(m, i.x, ResolveIndexed(i, m)), i)
BY Dispatched

\* What TryCompile puts into an op, ...
LEMMA OpFields ==
  ASSUME NEW i, NEW p
  PROVE  LET op == Compile(i, p)
         IN  /\ op.kind = i.kind /\ op.size = i.size /\ op.imm = Immediate(i) /\ op.insn = i
             /\ i.kind \in ToX => op.src = i.y /\ op.dst = i.x
             /\ i.kind \notin ToX => op.src = i.x /\ op.dst = i.y
             /\ op.fallthroughPC = After(i, p)
  BY DEF Compile, After

\* ... and what an op computes.
LEMMA OpIs ==
  ASSUME NEW i, NEW p, NEW m
  PROVE  LET op == Compile(i, p)
             n  == Computed(op, m)
             k  == i.kind
         IN  /\ op.kind = k /\ op.size = i.size /\ op.imm = Immediate(i) /\ op.insn = i
             /\ k \in ToX => op.src = i.y /\ op.dst = i.x
             /\ k \notin ToX => op.src = i.x /\ op.dst = i.y
             /\ op.fallthroughPC = After(i, p)
             /\ k \in {"Add", "Sub", "Cmp", "Neg"} \cup Quick => n = JitArith(op, m)
             /\ k \in {"And", "Or", "Eor", "Clr", "Tst", "Not"} => n = JitLogic(op, m)
             /\ k \in OnOne => n = JitOnOne(op, m)
             /\ k \in Shifts => n = JitShift(op, m)
             /\ k \in Loads => n = JitLoad(op, m)
             /\ k = "Moveq" => n = JitToD(op, m, op.imm)
             /\ k = "MoveLDnDm" => n = JitToD(op, m, m.d[op.src])
             /\ k = "MoveLAnDn" => n = JitToD(op, m, m.a[op.src])
             /\ k = "MoveaLDnAn" => n = JitToA(op, m, m.d[op.src])
             /\ k \in {"MoveaLAnAm", "LeaAn"} => n = JitToA(op, m, m.a[op.src])
             /\ k = "AddqAn" => n = JitToA(op, m, Wide(m.a[op.dst] + op.imm))
             /\ k = "SubqAn" => n = JitToA(op, m, Wide(m.a[op.dst] - op.imm))
             /\ k = "LeaD16" => n = JitToA(op, m, Wide(m.a[op.src] + op.imm))
             /\ k = "LeaD8Xn" => n = JitToA(op, m, JitIndex(op, m))
             /\ k \in {"Mulu", "Muls"} => n = JitMul(op, m)
             /\ k = "Btst" => n = JitBtst(op, m)
             /\ k \in {"ExgDnDm", "ExgAnAm", "ExgDnAn"} => n = JitExg(op, m)
             /\ k = "Rts" => n = [m EXCEPT !.a[SP] = Wide(@ + 4)]
             /\ k \in {"Nop", "Branch"} => n = m
<1> DEFINE op == Compile(i, p)
<1>1. /\ op.kind = i.kind /\ op.size = i.size /\ op.imm = Immediate(i) /\ op.insn = i
      /\ i.kind \in ToX => op.src = i.y /\ op.dst = i.x
      /\ i.kind \notin ToX => op.src = i.x /\ op.dst = i.y
      /\ op.fallthroughPC = After(i, p)
  BY OpFields
<1> HIDE DEF op
<1> QED
  BY <1>1 DEF Computed, op, Quick, OnOne, Shifts, Loads

\* Registers of a file.
LEMMA Written ==
  ASSUME NEW d \in File, NEW r \in Regs, NEW v \in Long
  PROVE  /\ [d EXCEPT ![r] = v] \in File /\ d[r] \in Long /\ d[r] \in Int
         /\ [d EXCEPT ![r] = d[r]] = d
<1>1. \A x \in Long : x \in Int
  BY Moduli DEF Long, Sizes, Positive
<1> QED
  BY <1>1 DEF File


\* A sum or a difference, and what is left of it in a register.
Arith(plus, x, y, s) ==
  IF plus THEN Add(x, y, {}, FALSE, Modulus[s]) ELSE Sub(x, y, {}, FALSE, Modulus[s])

\* What a sum or a difference leaves, whatever the flags before.
LEMMA ArithIs ==
  ASSUME NEW plus \in BOOLEAN, NEW s \in Sizes, NEW x \in 0..Modulus[s] - 1,
         NEW y \in 0..Modulus[s] - 1, NEW v \in Long
  PROVE  /\ Arith(plus, x, y, s).ccr \in SUBSET XNZVC
         /\ Cast(Arith(plus, x, y, s).result, s) = Arith(plus, x, y, s).result
         /\ Put(v, Arith(plus, x, y, s).result, s) \in Long
         /\ \A f : /\ plus => Add(x, y, f, FALSE, Modulus[s]) = Arith(plus, x, y, s)
                   /\ ~ plus => Sub(x, y, f, FALSE, Modulus[s]) = Arith(plus, x, y, s)
<1> DEFINE r == Arith(plus, x, y, s)
<1>1. ASSUME NEW f
      PROVE  /\ plus => Add(x, y, f, FALSE, Modulus[s]) = r
             /\ ~ plus => Sub(x, y, f, FALSE, Modulus[s]) = r
  BY SumIs, Zenon DEF Arith
<1>2. r \in [result : 0..Modulus[s] - 1, ccr : SUBSET XNZVC]
  BY SumIs DEF Arith
<1> HIDE DEF r
<1>3. r.ccr \in SUBSET XNZVC /\ r.result \in 0..Modulus[s] - 1
  BY <1>2
<1>4. r.result \in Int
  <2>1. Modulus[s] \in Positive
    BY Moduli
  <2> QED
    BY <1>3, <2>1 DEF Positive
<1>5. Cast(r.result, s) = r.result
  BY <1>3, <1>4, CastIs
<1>6. Put(v, r.result, s) \in Long
  BY <1>3, PutIs
<1> QED
  BY <1>1, <1>3, <1>5, <1>6 DEF r

\* ADD, SUB and CMP.
LEMMA ArithAlike ==
  ASSUME NEW i \in Instructions, i.kind \in {"Add", "Sub", "Cmp"},
         NEW d \in File, NEW a \in File, NEW p \in Long
  PROVE  \E D, A, W, P : Alike(i, d, a, p, D, A, W, P)
<1> DEFINE s == i.size
           u == Cast(d[i.x], s)
           v == Cast(d[i.y], s)
           r == Arith(i.kind = "Add", u, v, s)
           b == Put(d[i.x], r.result, s)
           D == IF i.kind = "Cmp" THEN d ELSE [d EXCEPT ![i.x] = b]
           W == IF i.kind = "Cmp" THEN r.ccr \cap NZVC ELSE r.ccr
           q == Wide(p + 2)
           op == Compile(i, p)
<1>1. s \in Sizes /\ i.x \in Regs /\ i.y \in Regs
  BY FieldsOf DEF Dyadic
<1>2. u \in 0..Modulus[s] - 1 /\ v \in 0..Modulus[s] - 1 /\ d[i.x] \in Long
  BY <1>1, Written, CastIs
<1> HIDE DEF u, v
<1>3. /\ r.ccr \in SUBSET XNZVC /\ Cast(r.result, s) = r.result /\ b \in Long
      /\ \A f : /\ i.kind = "Add" => Add(u, v, f, FALSE, Modulus[s]) = r
                /\ i.kind # "Add" => Sub(u, v, f, FALSE, Modulus[s]) = r
  BY <1>1, <1>2, ArithIs
<1>4. b = Put(d[i.x], r.result, s)
  OBVIOUS
<1> HIDE DEF r, b
<1>5. D \in File
  BY <1>1, <1>3, Written
<1>6. Writes(i) = IF i.kind = "Cmp" THEN NZVC ELSE XNZVC
  BY DEF Writes, Quick, Shifts, QuickA
<1>7. W \in SUBSET Writes(i)
  BY <1>3, <1>6
<1>8. After(i, p) = q
  <2>1. TailBytes(i) = 0
    BY DEF TailBytes
  <2> QED
    BY <2>1, AfterIs
<1>9. /\ op.kind = i.kind /\ op.size = s /\ op.src = i.y /\ op.dst = i.x
      /\ \A n : Computed(op, n) = JitArith(op, n)
  BY OpIs DEF ToX
<1>10. \A f : Interpret(i, State(d, a, f, p)) = DecodeArith(i, State(d, a, f, q))
  BY Dispatched
<1> HIDE DEF q, op
<1>11. ASSUME NEW f \in SUBSET XNZVC
       PROVE  /\ DecodeArith(i, State(d, a, f, q)) = State(D, a, (f \ Writes(i)) \cup W, q)
              /\ JitArith(op, State(d, a, f, p)) = State(D, a, (f \ Writes(i)) \cup W, p)
  <2> DEFINE m == State(d, a, f, q)
             n == State(d, a, f, p)
             g == (f \ Writes(i)) \cup W
  <2>0. m = State(d, a, f, q) /\ n = State(d, a, f, p)
    OBVIOUS
  <2>1. /\ m.d = d /\ m.ccr = f /\ n.d = d /\ n.ccr = f
    BY StateIs
  <2> HIDE DEF m, n
  <2>2. /\ ReadRegValue(m, i.x, s) = u /\ ReadRegValue(m, i.y, s) = v
        /\ Cast(n.d[op.dst], op.size) = u /\ Cast(n.d[op.src], op.size) = v
    BY <1>9, <2>1 DEF ReadRegValue, u, v
  <2>3. CASE i.kind = "Cmp"
    <3>1. DecodeArith(i, m) = UpdateCCR(m, r.ccr)
      BY <1>3, <2>2, <2>3 DEF DecodeArith
    <3>2. g = (f \ NZVC) \cup (r.ccr \cap NZVC) /\ D = d
      BY <1>6, <2>3
    <3>3. g = (f \cap {"X"}) \cup (r.ccr \ {"X"})
      BY <1>3, <3>2 DEF XNZVC, NZVC
    <3>4. JitArith(op, n) = [n EXCEPT !.ccr = (f \cap {"X"}) \cup (r.ccr \ {"X"})]
      BY <1>3, <1>9, <2>1, <2>2, <2>3 DEF JitArith, JitAlu, Quick
    <3>5. \A h : [n EXCEPT !.ccr = h] = State(d, a, h, p)
      BY <2>0 DEF State
    <3>6. UpdateCCR(m, r.ccr) = State(d, a, g, q)
      BY <2>0, <3>2, UpdateCCRIs
    <3> HIDE DEF D, g
    <3> QED
      BY <3>1, <3>2, <3>3, <3>4, <3>5, <3>6 DEF m, n, g
  <2>4. CASE i.kind # "Cmp"
    <3>1. g = r.ccr /\ D = [d EXCEPT ![i.x] = b]
      BY <1>3, <1>6, <2>4
    <3>2. WriteRegValue(m, i.x, r.result, s) = SetD(m, i.x, b)
      BY <1>3, <1>4, <2>1 DEF WriteRegValue
    <3>3. DecodeArith(i, m) = SetCCR(SetD(m, i.x, b), r.ccr)
      BY <1>3, <2>1, <2>2, <2>4, <3>2 DEF DecodeArith
    <3>4. SetCCR(SetD(m, i.x, b), r.ccr) = State([d EXCEPT ![i.x] = b], a, r.ccr, q)
      BY <2>0, SetDIs, SetCCRIs
    <3>5. JitArith(op, n) = SetCCR(SetD(n, i.x, b), r.ccr)
      <4> HIDE DEF D, W, g
      <4>1. op.kind \notin Quick /\ op.kind # "Neg" /\ op.kind # "Cmp"
        BY <1>9, <2>4 DEF Quick
      <4>2. JitAlu(op, n, u, v) = r
        BY <1>3, <1>9, <2>1, <2>4 DEF JitAlu
      <4>3. JitArith(op, n) = [n EXCEPT !.d[op.dst] = Put(@, r.result, op.size), !.ccr = r.ccr]
        BY <2>2, <4>1, <4>2 DEF JitArith
      <4>4. op.dst = i.x /\ n.d[i.x] = d[i.x] /\ op.size = s
        BY <1>9, <2>1
      <4> QED
        BY <1>4, <4>3, <4>4 DEF SetD, SetCCR
    <3>6. SetCCR(SetD(n, i.x, b), r.ccr) = State([d EXCEPT ![i.x] = b], a, r.ccr, p)
      BY <2>0, SetDIs, SetCCRIs
    <3> HIDE DEF D, g
    <3> QED
      BY <3>1, <3>3, <3>4, <3>5, <3>6 DEF m, n, g
  <2> QED
    BY <2>3, <2>4
<1> HIDE DEF D, W
<1>12. Alike(i, d, a, p, D, a, W, After(i, p))
  BY <1>5, <1>7, <1>8, <1>9, <1>10, <1>11, Together DEF op
<1> QED
  BY <1>12

\* The data of ADDQ, SUBQ and the shifts is 1 to 8.
LEMMA QuickDataIs ==
  ASSUME NEW i, i.x \in Fields
  PROVE  QuickData(i) \in 1..8
<1>1. i.x \in 0..7
  BY GuestAssumption
<1> QED
  BY <1>1 DEF QuickData

\* ADDQ, SUBQ and NEG.
LEMMA QuickAlike ==
  ASSUME NEW i \in Instructions, i.kind \in Quick \cup {"Neg"},
         NEW d \in File, NEW a \in File, NEW p \in Long
  PROVE  \E D, A, W, P : Alike(i, d, a, p, D, A, W, P)
<1> DEFINE s == i.size
           t == Cast(d[i.y], s)
           u == IF i.kind = "Neg" THEN 0 ELSE t
           v == IF i.kind = "Neg" THEN t ELSE Cast(QuickData(i), s)
           r == Arith(i.kind = "Addq", u, v, s)
           b == Put(d[i.y], r.result, s)
           D == [d EXCEPT ![i.y] = b]
           W == r.ccr
           q == Wide(p + 2)
           op == Compile(i, p)
<1>0. i.kind \in {"Addq", "Subq", "Neg"}
  BY DEF Quick
<1>1. s \in Sizes /\ i.y \in Regs
  BY <1>0, FieldsOf DEF Quick, Monadic
<1>2. t \in 0..Modulus[s] - 1 /\ d[i.y] \in Long
  BY <1>1, Written, CastIs
<1> HIDE DEF t
<1>a. u \in 0..Modulus[s] - 1 /\ v \in 0..Modulus[s] - 1
  <2>1. Modulus[s] \in Positive
    BY <1>1, Moduli
  <2>2. i.kind # "Neg" => QuickData(i) \in Int
    BY <1>0, FieldsOf, QuickDataIs DEF Quick
  <2>3. i.kind # "Neg" => Cast(QuickData(i), s) \in 0..Modulus[s] - 1
    BY <1>1, <2>2, CastIs
  <2> QED
    BY <1>2, <2>1, <2>3 DEF Positive
<1>b. /\ i.kind = "Neg" => u = 0 /\ v = t
      /\ i.kind # "Neg" => u = t /\ v = Cast(QuickData(i), s)
  OBVIOUS
<1> HIDE DEF u, v
<1>3. /\ r.ccr \in SUBSET XNZVC /\ Cast(r.result, s) = r.result /\ b \in Long
      /\ \A f : /\ i.kind = "Addq" => Add(u, v, f, FALSE, Modulus[s]) = r
                /\ i.kind # "Addq" => Sub(u, v, f, FALSE, Modulus[s]) = r
  <2> DEFINE plus == i.kind = "Addq"
  <2>1. plus \in BOOLEAN /\ (plus <=> i.kind = "Addq")
    OBVIOUS
  <2> HIDE DEF plus
  <2>2. LET o == Arith(plus, u, v, s)
        IN  /\ o.ccr \in SUBSET XNZVC /\ Cast(o.result, s) = o.result
            /\ Put(d[i.y], o.result, s) \in Long
            /\ \A f : /\ plus => Add(u, v, f, FALSE, Modulus[s]) = o
                      /\ ~ plus => Sub(u, v, f, FALSE, Modulus[s]) = o
    BY <1>1, <1>2, <1>a, <2>1, ArithIs
  <2>3. r = Arith(plus, u, v, s)
    BY DEF plus
  <2> QED
    BY <2>1, <2>2, <2>3, Zenon
<1>4. b = Put(d[i.y], r.result, s)
  OBVIOUS
<1> HIDE DEF r, b
<1>5. D \in File
  BY <1>1, <1>3, Written
<1>6. Writes(i) = XNZVC
  BY <1>0 DEF Writes, Quick, Shifts, QuickA
<1>7. W \in SUBSET Writes(i)
  BY <1>3, <1>6
<1>8. After(i, p) = q
  <2>1. TailBytes(i) = 0
    BY <1>0 DEF TailBytes
  <2> QED
    BY <2>1, AfterIs
<1>9. /\ op.kind = i.kind /\ op.size = s /\ op.dst = i.y
      /\ i.kind # "Neg" => op.imm = QuickData(i)
      /\ \A n : Computed(op, n) = JitArith(op, n)
  <2>1. i.kind \notin ToX /\ i.kind \in {"Add", "Sub", "Cmp", "Neg"} \cup Quick
    BY <1>0 DEF ToX, Quick, Loads
  <2>2. op.kind = i.kind /\ op.size = s /\ op.dst = i.y /\ op.imm = Immediate(i)
    BY <2>1, OpFields
  <2>3. i.kind # "Neg" => Immediate(i) = QuickData(i)
    BY <1>0 DEF Immediate, Quick
  <2>4. \A n : Computed(op, n) = JitArith(op, n)
    BY <2>1, OpIs
  <2> QED
    BY <2>2, <2>3, <2>4
<1>10. \A f : Interpret(i, State(d, a, f, p)) = IF i.kind = "Neg" THEN DecodeMonadic(i, State(d, a, f, q))
                                               ELSE DecodeQuick(i, State(d, a, f, q))
  BY <1>0, Dispatched DEF Quick, Monadic
<1> HIDE DEF q, op
<1>11. ASSUME NEW f \in SUBSET XNZVC
       PROVE  /\ Interpret(i, State(d, a, f, p)) = State(D, a, (f \ Writes(i)) \cup W, q)
              /\ JitArith(op, State(d, a, f, p)) = State(D, a, (f \ Writes(i)) \cup W, p)
  <2> DEFINE m == State(d, a, f, q)
             n == State(d, a, f, p)
             g == (f \ Writes(i)) \cup W
  <2>0. m = State(d, a, f, q) /\ n = State(d, a, f, p)
    OBVIOUS
  <2>1. /\ m.d = d /\ m.ccr = f /\ n.d = d /\ n.ccr = f
    BY StateIs
  <2> HIDE DEF m, n
  <2>2. ReadRegValue(m, i.y, s) = t /\ Cast(n.d[op.dst], op.size) = t
    BY <1>9, <2>1 DEF ReadRegValue, t
  <2>3. g = r.ccr
    BY <1>3, <1>6
  <2>4. WriteRegValue(m, i.y, r.result, s) = SetD(m, i.y, b)
    BY <1>3, <1>4, <2>1 DEF WriteRegValue
  <2>5. Interpret(i, n) = SetCCR(SetD(m, i.y, b), r.ccr)
    <3>1. CASE i.kind = "Neg"
      <4>1. DecodeMonadic(i, m) = SetCCR(SetD(m, i.y, b), r.ccr)
        BY <1>3, <1>b, <2>1, <2>2, <2>4, <3>1 DEF DecodeMonadic
      <4> QED
        BY <1>10, <2>0, <3>1, <4>1
    <3>2. CASE i.kind \in Quick
      <4>1. DecodeQuick(i, m) = SetCCR(SetD(m, i.y, b), r.ccr)
        BY <1>3, <1>b, <2>1, <2>2, <2>4, <3>2 DEF DecodeQuick, Quick
      <4> QED
        BY <1>10, <2>0, <3>2, <4>1 DEF Quick
    <3> QED
      BY <3>1, <3>2
  <2>6. JitArith(op, n) = SetCCR(SetD(n, i.y, b), r.ccr)
    <3> DEFINE o == IF i.kind = "Neg" THEN JitAlu(op, n, 0, t)
                                      ELSE JitAlu(op, n, t, Cast(op.imm, s))
    <3>1. o = r
      BY <1>0, <1>3, <1>9, <1>b, <2>1 DEF JitAlu
    <3>2. JitArith(op, n) = [n EXCEPT !.d[i.y] = Put(n.d[i.y], o.result, s), !.ccr = o.ccr]
      BY <1>0, <1>9, <2>2 DEF JitArith, Quick
    <3>3. Put(n.d[i.y], r.result, s) = b
      BY <1>4, <2>1
    <3> HIDE DEF o
    <3> QED
      BY <3>1, <3>2, <3>3 DEF SetD, SetCCR
  <2>7. SetCCR(SetD(m, i.y, b), r.ccr) = State([d EXCEPT ![i.y] = b], a, r.ccr, q)
    BY <2>0, SetDIs, SetCCRIs
  <2>8. SetCCR(SetD(n, i.y, b), r.ccr) = State([d EXCEPT ![i.y] = b], a, r.ccr, p)
    BY <2>0, SetDIs, SetCCRIs
  <2> QED
    BY <2>0, <2>3, <2>5, <2>6, <2>7, <2>8
<1> HIDE DEF D, W
<1>12. Alike(i, d, a, p, D, a, W, After(i, p))
  BY <1>0, <1>5, <1>7, <1>8, <1>9, <1>11, Together DEF op
<1> QED
  BY <1>12

\* N and Z of a result.
NZ(v, s) == SetNZFlags(Cast(v, s), Modulus[s])

\* N and Z are set alike by SetLogicFlags and by KeepX.
LEMMA NZIs ==
  ASSUME NEW v, NEW s
  PROVE  /\ NZ(v, s) \in SUBSET NZVC
         /\ \A f \in SUBSET XNZVC : KeepX(f, v, s) = (f \ NZVC) \cup NZ(v, s)
         /\ \A d, a, f, p : SetLogicFlags(State(d, a, f, p), v, s) = State(d, a, (f \ NZVC) \cup NZ(v, s), p)
<1>1. NZ(v, s) \in SUBSET NZVC
  BY DEF NZ, SetNZFlags, When, NZVC
<1>2. ASSUME NEW f \in SUBSET XNZVC PROVE KeepX(f, v, s) = (f \ NZVC) \cup NZ(v, s)
  BY DEF KeepX, NZ, XNZVC, NZVC
<1>3. ASSUME NEW d, NEW a, NEW f, NEW p
      PROVE  SetLogicFlags(State(d, a, f, p), v, s) = State(d, a, (f \ NZVC) \cup NZ(v, s), p)
  <2>1. SetLogicFlags(State(d, a, f, p), v, s) = UpdateCCR(State(d, a, f, p), NZ(v, s))
    BY DEF SetLogicFlags, NZ
  <2>2. UpdateCCR(State(d, a, f, p), NZ(v, s)) = State(d, a, (f \ NZVC) \cup (NZ(v, s) \cap NZVC), p)
    BY UpdateCCRIs
  <2>3. NZ(v, s) \cap NZVC = NZ(v, s)
    BY <1>1
  <2> QED
    BY <2>1, <2>2, <2>3
<1> QED
  BY <1>1, <1>2, <1>3

\* AND, OR and EOR.
LEMMA LogicAlike ==
  ASSUME NEW i \in Instructions, i.kind \in Operators,
         NEW d \in File, NEW a \in File, NEW p \in Long
  PROVE  \E D, A, W, P : Alike(i, d, a, p, D, A, W, P)
<1> DEFINE s == i.size
           c == Logic(i.kind, d[i.x], d[i.y])
           e == Cast(c, s)
           y == IF i.kind = "Eor" THEN i.y ELSE i.x
           x == IF i.kind = "Eor" THEN i.x ELSE i.y
           b == Put(d[y], e, s)
           D == [d EXCEPT ![y] = b]
           W == NZ(c, s)
           q == Wide(p + 2)
           op == Compile(i, p)
<1>0. i.kind \in {"And", "Or", "Eor"}
  BY DEF Operators
<1>1. s \in Sizes /\ i.x \in Regs /\ i.y \in Regs /\ x \in Regs /\ y \in Regs
  BY <1>0, FieldsOf DEF Dyadic
<1>2. c \in Int
  <2>1. c \in Long /\ Modulus["l"] \in Positive
    BY LogicIs, Moduli DEF Sizes
  <2> QED
    BY <2>1 DEF Long, Positive
<1>3. Logic(i.kind, Cast(d[y], s), Cast(d[x], s)) = e
  <2>1. d[i.x] \in Int /\ d[i.y] \in Int
    BY <1>1, Written
  <2>2. Logic(i.kind, Cast(d[i.x], s), Cast(d[i.y], s)) = e
    BY <1>1, <2>1, LogicCuts DEF Cast
  <2>3. Logic("Eor", Cast(d[i.x], s), Cast(d[i.y], s)) = Logic("Eor", Cast(d[i.y], s), Cast(d[i.x], s))
    BY EorCommutes
  <2> QED
    BY <2>2, <2>3
<1>4. y = (IF i.kind = "Eor" THEN i.y ELSE i.x) /\ b = Put(d[y], e, s) /\ e = Cast(c, s)
      /\ c = Logic(i.kind, d[i.x], d[i.y])
  OBVIOUS
<1>9. /\ op.kind = i.kind /\ op.size = s /\ op.src = x /\ op.dst = y
      /\ \A n : Computed(op, n) = JitLogic(op, n)
  BY <1>0, OpIs DEF ToX, Loads
<1> HIDE DEF c, y, x
<1>5. e \in 0..Modulus[s] - 1 /\ Cast(e, s) = e
  <2>1. e \in 0..Modulus[s] - 1 /\ e \in Long /\ Modulus["l"] \in Positive
    BY <1>1, <1>2, CastIs, Moduli DEF Sizes
  <2>2. e \in Int
    BY <2>1 DEF Long, Positive
  <2> QED
    BY <1>1, <2>1, <2>2, CastIs
<1> HIDE DEF e
<1>6. b \in Long
  BY <1>1, <1>5, PutIs, Written
<1> HIDE DEF b
<1>7. D \in File
  BY <1>1, <1>6, Written
<1>8. Writes(i) = NZVC /\ W \in SUBSET Writes(i)
  BY <1>0, NZIs DEF Writes, Quick, Shifts, QuickA
<1>10. After(i, p) = q
  <2>1. TailBytes(i) = 0
    BY <1>0 DEF TailBytes
  <2> QED
    BY <2>1, AfterIs
<1>11. \A f : Interpret(i, State(d, a, f, p)) = DecodeLogic(i, State(d, a, f, q))
  BY <1>0, Dispatched
<1> HIDE DEF q, op
<1>12. ASSUME NEW f \in SUBSET XNZVC
       PROVE  /\ DecodeLogic(i, State(d, a, f, q)) = State(D, a, (f \ Writes(i)) \cup W, q)
              /\ JitLogic(op, State(d, a, f, p)) = State(D, a, (f \ Writes(i)) \cup W, p)
  <2> DEFINE m == State(d, a, f, q)
             n == State(d, a, f, p)
             g == (f \ NZVC) \cup NZ(c, s)
  <2>0. m = State(d, a, f, q) /\ n = State(d, a, f, p)
    OBVIOUS
  <2>1. /\ m.d = d /\ n.d = d /\ n.ccr = f
    BY StateIs
  <2> HIDE DEF m, n
  <2>2. WriteRegValue(m, y, c, s) = SetD(m, y, b)
    BY <1>4, <2>1 DEF WriteRegValue
  <2>3. DecodeLogic(i, m) = SetLogicFlags(SetD(m, y, b), c, s)
    BY <1>4, <2>1, <2>2 DEF DecodeLogic
  <2>4. SetD(m, y, b) = State(D, a, f, q)
    BY <2>0, SetDIs
  <2>5. SetLogicFlags(State(D, a, f, q), c, s) = State(D, a, g, q)
    BY NZIs
  <2>6. KeepX(f, e, s) = g
    <3>1. KeepX(f, e, s) = KeepX(f, c, s)
      BY <1>4, <1>5 DEF KeepX
    <3> QED
      BY <3>1, NZIs
  <2>7. JitLogic(op, n) = SetCCR(SetD(n, y, b), g)
    <3>1. Cast(n.d[op.dst], op.size) = Cast(d[y], s) /\ Cast(n.d[op.src], op.size) = Cast(d[x], s)
      BY <1>9, <2>1
    <3> HIDE DEF g
    <3> QED
      BY <1>0, <1>3, <1>4, <1>9, <2>1, <2>6, <3>1 DEF JitLogic, SetD, SetCCR
  <2>8. SetCCR(SetD(n, y, b), g) = State(D, a, g, p)
    BY <2>0, SetDIs, SetCCRIs
  <2> QED
    BY <1>8, <2>0, <2>3, <2>4, <2>5, <2>7, <2>8
<1> HIDE DEF D, W
<1>13. Alike(i, d, a, p, D, a, W, After(i, p))
  BY <1>0, <1>7, <1>8, <1>9, <1>10, <1>11, <1>12, Together DEF op
<1> QED
  BY <1>13

\* CLR, TST and NOT.
LEMMA MonadicAlike ==
  ASSUME NEW i \in Instructions, i.kind \in {"Clr", "Tst", "Not"},
         NEW d \in File, NEW a \in File, NEW p \in Long
  PROVE  \E D, A, W, P : Alike(i, d, a, p, D, A, W, P)
<1> DEFINE s == i.size
           y == i.y
           v == Cast(d[y], s)
           e == CASE i.kind = "Clr" -> 0 [] i.kind = "Tst" -> v [] i.kind = "Not" -> Inverted(v, s)
           b == Put(d[y], e, s)
           D == [d EXCEPT ![y] = b]
           W == NZ(e, s)
           q == Wide(p + 2)
           op == Compile(i, p)
<1>1. s \in Sizes /\ y \in Regs /\ Modulus[s] \in Positive
  BY FieldsOf, Moduli DEF Monadic
<1>2. v \in 0..Modulus[s] - 1 /\ d[y] \in Long
  BY <1>1, Written, CastIs
<1>3. v = Cast(d[y], s) /\ b = Put(d[y], e, s)
  OBVIOUS
<1>4. /\ i.kind = "Clr" => e = 0
      /\ i.kind = "Tst" => e = v
      /\ i.kind = "Not" => e = Inverted(v, s)
  OBVIOUS
<1> HIDE DEF v, e, b
<1>5. e \in 0..Modulus[s] - 1 /\ Cast(e, s) = e
  <2>1. e \in 0..Modulus[s] - 1
    BY <1>1, <1>2, <1>4 DEF Inverted, Positive
  <2>2. e \in Int
    BY <1>1, <2>1 DEF Positive
  <2> QED
    BY <1>1, <2>1, <2>2, CastIs
<1>6. b \in Long /\ (i.kind = "Tst" => b = d[y])
  BY <1>1, <1>2, <1>3, <1>4, <1>5, PutIs
<1>7. D \in File /\ (i.kind = "Tst" => D = d)
  BY <1>1, <1>6, Written
<1>8. Writes(i) = NZVC /\ W \in SUBSET Writes(i)
  BY NZIs DEF Writes, Quick, Shifts, QuickA
<1>9. /\ op.kind = i.kind /\ op.size = s /\ op.dst = y
      /\ \A n : Computed(op, n) = JitLogic(op, n)
  <2>1. i.kind \notin ToX
    BY DEF ToX, Loads
  <2>2. op.kind = i.kind /\ op.size = s /\ op.dst = y
    BY <2>1, OpIs
  <2>3. \A n : Computed(op, n) = JitLogic(op, n)
    BY OpIs
  <2> QED
    BY <2>2, <2>3
<1>10. After(i, p) = q
  <2>1. TailBytes(i) = 0
    BY DEF TailBytes
  <2> QED
    BY <2>1, AfterIs
<1>11. \A f : Interpret(i, State(d, a, f, p)) = DecodeMonadic(i, State(d, a, f, q))
  BY Dispatched DEF Monadic
<1>a. i.kind = "Clr" => NZ(e, s) = {"Z"}
  <2>1. Negative(0, Modulus[s]) = FALSE
    BY <1>1 DEF Negative, Positive
  <2> QED
    BY <1>4, <1>5, <2>1 DEF NZ, SetNZFlags, When
<1> HIDE DEF q, op
<1>12. ASSUME NEW f \in SUBSET XNZVC
       PROVE  /\ DecodeMonadic(i, State(d, a, f, q)) = State(D, a, (f \ Writes(i)) \cup W, q)
              /\ JitLogic(op, State(d, a, f, p)) = State(D, a, (f \ Writes(i)) \cup W, p)
  <2> DEFINE m == State(d, a, f, q)
             n == State(d, a, f, p)
             g == (f \ NZVC) \cup NZ(e, s)
  <2>0. m = State(d, a, f, q) /\ n = State(d, a, f, p)
    OBVIOUS
  <2>1. /\ m.d = d /\ m.ccr = f /\ n.d = d /\ n.ccr = f
    BY StateIs
  <2> HIDE DEF m, n
  <2>2. WriteRegValue(m, y, e, s) = SetD(m, y, b) /\ ReadRegValue(m, y, s) = v
    BY <1>3, <1>5, <2>1 DEF WriteRegValue, ReadRegValue
  <2>3. SetD(m, y, b) = State(D, a, f, q)
    BY <2>0, SetDIs
  <2>4. SetLogicFlags(State(D, a, f, q), e, s) = State(D, a, g, q)
    BY NZIs
  <2>5. DecodeMonadic(i, m) = State(D, a, g, q)
    <3>1. CASE i.kind = "Clr"
      <4>1. DecodeMonadic(i, m) = SetCCR(SetD(m, y, b), (f \cap {"X"}) \cup {"Z"})
        BY <1>4, <2>1, <2>2, <3>1 DEF DecodeMonadic
      <4>2. g = (f \cap {"X"}) \cup {"Z"}
        BY <1>a, <3>1 DEF XNZVC, NZVC
      <4> HIDE DEF g, D
      <4>3. SetCCR(State(D, a, f, q), g) = State(D, a, g, q)
        BY SetCCRIs
      <4> QED
        BY <2>3, <4>1, <4>2, <4>3
    <3>2. CASE i.kind = "Tst"
      <4>1. DecodeMonadic(i, m) = SetLogicFlags(m, e, s)
        BY <1>4, <2>2, <3>2 DEF DecodeMonadic
      <4>2. D = d
        BY <1>7, <3>2
      <4> QED
        BY <2>0, <2>4, <4>1, <4>2
    <3>3. CASE i.kind = "Not"
      <4>1. DecodeMonadic(i, m) = SetLogicFlags(SetD(m, y, b), e, s)
        BY <1>4, <2>2, <3>3 DEF DecodeMonadic
      <4> QED
        BY <2>3, <2>4, <4>1
    <3> QED
      BY <3>1, <3>2, <3>3
  <2>6. KeepX(f, e, s) = g
    BY NZIs
  <2>7. JitLogic(op, n) = SetCCR(SetD(n, y, b), g)
    <3>1. Cast(n.d[op.dst], op.size) = v
      BY <1>3, <1>9, <2>1
    <3> HIDE DEF g
    <3> QED
      BY <1>3, <1>4, <1>9, <2>1, <2>6, <3>1 DEF JitLogic, SetD, SetCCR
  <2>8. SetCCR(SetD(n, y, b), g) = State(D, a, g, p)
    BY <2>0, SetDIs, SetCCRIs
  <2> QED
    BY <1>8, <2>0, <2>5, <2>7, <2>8
<1> HIDE DEF D, W
<1>13. Alike(i, d, a, p, D, a, W, After(i, p))
  BY <1>7, <1>8, <1>9, <1>10, <1>11, <1>12, Together DEF op
<1> QED
  BY <1>13

\* EXT, EXTB and SWAP.
LEMMA OnOneAlike ==
  ASSUME NEW i \in Instructions, i.kind \in OnOne,
         NEW d \in File, NEW a \in File, NEW p \in Long
  PROVE  \E D, A, W, P : Alike(i, d, a, p, D, A, W, P)
<1> DEFINE y == i.y
           v == d[y]
           e == Cast(Extended(v, "b"), "w")
           b == CASE i.kind = "ExtW" -> Put(v, e, "w") [] i.kind = "ExtL" -> Extended(v, "w")
                  [] i.kind = "ExtbL" -> Extended(v, "b") [] i.kind = "Swap" -> Swapped(v)
           s == IF i.kind = "ExtW" THEN "w" ELSE "l"
           D == [d EXCEPT ![y] = b]
           W == NZ(b, s)
           q == Wide(p + 2)
           op == Compile(i, p)
<1>0. i.kind \in {"ExtW", "ExtL", "ExtbL", "Swap"}
  BY DEF OnOne
<1>1. y \in Regs /\ "b" \in Sizes /\ "w" \in Sizes /\ "l" \in Sizes
  BY FieldsOf DEF Sizes
<1>2. v \in Long /\ v \in Int
  BY <1>1, Written
<1>3. v = d[y]
  OBVIOUS
<1> HIDE DEF v
<1>5. e \in 0..Modulus["w"] - 1 /\ Cast(e, "w") = e
  <2>1. Extended(v, "b") \in Long /\ Modulus["l"] \in Positive /\ Modulus["w"] \in Positive
    BY <1>1, <1>2, CastIs, Moduli
  <2>2. Extended(v, "b") \in Int
    BY <2>1 DEF Long, Positive
  <2>3. e \in 0..Modulus["w"] - 1
    BY <1>1, <2>2, CastIs
  <2>4. e \in Int
    BY <2>1, <2>3 DEF Positive
  <2> HIDE DEF e
  <2> QED
    BY <1>1, <2>3, <2>4, CastIs
<1>a. e = Cast(Extended(v, "b"), "w")
  OBVIOUS
<1> HIDE DEF e
<1>6. b \in Long
  <2>1. Put(v, e, "w") \in Long
    BY <1>1, <1>2, <1>5, PutIs
  <2>2. Extended(v, "w") \in Long /\ Extended(v, "b") \in Long
    BY <1>1, <1>2, CastIs
  <2>3. Swapped(v) \in Long
    BY <1>2, SwappedIs
  <2> QED
    BY <1>0, <2>1, <2>2, <2>3
<1>4. /\ i.kind = "ExtW" => b = Put(v, e, "w")
      /\ i.kind = "ExtL" => b = Extended(v, "w")
      /\ i.kind = "ExtbL" => b = Extended(v, "b")
      /\ i.kind = "Swap" => b = Swapped(v)
      /\ i.kind = "ExtW" => s = "w"
      /\ i.kind # "ExtW" => s = "l"
  OBVIOUS
<1> HIDE DEF b, s
<1>b. i.kind = "ExtW" => Cast(b, s) = e
  BY <1>1, <1>2, <1>4, <1>5, PutIs
<1>7. D \in File
  BY <1>1, <1>6, Written
<1>8. Writes(i) = NZVC /\ W \in SUBSET Writes(i)
  BY <1>0, NZIs DEF Writes, Quick, Shifts, QuickA
<1>9. /\ op.kind = i.kind /\ op.dst = y
      /\ \A n : Computed(op, n) = JitOnOne(op, n)
  BY <1>0, OpIs DEF ToX, Loads
<1>10. After(i, p) = q
  <2>1. TailBytes(i) = 0
    BY <1>0 DEF TailBytes
  <2> QED
    BY <2>1, AfterIs
<1>11. \A f : Interpret(i, State(d, a, f, p)) = DecodeOnOne(i, State(d, a, f, q))
  BY Dispatched
<1> HIDE DEF q, op
<1>12. ASSUME NEW f \in SUBSET XNZVC
       PROVE  /\ DecodeOnOne(i, State(d, a, f, q)) = State(D, a, (f \ Writes(i)) \cup W, q)
              /\ JitOnOne(op, State(d, a, f, p)) = State(D, a, (f \ Writes(i)) \cup W, p)
  <2> DEFINE m == State(d, a, f, q)
             n == State(d, a, f, p)
             g == (f \ NZVC) \cup NZ(b, s)
  <2>0. m = State(d, a, f, q) /\ n = State(d, a, f, p)
    OBVIOUS
  <2>1. /\ m.d = d /\ m.ccr = f /\ n.d = d /\ n.ccr = f
    BY StateIs
  <2> HIDE DEF m, n
  <2>3. SetD(m, y, b) = State(D, a, f, q)
    BY <2>0, SetDIs
  <2>4. SetLogicFlags(State(D, a, f, q), b, s) = State(D, a, g, q)
    BY NZIs
  <2>5. DecodeOnOne(i, m) = SetLogicFlags(SetD(m, y, b), b, s)
    <3>1. CASE i.kind = "ExtW"
      <4>1. DecodeOnOne(i, m) = SetLogicFlags(SetD(m, y, b), e, "w")
        BY <1>3, <1>4, <1>a, <2>1, <3>1 DEF DecodeOnOne
      <4>2. SetLogicFlags(SetD(m, y, b), e, "w") = SetLogicFlags(SetD(m, y, b), b, s)
        BY <1>4, <1>5, <1>b, <3>1 DEF SetLogicFlags
      <4> QED
        BY <4>1, <4>2
    <3>2. CASE i.kind # "ExtW"
      BY <1>0, <1>3, <1>4, <2>1, <3>2 DEF DecodeOnOne
    <3> QED
      BY <3>1, <3>2
  <2>6. KeepX(f, b, s) = g
    BY NZIs
  <2>7. JitOnOne(op, n) = SetCCR(SetD(n, y, b), g)
    <3>1. n.d[op.dst] = v
      BY <1>3, <1>9, <2>1
    <3> HIDE DEF g
    <3> QED
      BY <1>0, <1>3, <1>4, <1>9, <1>a, <2>1, <2>6, <3>1 DEF JitOnOne, SetD, SetCCR
  <2>8. SetCCR(SetD(n, y, b), g) = State(D, a, g, p)
    BY <2>0, SetDIs, SetCCRIs
  <2> QED
    BY <1>8, <2>0, <2>3, <2>4, <2>5, <2>7, <2>8
<1> HIDE DEF D, W
<1>13. Alike(i, d, a, p, D, a, W, After(i, p))
  BY <1>0, <1>7, <1>8, <1>9, <1>10, <1>11, <1>12, Together DEF op
<1> QED
  BY <1>13

\* The shifts.
LEMMA ShiftAlike ==
  ASSUME NEW i \in Instructions, i.kind \in Shifts,
         NEW d \in File, NEW a \in File, NEW p \in Long
  PROVE  \E D, A, W, P : Alike(i, d, a, p, D, A, W, P)
<1> DEFINE y == i.y
           r == Shifter(i.kind, d[y], QuickData(i))
           D == [d EXCEPT ![y] = r.result]
           W == r.ccr
           q == Wide(p + 2)
           op == Compile(i, p)
<1>0. i.kind \in ShiftOps /\ i.kind \in {"Asl", "Asr", "Lsl", "Lsr"}
  BY DEF Shifts, ShiftOps
<1>1. y \in Regs /\ i.x \in Fields
  BY FieldsOf
<1>2. d[y] \in Long /\ QuickData(i) \in Nat
  <2>1. QuickData(i) \in 1..8
    BY <1>1, QuickDataIs
  <2>2. d[y] \in Long
    BY <1>1, Written
  <2> QED
    BY <2>1, <2>2
<1>3. r \in [result : Long, ccr : SUBSET XNZVC]
  BY <1>0, <1>2, ShifterIs
<1>4. r = Shifter(i.kind, d[y], QuickData(i))
  OBVIOUS
<1> HIDE DEF r
<1>5. r.result \in Long /\ r.ccr \in SUBSET XNZVC
  BY <1>3
<1>7. D \in File
  BY <1>1, <1>5, Written
<1>8. Writes(i) = XNZVC /\ W \in SUBSET Writes(i)
  BY <1>0, <1>5 DEF Writes, Quick, Shifts, QuickA
<1>9. /\ op.kind = i.kind /\ op.dst = y /\ op.imm = QuickData(i)
      /\ \A n : Computed(op, n) = JitShift(op, n)
  BY <1>0, OpIs DEF ToX, Loads, Immediate
<1>10. After(i, p) = q
  <2>1. TailBytes(i) = 0
    BY <1>0 DEF TailBytes
  <2> QED
    BY <2>1, AfterIs
<1>11. \A f : Interpret(i, State(d, a, f, p)) = DecodeShift(i, State(d, a, f, q))
  BY Dispatched
<1> HIDE DEF q, op
<1>12. ASSUME NEW f \in SUBSET XNZVC
       PROVE  /\ DecodeShift(i, State(d, a, f, q)) = State(D, a, (f \ Writes(i)) \cup W, q)
              /\ JitShift(op, State(d, a, f, p)) = State(D, a, (f \ Writes(i)) \cup W, p)
  <2> DEFINE m == State(d, a, f, q)
             n == State(d, a, f, p)
  <2>0. m = State(d, a, f, q) /\ n = State(d, a, f, p)
    OBVIOUS
  <2>1. /\ m.d = d /\ n.d = d
    BY StateIs
  <2> HIDE DEF m, n
  <2>2. (f \ Writes(i)) \cup W = r.ccr
    BY <1>5, <1>8
  <2>3. DecodeShift(i, m) = SetCCR(SetD(m, y, r.result), r.ccr)
    BY <1>4, <2>1 DEF DecodeShift
  <2>4. JitShift(op, n) = SetCCR(SetD(n, y, r.result), r.ccr)
    BY <1>4, <1>9, <2>1 DEF JitShift, SetD, SetCCR
  <2>5. SetCCR(SetD(m, y, r.result), r.ccr) = State(D, a, r.ccr, q)
    BY <2>0, SetDIs, SetCCRIs
  <2>6. SetCCR(SetD(n, y, r.result), r.ccr) = State(D, a, r.ccr, p)
    BY <2>0, SetDIs, SetCCRIs
  <2> QED
    BY <2>0, <2>2, <2>3, <2>4, <2>5, <2>6
<1> HIDE DEF D, W
<1>13. Alike(i, d, a, p, D, a, W, After(i, p))
  BY <1>0, <1>7, <1>8, <1>9, <1>10, <1>11, <1>12, Together DEF op
<1> QED
  BY <1>13

\* MOVEQ and MOVE.L to a data register.
LEMMA MoveAlike ==
  ASSUME NEW i \in Instructions, i.kind \in {"Moveq", "MoveLDnDm", "MoveLAnDn"},
         NEW d \in File, NEW a \in File, NEW p \in Long
  PROVE  \E D, A, W, P : Alike(i, d, a, p, D, A, W, P)
<1> DEFINE x == i.x
           v == CASE i.kind = "Moveq" -> Extended(i.ext, "b")
                  [] i.kind = "MoveLDnDm" -> d[i.y]
                  [] i.kind = "MoveLAnDn" -> a[i.y]
           D == [d EXCEPT ![x] = v]
           W == NZ(v, "l")
           q == Wide(p + 2)
           op == Compile(i, p)
<1>1. /\ x \in Regs
      /\ i.kind # "Moveq" => i.y \in Regs
      /\ i.kind = "Moveq" => i.ext \in Int
  BY FieldsOf DEF OnTwo
<1>2. v \in Long
  <2>1. "b" \in Sizes
    BY DEF Sizes
  <2>2. i.kind = "Moveq" => Extended(i.ext, "b") \in Long
    BY <1>1, <2>1, CastIs
  <2>3. CASE i.kind # "Moveq"
    <3>1. i.y \in Regs
      BY <1>1, <2>3
    <3>2. d[i.y] \in Long /\ a[i.y] \in Long
      BY <3>1, Written
    <3> QED
      BY <2>3, <3>2
  <2> QED
    BY <2>2, <2>3
<1>9. x \in Regs
  BY <1>1
<1>3. D \in File
  <2> HIDE DEF v, x
  <2> QED
    BY <1>2, <1>9, Written
<1>4. Writes(i) = NZVC /\ W \in SUBSET Writes(i)
  BY NZIs DEF Writes, Quick, Shifts, QuickA
<1>5. /\ i.kind = "Moveq" => v = Extended(i.ext, "b")
      /\ i.kind = "MoveLDnDm" => v = d[i.y]
      /\ i.kind = "MoveLAnDn" => v = a[i.y]
  OBVIOUS
<1>6. After(i, p) = q
  <2>1. TailBytes(i) = 0
    BY DEF TailBytes
  <2> QED
    BY <2>1, AfterIs
<1> HIDE DEF v, q, op, D, W
<1>7. ASSUME NEW f \in SUBSET XNZVC
      PROVE  /\ Interpret(i, State(d, a, f, p)) = State(D, a, (f \ Writes(i)) \cup W, q)
             /\ Computed(op, State(d, a, f, p)) = State(D, a, (f \ Writes(i)) \cup W, p)
  <2> DEFINE m == State(d, a, f, q)
             n == State(d, a, f, p)
             g == (f \ NZVC) \cup NZ(v, "l")
  <2>1. m.d = d /\ m.a = a /\ n.d = d /\ n.a = a /\ n.ccr = f
    BY StateIs
  <2>2. op.kind = i.kind /\ op.dst = x /\ op.src = i.y /\ op.imm = Immediate(i)
    <3> HIDE DEF m, n, g
    <3>1. i.kind \in ToX
      BY DEF ToX
    <3> QED
      BY <3>1, OpFields DEF op
  <2>3. Interpret(i, n) = DecodeMove(v, x, m)
    <3>1. i.kind = "Moveq" => Interpret(i, n) = DecodeMove(Extended(i.ext, "b"), i.x, m)
      BY Dispatched DEF q
    <3>2. i.kind # "Moveq" => Interpret(i, n) = DecodeTwo(i, m)
      BY Dispatched DEF OnTwo, q
    <3> HIDE DEF m, n
    <3> QED
      BY <1>5, <2>1, <3>1, <3>2 DEF DecodeTwo
  <2>4. Computed(op, n) = JitToD(op, n, v)
    <3>1. /\ i.kind = "Moveq" => Computed(op, n) = JitToD(op, n, op.imm)
          /\ i.kind = "MoveLDnDm" => Computed(op, n) = JitToD(op, n, n.d[op.src])
          /\ i.kind = "MoveLAnDn" => Computed(op, n) = JitToD(op, n, n.a[op.src])
      BY OpIs DEF op
    <3>2. i.kind = "Moveq" => Immediate(i) = Extended(i.ext, "b")
      BY DEF Immediate, Quick, QuickA, Shifts
    <3> HIDE DEF m, n
    <3> QED
      BY <1>5, <2>1, <2>2, <3>1, <3>2
  <2>5. DecodeMove(v, x, m) = SetLogicFlags(State(D, a, f, q), v, "l")
    BY SetDIs DEF DecodeMove, D
  <2>6. SetLogicFlags(State(D, a, f, q), v, "l") = State(D, a, g, q)
    BY NZIs
  <2>7. KeepX(f, v, "l") = g
    BY NZIs
  <2>8. JitToD(op, n, v) = SetCCR(SetD(n, x, v), g)
    <3> HIDE DEF g, n
    <3> QED
      BY <2>1, <2>2, <2>7 DEF JitToD, SetD, SetCCR
  <2>9. SetCCR(SetD(n, x, v), g) = State(D, a, g, p)
    BY SetDIs, SetCCRIs DEF D
  <2> QED
    BY <1>4, <2>3, <2>4, <2>5, <2>6, <2>8, <2>9 DEF W
<1>8. Alike(i, d, a, p, D, a, W, After(i, p))
  BY <1>3, <1>4, <1>6, <1>7, Together DEF op
<1> QED
  BY <1>8

\* The effective address of an index, with the index cut before it is scaled or
\* with its sign.
LEMMA IndexAlike ==
  ASSUME NEW i \in Instructions, i.kind = "LeaD8Xn", NEW d \in File, NEW a \in File,
         NEW f, NEW g, NEW p \in Long, NEW q
  PROVE  /\ ResolveIndexed(i, State(d, a, f, q)) \in Long
         /\ JitIndex(Compile(i, p), State(d, a, g, p)) = ResolveIndexed(i, State(d, a, f, q))
<1> DEFINE L == Modulus["l"]
           z == IF i.address THEN a[i.index] ELSE d[i.index]
           v == IF i.long THEN Signed(z, L) ELSE Signed(Cast(z, "w"), Modulus["w"])
           w == IF i.long THEN z ELSE Extended(z, "w")
           t == Power[i.scale]
           b == a[i.y]
           e == Extended(i.ext, "b")
<1>1. /\ i.y \in Regs /\ i.index \in Regs /\ i.ext \in Int /\ i.scale \in 0..Width["l"]
      /\ "b" \in Sizes /\ "w" \in Sizes /\ "l" \in Sizes
  <2>1. i.y \in Regs /\ i.index \in Regs /\ i.ext \in Nat /\ i.scale \in Scales
    BY FieldsOf
  <2>2. Scales \subseteq 0..3
    BY GuestAssumption
  <2>3. Width["l"] \in Nat /\ Width["l"] >= 4
    BY WidthAssumption
  <2>4. i.scale \in 0..Width["l"]
    <3>1. i.scale \in 0..3
      BY <2>1, <2>2
    <3>2. ASSUME NEW k \in Nat, k >= 4 PROVE i.scale \in 0..k
      BY <3>1, <3>2
    <3> QED
      BY <2>3, <3>2, Zenon
  <2>5. "b" \in Sizes /\ "w" \in Sizes /\ "l" \in Sizes
    BY DEF Sizes
  <2> QED
    BY <2>1, <2>4, <2>5
<1>2. z \in Long /\ z \in Int /\ b \in Int
  <2>1. a[i.index] \in Long /\ a[i.index] \in Int
    BY <1>1, Written
  <2>2. d[i.index] \in Long /\ d[i.index] \in Int
    BY <1>1, Written
  <2>3. a[i.y] \in Int
    BY <1>1, Written
  <2> QED
    BY <2>1, <2>2, <2>3
<1>3. t \in Int
  BY <1>1, PowerUnfolds
<1>4. e \in Int
  <2>1. e \in Long /\ Modulus["l"] \in Positive
    BY <1>1, CastIs, Moduli
  <2> QED
    BY <2>1 DEF Long, Positive
<1> HIDE DEF z, t, b, e
<1>5. Signed(Cast(z, "w"), Modulus["w"]) \in Int /\ Signed(z, L) \in Int
  <2>1. L \in Positive
    BY <1>1, Moduli
  <2> HIDE DEF L
  <2>2. Signed(z, L) \in Int
    BY <1>2, <2>1 DEF Signed, Positive
  <2> QED
    BY <1>1, <1>2, <2>2, CastIs
<1>6. w \in Int /\ v \in Int /\ Wide(w) = Wide(v)
  <2>1. CASE i.long
    <3>1. L \in Positive
      BY <1>1, Moduli
    <3>2. Wide(z - L) = Wide(z)
      <4>1. z - L = z + (-1) * L /\ -1 \in Int
        BY <1>2, <3>1 DEF Positive
      <4>2. (z + (-1) * L) % L = z % L
        BY <1>2, <3>1, <4>1, Multiples
      <4> QED
        BY <4>1, <4>2 DEF Wide, Word
    <3>3. Wide(Signed(z, L)) = Wide(z)
      BY <3>2 DEF Signed
    <3> QED
      BY <1>2, <1>5, <2>1, <3>3
  <2>2. CASE ~ i.long
    <3>1. Extended(z, "w") = Wide(Signed(Cast(z, "w"), Modulus["w"]))
      BY DEF Extended, Wide
    <3>2. Extended(z, "w") \in Long /\ Modulus["l"] \in Positive
      BY <1>1, <1>2, CastIs, Moduli
    <3>3. Extended(z, "w") \in Int
      BY <3>2 DEF Long, Positive
    <3>4. Wide(Extended(z, "w")) = Extended(z, "w")
      BY <1>1, <3>2, <3>3, CastIs
    <3> QED
      BY <1>5, <2>2, <3>1, <3>3, <3>4
  <2> QED
    BY <2>1, <2>2
<1>7. ResolveIndexed(i, State(d, a, f, q)) = Wide(b + e + v * t)
  BY StateIs DEF ResolveIndexed, z, b, e, t
<1>8. JitIndex(Compile(i, p), State(d, a, g, p)) = Wide(b + Wide(w * t) + e)
  <2> DEFINE op == Compile(i, p)
  <2>1. op.insn = i /\ op.src = i.y /\ op.imm = Immediate(i)
    BY OpIs DEF ToX
  <2>2. Immediate(i) = e
    BY DEF Immediate, Quick, QuickA, Shifts, e
  <2> HIDE DEF op
  <2>3. JitIndex(op, State(d, a, g, p)) = Wide(b + Wide(w * t) + e)
    BY <2>1, <2>2, StateIs DEF JitIndex, z, b, t
  <2> QED
    BY <2>3 DEF op
<1> HIDE DEF v, w
<1>9. v * t \in Int /\ w * t \in Int
  BY <1>3, <1>6
<1>10. Wide(w * t) = Wide(v * t)
  <2>1. Wide(Wide(w) * t) = Wide(w * t)
    BY <1>3, <1>6, WideParts
  <2>2. Wide(Wide(v) * t) = Wide(v * t)
    BY <1>3, <1>6, WideParts
  <2> QED
    BY <1>6, <2>1, <2>2
<1>11. Wide((b + e) + Wide(v * t)) = Wide((b + e) + v * t)
  <2>1. b + e \in Int
    BY <1>2, <1>4
  <2> QED
    BY <1>9, <2>1, WideParts
<1>12. b + Wide(v * t) + e = (b + e) + Wide(v * t)
  <2>1. Wide(v * t) \in Long /\ Modulus["l"] \in Positive
    BY <1>1, <1>9, CastIs, Moduli
  <2>2. Wide(v * t) \in Int
    BY <2>1 DEF Long, Positive
  <2> QED
    BY <1>2, <1>4, <2>2
<1>13. Wide(b + e + v * t) \in Long
  <2>1. b + e + v * t \in Int
    BY <1>2, <1>4, <1>9
  <2> QED
    BY <1>1, <2>1, CastIs
<1> QED
  BY <1>7, <1>8, <1>10, <1>11, <1>12, <1>13

\* The rest of an instruction is passed over.
LEMMA PastIs ==
  ASSUME NEW d, NEW a, NEW f, NEW p, NEW t
  PROVE  [State(d, a, f, p) EXCEPT !.pc = Wide(@ + t)] = State(d, a, f, Wide(p + t))
  BY DEF State

\* An instruction that only writes an address register.
LEMMA AddressAlike ==
  ASSUME NEW i, i.kind \notin {"Rts", "Branch"}, Writes(i) = {},
         NEW d \in File, NEW a \in File, NEW p \in Long, NEW r \in Regs, NEW v \in Long,
         \A f : /\ Interpret(i, State(d, a, f, p)) = SetA(State(d, a, f, After(i, p)), r, v)
                /\ Computed(Compile(i, p), State(d, a, f, p)) = SetA(State(d, a, f, p), r, v)
  PROVE  \E D, A, W, P : Alike(i, d, a, p, D, A, W, P)
<1> DEFINE A == [a EXCEPT ![r] = v]
<1>1. A \in File
  BY Written
<1>2. {} \in SUBSET Writes(i)
  OBVIOUS
<1>3. ASSUME NEW f
      PROVE  /\ Interpret(i, State(d, a, f, p)) = State(d, A, f, After(i, p))
             /\ Computed(Compile(i, p), State(d, a, f, p)) = State(d, A, f, p)
  BY SetAIs
<1> HIDE DEF A
<1>4. \A f : (f \ Writes(i)) \cup {} = f \ Writes(i)
  OBVIOUS
<1>5. \A f \in SUBSET XNZVC : (f \ Writes(i)) \cup {} = f
  OBVIOUS
<1>6. \A f \in SUBSET XNZVC :
        /\ Interpret(i, State(d, a, f, p)) = State(d, A, (f \ Writes(i)) \cup {}, After(i, p))
        /\ Computed(Compile(i, p), State(d, a, f, p)) = State(d, A, (f \ Writes(i)) \cup {}, p)
  BY <1>3, <1>5
<1>7. Alike(i, d, a, p, d, A, {}, After(i, p))
  BY <1>1, <1>2, <1>6, Together
<1> QED
  BY <1>7

\* MOVEA and LEA of a register.
LEMMA MoveaAlike ==
  ASSUME NEW i \in Instructions, i.kind \in {"MoveaLDnAn", "MoveaLAnAm", "LeaAn"},
         NEW d \in File, NEW a \in File, NEW p \in Long
  PROVE  \E D, A, W, P : Alike(i, d, a, p, D, A, W, P)
<1> DEFINE q == Wide(p + 2)
           v == IF i.kind = "MoveaLDnAn" THEN d[i.y] ELSE a[i.y]
           op == Compile(i, p)
<1>1. i.x \in Regs /\ i.y \in Regs
  BY FieldsOf DEF OnTwo
<1>2. v \in Long
  BY <1>1, Written
<1>3. Writes(i) = {}
  BY DEF Writes, Quick, Shifts, QuickA
<1>4. After(i, p) = q
  <2>1. TailBytes(i) = 0
    BY DEF TailBytes
  <2> QED
    BY <2>1, AfterIs
<1>5. op.dst = i.x /\ op.src = i.y
  BY OpIs DEF ToX
<1>6. ASSUME NEW f
      PROVE  /\ Interpret(i, State(d, a, f, p)) = SetA(State(d, a, f, q), i.x, v)
             /\ Computed(op, State(d, a, f, p)) = SetA(State(d, a, f, p), i.x, v)
  <2> DEFINE m == State(d, a, f, q)
             n == State(d, a, f, p)
  <2>1. m.d = d /\ m.a = a /\ n.d = d /\ n.a = a
    BY StateIs
  <2>2. Interpret(i, n) = DecodeTwo(i, m)
    <3>1. i.kind \in OnTwo /\ m = State(d, a, f, Wide(p + 2))
      BY DEF OnTwo
    <3> HIDE DEF m
    <3> QED
      BY <3>1, Dispatched
  <2>3. /\ i.kind = "MoveaLDnAn" => Computed(op, n) = JitToA(op, n, n.d[op.src])
        /\ i.kind # "MoveaLDnAn" => Computed(op, n) = JitToA(op, n, n.a[op.src])
    BY OpIs
  <2> HIDE DEF m, n, op
  <2>4. DecodeTwo(i, m) = SetA(m, i.x, v)
    BY <2>1 DEF DecodeTwo
  <2>5. Computed(op, n) = SetA(n, i.x, v)
    BY <1>5, <2>1, <2>3 DEF JitToA, SetA
  <2> QED
    BY <2>2, <2>4, <2>5 DEF m, n
<1> HIDE DEF v, q
<1> QED
  BY <1>1, <1>2, <1>3, <1>4, <1>6, AddressAlike DEF op

\* ADDQ and SUBQ to an address register.
LEMMA QuickAAlike ==
  ASSUME NEW i \in Instructions, i.kind \in QuickA,
         NEW d \in File, NEW a \in File, NEW p \in Long
  PROVE  \E D, A, W, P : Alike(i, d, a, p, D, A, W, P)
<1> DEFINE q == Wide(p + 2)
           c == QuickData(i)
           b == a[i.y]
           v == IF i.kind = "AddqAn" THEN Wide(b + c) ELSE Wide(b - c)
           op == Compile(i, p)
<1>0. i.kind \in {"AddqAn", "SubqAn"}
  BY DEF QuickA
<1>1. i.x \in Fields /\ i.y \in Regs
  BY FieldsOf
<1>2. c \in Int /\ b \in Int
  <2>1. c \in 1..8
    BY <1>1, QuickDataIs
  <2>2. b \in Int
    BY <1>1, Written
  <2> QED
    BY <2>1, <2>2
<1>b. b = a[i.y] /\ c = QuickData(i)
  OBVIOUS
<1> HIDE DEF b, c
<1>3. v \in Long
  <2>1. b + c \in Int /\ b - c \in Int /\ "l" \in Sizes
    BY <1>2 DEF Sizes
  <2>2. Wide(b + c) \in Long /\ Wide(b - c) \in Long
    BY <2>1, CastIs
  <2> QED
    BY <2>2
<1>4. Writes(i) = {}
  BY <1>0 DEF Writes, Quick, Shifts, QuickA
<1>5. After(i, p) = q
  <2>1. TailBytes(i) = 0
    BY <1>0 DEF TailBytes
  <2> QED
    BY <2>1, AfterIs
<1>6. op.dst = i.y /\ op.imm = c
  BY <1>0, <1>b, OpIs DEF ToX, Loads, Immediate, QuickA
<1>7. ASSUME NEW f
      PROVE  /\ Interpret(i, State(d, a, f, p)) = SetA(State(d, a, f, q), i.y, v)
             /\ Computed(op, State(d, a, f, p)) = SetA(State(d, a, f, p), i.y, v)
  <2> DEFINE m == State(d, a, f, q)
             n == State(d, a, f, p)
  <2>1. m.a = a /\ n.a = a
    BY StateIs
  <2>2. Interpret(i, n) = DecodeQuickA(i, m)
    BY Dispatched
  <2>3. /\ i.kind = "AddqAn" => Computed(op, n) = JitToA(op, n, Wide(n.a[op.dst] + op.imm))
        /\ i.kind = "SubqAn" => Computed(op, n) = JitToA(op, n, Wide(n.a[op.dst] - op.imm))
    BY OpIs
  <2> HIDE DEF m, n, op
  <2>4. DecodeQuickA(i, m) = SetA(m, i.y, v)
    <3>1. b + (-c) = b - c
      BY <1>2
    <3>2. DecodeQuickA(i, m) = SetA(m, i.y, Wide(b + IF i.kind = "AddqAn" THEN c ELSE -c))
      BY <1>b, <2>1 DEF DecodeQuickA
    <3>3. Wide(b + IF i.kind = "AddqAn" THEN c ELSE -c) = v
      BY <3>1
    <3> QED
      BY <3>2, <3>3
  <2>5. Computed(op, n) = JitToA(op, n, v)
    BY <1>0, <1>6, <1>b, <2>1, <2>3
  <2>6. JitToA(op, n, v) = SetA(n, i.y, v)
    BY <1>6 DEF JitToA, SetA
  <2> QED
    BY <2>2, <2>4, <2>5, <2>6 DEF m, n
<1> HIDE DEF v, q
<1>8. i.kind \notin {"Rts", "Branch"}
  BY <1>0
<1> QED
  BY <1>1, <1>3, <1>4, <1>5, <1>7, <1>8, AddressAlike DEF op

\* LEA with a displacement or an index.
LEMMA LeaAlike ==
  ASSUME NEW i \in Instructions, i.kind \in {"LeaD16", "LeaD8Xn"},
         NEW d \in File, NEW a \in File, NEW p \in Long
  PROVE  \E D, A, W, P : Alike(i, d, a, p, D, A, W, P)
<1> DEFINE q == Wide(p + 2)
           t == Wide(a[i.y] + Extended(i.ext, "w"))
           u == ResolveIndexed(i, State(d, a, {}, q))
           v == IF i.kind = "LeaD16" THEN t ELSE u
           op == Compile(i, p)
<1>1. i.x \in Regs /\ i.y \in Regs /\ i.ext \in Int
  BY FieldsOf
<1>2. t \in Long
  <2>1. "w" \in Sizes /\ "l" \in Sizes
    BY DEF Sizes
  <2>2. Extended(i.ext, "w") \in Long /\ a[i.y] \in Int /\ Modulus["l"] \in Positive
    BY <1>1, <2>1, CastIs, Written, Moduli
  <2>3. a[i.y] + Extended(i.ext, "w") \in Int
    BY <2>2 DEF Long, Positive
  <2> QED
    BY <2>1, <2>3, CastIs
<1>3. i.kind = "LeaD8Xn" => u \in Long
  BY IndexAlike
<1>4. Writes(i) = {}
  BY DEF Writes, Quick, Shifts, QuickA
<1>5. Wide(q + TailBytes(i)) = After(i, p)
  BY AfterIs
<1>6. op.dst = i.x /\ op.src = i.y /\ op.imm = Immediate(i)
  BY OpIs DEF ToX
<1>7. ASSUME NEW f
      PROVE  /\ Interpret(i, State(d, a, f, p)) = SetA(State(d, a, f, After(i, p)), i.x, v)
             /\ Computed(op, State(d, a, f, p)) = SetA(State(d, a, f, p), i.x, v)
  <2> DEFINE m == State(d, a, f, q)
             n == State(d, a, f, p)
  <2>1. m.a = a /\ n.a = a
    BY StateIs
  <2>2. /\ i.kind = "LeaD16" =>
             Interpret(i, n) = PastTail(SetA(m, i.x, Wide(m.a[i.y] + Extended(i.ext, "w"))), i)
        /\ i.kind = "LeaD8Xn" => Interpret(i, n) = PastTail(SetA(m, i.x, ResolveIndexed(i, m)), i)
    BY LeaDispatched
  <2>3. /\ i.kind = "LeaD16" => Computed(op, n) = JitToA(op, n, Wide(n.a[op.src] + op.imm))
        /\ i.kind = "LeaD8Xn" => Computed(op, n) = JitToA(op, n, JitIndex(op, n))
    BY OpIs
  <2>4. i.kind = "LeaD8Xn" => /\ ResolveIndexed(i, m) = JitIndex(op, n)
                              /\ u = JitIndex(op, n)
    BY IndexAlike
  <2>5. i.kind = "LeaD16" => Immediate(i) = Extended(i.ext, "w")
    BY DEF Immediate, Quick, QuickA, Shifts
  <2>6. SetA(m, i.x, v) = State(d, [a EXCEPT ![i.x] = v], f, q)
    BY SetAIs
  <2>7. SetA(State(d, a, f, After(i, p)), i.x, v) = State(d, [a EXCEPT ![i.x] = v], f, After(i, p))
    BY SetAIs
  <2>8. \A z : [State(d, z, f, q) EXCEPT !.pc = Wide(@ + TailBytes(i))] = State(d, z, f, After(i, p))
    <3> HIDE DEF q
    <3> QED
      BY <1>5 DEF State
  <2>9. v = IF i.kind = "LeaD16" THEN t ELSE u
    OBVIOUS
  <2> HIDE DEF m, n, op, u, v
  <2>10. Interpret(i, n) = [SetA(m, i.x, v) EXCEPT !.pc = Wide(@ + TailBytes(i))]
    <3>1. CASE i.kind = "LeaD16"
      <4>1. Wide(m.a[i.y] + Extended(i.ext, "w")) = v
        BY <2>1, <2>9, <3>1
      <4> QED
        BY <2>2, <3>1, <4>1, Zenon DEF PastTail
    <3>2. CASE i.kind = "LeaD8Xn"
      <4>1. ResolveIndexed(i, m) = v
        BY <2>4, <2>9, <3>2
      <4> QED
        BY <2>2, <3>2, <4>1, Zenon DEF PastTail
    <3> QED
      BY <3>1, <3>2
  <2>11. Computed(op, n) = JitToA(op, n, v)
    <3>1. CASE i.kind = "LeaD16"
      BY <1>6, <2>1, <2>3, <2>5, <2>9, <3>1
    <3>2. CASE i.kind = "LeaD8Xn"
      BY <2>3, <2>4, <2>9, <3>2
    <3> QED
      BY <3>1, <3>2
  <2>12. JitToA(op, n, v) = SetA(n, i.x, v)
    BY <1>6 DEF JitToA, SetA
  <2> QED
    BY <2>6, <2>7, <2>8, <2>10, <2>11, <2>12 DEF n
<1>8. v \in Long
  BY <1>2, <1>3
<1> HIDE DEF v, q
<1> QED
  BY <1>1, <1>4, <1>7, <1>8, AddressAlike DEF op

\* EXG.
LEMMA ExgAlike ==
  ASSUME NEW i \in Instructions, i.kind \in {"ExgDnDm", "ExgAnAm", "ExgDnAn"},
         NEW d \in File, NEW a \in File, NEW p \in Long
  PROVE  \E D, A, W, P : Alike(i, d, a, p, D, A, W, P)
<1> DEFINE q == Wide(p + 2)
           x == i.x
           y == i.y
           D == CASE i.kind = "ExgDnDm" -> [[d EXCEPT ![x] = d[y]] EXCEPT ![y] = d[x]]
                  [] i.kind = "ExgAnAm" -> d
                  [] i.kind = "ExgDnAn" -> [d EXCEPT ![x] = a[y]]
           A == CASE i.kind = "ExgDnDm" -> a
                  [] i.kind = "ExgAnAm" -> [[a EXCEPT ![x] = a[y]] EXCEPT ![y] = a[x]]
                  [] i.kind = "ExgDnAn" -> [a EXCEPT ![y] = d[x]]
           op == Compile(i, p)
<1>1. x \in Regs /\ y \in Regs
  BY FieldsOf DEF OnTwo
<1>2. d[x] \in Long /\ d[y] \in Long /\ a[x] \in Long /\ a[y] \in Long
  BY <1>1, Written
<1>3. D \in File
  BY <1>1, <1>2 DEF File
<1>4. A \in File
  BY <1>1, <1>2 DEF File
<1>5. Writes(i) = {} /\ {} \in SUBSET Writes(i)
  BY DEF Writes, Quick, Shifts, QuickA
<1>6. After(i, p) = q
  <2>1. TailBytes(i) = 0
    BY DEF TailBytes
  <2> QED
    BY <2>1, AfterIs
<1>7. op.kind = i.kind /\ op.dst = y /\ op.src = x
  BY OpIs DEF ToX, Loads
<1>8. /\ i.kind = "ExgDnDm" => D = [[d EXCEPT ![x] = d[y]] EXCEPT ![y] = d[x]] /\ A = a
      /\ i.kind = "ExgAnAm" => D = d /\ A = [[a EXCEPT ![x] = a[y]] EXCEPT ![y] = a[x]]
      /\ i.kind = "ExgDnAn" => D = [d EXCEPT ![x] = a[y]] /\ A = [a EXCEPT ![y] = d[x]]
  OBVIOUS
<1> HIDE DEF D, A
<1>9. ASSUME NEW f \in SUBSET XNZVC
      PROVE  /\ Interpret(i, State(d, a, f, p)) = State(D, A, f, q)
             /\ Computed(op, State(d, a, f, p)) = State(D, A, f, p)
  <2> DEFINE m == State(d, a, f, q)
             n == State(d, a, f, p)
  <2>1. m.d = d /\ m.a = a /\ n.d = d /\ n.a = a
    BY StateIs
  <2>2. Interpret(i, n) = DecodeTwo(i, m)
    BY Dispatched DEF OnTwo
  <2>3. Computed(op, n) = JitExg(op, n)
    BY OpIs
  <2> HIDE DEF op, x, y, q
  <2>a. x = i.x /\ y = i.y
    BY DEF x, y
  <2>4. CASE i.kind = "ExgDnDm"
    <3>1. DecodeTwo(i, m) = SetD(SetD(m, x, d[y]), y, d[x])
      BY <2>1, <2>4, <2>a DEF DecodeTwo
    <3>2. SetD(SetD(m, x, d[y]), y, d[x]) = State(D, A, f, q)
      <4> DEFINE e == [d EXCEPT ![x] = d[y]]
      <4>1. SetD(m, x, d[y]) = State(e, a, f, q)
        BY SetDIs
      <4>3. D = [e EXCEPT ![y] = d[x]] /\ A = a
        BY <1>8, <2>4
      <4> HIDE DEF e
      <4>2. SetD(State(e, a, f, q), y, d[x]) = State([e EXCEPT ![y] = d[x]], a, f, q)
        BY SetDIs
      <4> QED
        BY <4>1, <4>2, <4>3
    <3>3. JitExg(op, n) = SetD(SetD(n, x, d[y]), y, d[x])
      <4> HIDE DEF n
      <4> QED
        BY <1>7, <2>1, <2>4 DEF JitExg, SetD
    <3>4. SetD(SetD(n, x, d[y]), y, d[x]) = State(D, A, f, p)
      <4> DEFINE e == [d EXCEPT ![x] = d[y]]
      <4>1. SetD(n, x, d[y]) = State(e, a, f, p)
        BY SetDIs
      <4>3. D = [e EXCEPT ![y] = d[x]] /\ A = a
        BY <1>8, <2>4
      <4> HIDE DEF e
      <4>2. SetD(State(e, a, f, p), y, d[x]) = State([e EXCEPT ![y] = d[x]], a, f, p)
        BY SetDIs
      <4> QED
        BY <4>1, <4>2, <4>3
    <3> QED
      BY <2>2, <2>3, <3>1, <3>2, <3>3, <3>4
  <2>5. CASE i.kind = "ExgAnAm"
    <3>1. DecodeTwo(i, m) = SetA(SetA(m, x, a[y]), y, a[x])
      BY <2>1, <2>5, <2>a DEF DecodeTwo
    <3>2. SetA(SetA(m, x, a[y]), y, a[x]) = State(D, A, f, q)
      <4> DEFINE e == [a EXCEPT ![x] = a[y]]
      <4>1. SetA(m, x, a[y]) = State(d, e, f, q)
        BY SetAIs
      <4>3. D = d /\ A = [e EXCEPT ![y] = a[x]]
        BY <1>8, <2>5
      <4> HIDE DEF e
      <4>2. SetA(State(d, e, f, q), y, a[x]) = State(d, [e EXCEPT ![y] = a[x]], f, q)
        BY SetAIs
      <4> QED
        BY <4>1, <4>2, <4>3
    <3>3. JitExg(op, n) = SetA(SetA(n, x, a[y]), y, a[x])
      <4> HIDE DEF n
      <4> QED
        BY <1>7, <2>1, <2>5 DEF JitExg, SetA
    <3>4. SetA(SetA(n, x, a[y]), y, a[x]) = State(D, A, f, p)
      <4> DEFINE e == [a EXCEPT ![x] = a[y]]
      <4>1. SetA(n, x, a[y]) = State(d, e, f, p)
        BY SetAIs
      <4>3. D = d /\ A = [e EXCEPT ![y] = a[x]]
        BY <1>8, <2>5
      <4> HIDE DEF e
      <4>2. SetA(State(d, e, f, p), y, a[x]) = State(d, [e EXCEPT ![y] = a[x]], f, p)
        BY SetAIs
      <4> QED
        BY <4>1, <4>2, <4>3
    <3> QED
      BY <2>2, <2>3, <3>1, <3>2, <3>3, <3>4
  <2>6. CASE i.kind = "ExgDnAn"
    <3>1. DecodeTwo(i, m) = SetA(SetD(m, x, a[y]), y, d[x])
      BY <2>1, <2>6, <2>a DEF DecodeTwo
    <3>2. SetA(SetD(m, x, a[y]), y, d[x]) = State(D, A, f, q)
      BY <1>8, <2>6, SetDIs, SetAIs
    <3>3. JitExg(op, n) = SetA(SetD(n, x, a[y]), y, d[x])
      <4> HIDE DEF n
      <4> QED
        BY <1>7, <2>1, <2>6 DEF JitExg, SetD, SetA
    <3>4. SetA(SetD(n, x, a[y]), y, d[x]) = State(D, A, f, p)
      BY <1>8, <2>6, SetDIs, SetAIs
    <3> QED
      BY <2>2, <2>3, <3>1, <3>2, <3>3, <3>4
  <2> QED
    BY <2>4, <2>5, <2>6
<1>10. \A f \in SUBSET XNZVC : (f \ Writes(i)) \cup {} = f
  BY <1>5
<1> HIDE DEF q, op
<1>11. Alike(i, d, a, p, D, A, {}, After(i, p))
  BY <1>3, <1>4, <1>5, <1>6, <1>9, <1>10, Together DEF op
<1> QED
  BY <1>11

\* MULU and MULS.
LEMMA MulAlike ==
  ASSUME NEW i \in Instructions, i.kind \in {"Mulu", "Muls"},
         NEW d \in File, NEW a \in File, NEW p \in Long
  PROVE  \E D, A, W, P : Alike(i, d, a, p, D, A, W, P)
<1> DEFINE q == Wide(p + 2)
           x == i.x
           H(r) == IF i.kind = "Muls" THEN Signed(Cast(d[r], "w"), Modulus["w"])
                                      ELSE Cast(d[r], "w")
           u == H(i.x)
           w == H(i.y)
           v == Wide(u * w)
           D == [d EXCEPT ![x] = v]
           W == NZ(v, "l")
           op == Compile(i, p)
<1>1. x \in Regs /\ i.x \in Regs /\ i.y \in Regs /\ "w" \in Sizes /\ "l" \in Sizes
  BY FieldsOf DEF OnTwo, Sizes
<1>2. u \in Int /\ w \in Int
  <2>1. ASSUME NEW r \in Regs PROVE H(r) \in Int
    <3>1. d[r] \in Int
      BY Written
    <3>2. Cast(d[r], "w") \in Long /\ Signed(Cast(d[r], "w"), Modulus["w"]) \in Int
      BY <1>1, <3>1, CastIs
    <3>3. Modulus["l"] \in Positive
      BY <1>1, Moduli
    <3>4. Cast(d[r], "w") \in Int
      BY <3>2, <3>3 DEF Long, Positive
    <3> QED
      BY <3>2, <3>4
  <2> QED
    BY <1>1, <2>1
<1>a. u = H(i.x) /\ w = H(i.y)
  OBVIOUS
<1> HIDE DEF u, w
<1>3. u * w \in Int
  BY <1>2
<1>4. v \in Long
  BY <1>1, <1>3, CastIs
<1>b. Cast(v, "l") = v
  <2>1. v % Modulus["l"] = v
    BY <1>1, <1>4, Moduli, Small DEF Long
  <2> QED
    BY <2>1 DEF Cast
<1>c. v = Word(u * w, Modulus["l"]) /\ v = Wide(u * w)
  BY DEF Wide
<1> HIDE DEF v
<1>5. D \in File
  BY <1>1, <1>4, Written
<1>6. Writes(i) = NZVC /\ W \in SUBSET Writes(i)
  BY NZIs DEF Writes, Quick, Shifts, QuickA
<1>7. After(i, p) = q
  <2>1. TailBytes(i) = 0
    BY DEF TailBytes
  <2> QED
    BY <2>1, AfterIs
<1>8. op.kind = i.kind /\ op.dst = i.x /\ op.src = i.y
  BY OpIs DEF ToX, Loads
<1>9. ASSUME NEW f \in SUBSET XNZVC
      PROVE  /\ Interpret(i, State(d, a, f, p)) = State(D, a, (f \ Writes(i)) \cup W, q)
             /\ Computed(op, State(d, a, f, p)) = State(D, a, (f \ Writes(i)) \cup W, p)
  <2> DEFINE m == State(d, a, f, q)
             n == State(d, a, f, p)
             g == (f \ NZVC) \cup NZ(v, "l")
  <2>1. m.d = d /\ n.d = d /\ n.ccr = f
    BY StateIs
  <2>2. Interpret(i, n) = DecodeMul(i, m)
    <3>1. Interpret(i, n) = DecodeTwo(i, m)
      BY Dispatched DEF OnTwo
    <3> QED
      BY <3>1 DEF DecodeTwo
  <2>3. Computed(op, n) = JitMul(op, n)
    BY OpIs
  <2>4. DecodeMul(i, m) = UpdateCCR(SetD(m, x, v), NZ(v, "l"))
    <3>1. Mul(u, w, Modulus["l"]) = [result |-> v, ccr |-> NZ(v, "l")]
      BY <1>b, <1>c DEF Mul, NZ
    <3>2. DecodeMul(i, m) = UpdateCCR(SetD(m, x, Mul(u, w, Modulus["l"]).result), Mul(u, w, Modulus["l"]).ccr)
      <4> HIDE DEF m
      <4> QED
        BY <1>a, <2>1, Zenon DEF DecodeMul
    <3> QED
      BY <3>1, <3>2
  <2>5. SetD(m, x, v) = State(D, a, f, q)
    BY SetDIs
  <2>6. UpdateCCR(State(D, a, f, q), NZ(v, "l")) = State(D, a, (f \ NZVC) \cup (NZ(v, "l") \cap NZVC), q)
    BY UpdateCCRIs
  <2>7. NZ(v, "l") \cap NZVC = NZ(v, "l")
    BY NZIs
  <2>8. KeepX(f, v, "l") = g
    BY NZIs
  <2>9. JitMul(op, n) = SetCCR(SetD(n, x, v), g)
    <3> HIDE DEF g, n, op
    <3>1. JitMul(op, n) = JitToD(op, n, v)
      BY <1>8, <1>a, <1>c, <2>1 DEF JitMul
    <3> QED
      BY <1>8, <2>1, <2>8, <3>1 DEF JitToD, SetD, SetCCR
  <2>10. SetCCR(SetD(n, x, v), g) = State(D, a, g, p)
    BY SetDIs, SetCCRIs
  <2> HIDE DEF D, m, n
  <2> QED
    BY <1>6, <2>2, <2>3, <2>4, <2>5, <2>6, <2>7, <2>9, <2>10 DEF n
<1> HIDE DEF q, op, D, W
<1>10. Alike(i, d, a, p, D, a, W, After(i, p))
  BY <1>5, <1>6, <1>7, <1>9, Together DEF op
<1> QED
  BY <1>10

\* BTST.
LEMMA BtstAlike ==
  ASSUME NEW i \in Instructions, i.kind = "Btst",
         NEW d \in File, NEW a \in File, NEW p \in Long
  PROVE  \E D, A, W, P : Alike(i, d, a, p, D, A, W, P)
<1> DEFINE q == Wide(p + 2)
           b == HasBit(d[i.y], d[i.x] % Width["l"])
           W == When(~ b, {"Z"})
           op == Compile(i, p)
<1>1. Writes(i) = {"Z"} /\ W \in SUBSET Writes(i)
  BY DEF Writes, Quick, Shifts, QuickA, When
<1>2. After(i, p) = q
  <2>1. TailBytes(i) = 0
    BY DEF TailBytes
  <2> QED
    BY <2>1, AfterIs
<1>3. op.kind = i.kind /\ op.dst = i.y /\ op.src = i.x
  <2>1. i.kind \notin ToX
    BY DEF ToX, Loads
  <2> QED
    BY <2>1, OpFields
<1>4. ASSUME NEW f \in SUBSET XNZVC
      PROVE  /\ Interpret(i, State(d, a, f, p)) = State(d, a, (f \ Writes(i)) \cup W, q)
             /\ Computed(op, State(d, a, f, p)) = State(d, a, (f \ Writes(i)) \cup W, p)
  <2> DEFINE m == State(d, a, f, q)
             n == State(d, a, f, p)
             g == (f \ {"Z"}) \cup When(~ b, {"Z"})
  <2>1. m.d = d /\ m.ccr = f /\ n.d = d /\ n.ccr = f
    BY StateIs
  <2>2. Interpret(i, n) = DecodeBtst(i, m)
    <3>1. Interpret(i, n) = DecodeTwo(i, m)
      BY Dispatched DEF OnTwo
    <3> QED
      BY <3>1 DEF DecodeTwo
  <2>3. Computed(op, n) = JitBtst(op, n)
    BY OpIs
  <2>4. DecodeBtst(i, m) = SetCCR(m, g)
    <3> HIDE DEF m
    <3> QED
      BY <2>1 DEF DecodeBtst
  <2>5. JitBtst(op, n) = SetCCR(n, g)
    <3>1. g = IF b THEN f \ {"Z"} ELSE f \cup {"Z"}
      BY DEF When
    <3>2. JitBtst(op, n) = SetCCR(n, IF b THEN f \ {"Z"} ELSE f \cup {"Z"})
      <4> HIDE DEF n, op
      <4> QED
        BY <1>3, <2>1 DEF JitBtst, SetCCR
    <3> QED
      BY <3>1, <3>2
  <2>6. SetCCR(m, g) = State(d, a, g, q) /\ SetCCR(n, g) = State(d, a, g, p)
    BY SetCCRIs
  <2> QED
    BY <1>1, <2>2, <2>3, <2>4, <2>5, <2>6
<1> HIDE DEF q, op, W
<1>5. Alike(i, d, a, p, d, a, W, After(i, p))
  BY <1>1, <1>2, <1>4, Together DEF op
<1> QED
  BY <1>5

\* NOP.
LEMMA NopAlike ==
  ASSUME NEW i \in Instructions, i.kind = "Nop",
         NEW d \in File, NEW a \in File, NEW p \in Long
  PROVE  \E D, A, W, P : Alike(i, d, a, p, D, A, W, P)
<1>1. Writes(i) = {} /\ {} \in SUBSET Writes(i)
  BY DEF Writes, Quick, Shifts, QuickA
<1>2. After(i, p) = Wide(p + 2)
  <2>1. TailBytes(i) = 0
    BY DEF TailBytes
  <2> QED
    BY <2>1, AfterIs
<1>3. \A f : Interpret(i, State(d, a, f, p)) = State(d, a, f, Wide(p + 2))
  BY Dispatched
<1>4. \A f : Computed(Compile(i, p), State(d, a, f, p)) = State(d, a, f, p)
  BY OpIs
<1>5. \A f \in SUBSET XNZVC : (f \ Writes(i)) \cup {} = f
  BY <1>1
<1>6. Alike(i, d, a, p, d, a, {}, After(i, p))
  BY <1>1, <1>2, <1>3, <1>4, <1>5, Together
<1> QED
  BY <1>6

\* MOVE.L from memory to a data register.
LEMMA LoadAlike ==
  ASSUME NEW i \in Instructions, i.kind \in Loads,
         NEW d \in File, NEW a \in File, NEW p \in Long
  PROVE  \E D, A, W, P : Alike(i, d, a, p, D, A, W, P)
<1> DEFINE q == Wide(p + 2)
           x == i.x
           y == i.y
           t == Wide(a[y] + Extended(i.ext, "w"))
           u == IF i.kind = "MoveLD16" THEN t ELSE a[y]
           c == Wide(u + 4)
           v == Memory[u]
           D == [d EXCEPT ![x] = v]
           A == IF i.kind = "MoveLPostInc" THEN [a EXCEPT ![y] = c] ELSE a
           W == NZ(v, "l")
           op == Compile(i, p)
<1>0. i.kind \in {"MoveLInd", "MoveLPostInc", "MoveLD16"}
  BY DEF Loads
<1>1. x \in Regs /\ y \in Regs /\ i.ext \in Int /\ "l" \in Sizes /\ "w" \in Sizes
  BY FieldsOf DEF Sizes
<1>2. u \in Long /\ u \in Int
  <2>1. Extended(i.ext, "w") \in Long /\ a[y] \in Int /\ a[y] \in Long /\ Modulus["l"] \in Positive
    BY <1>1, CastIs, Written, Moduli
  <2>2. a[y] + Extended(i.ext, "w") \in Int
    BY <2>1 DEF Long, Positive
  <2>3. t \in Long
    BY <1>1, <2>2, CastIs
  <2>4. t \in Int
    BY <2>1, <2>3 DEF Long, Positive
  <2> HIDE DEF t
  <2> QED
    BY <2>1, <2>3, <2>4
<1>a. u = IF i.kind = "MoveLD16" THEN t ELSE a[y]
  OBVIOUS
<1> HIDE DEF u
<1>3. c \in Long
  <2>1. u + 4 \in Int
    BY <1>2
  <2> QED
    BY <1>1, <2>1, CastIs
<1>4. v \in Long
  BY <1>2, GuestAssumption
<1>b. v = Memory[u] /\ c = Wide(u + 4)
  OBVIOUS
<1>k. x = i.x /\ y = i.y
  OBVIOUS
<1> HIDE DEF v, c, x, y
<1>5. D \in File
  BY <1>1, <1>4, Written
<1>6. A \in File
  BY <1>1, <1>3, Written
<1>7. Writes(i) = NZVC /\ W \in SUBSET Writes(i)
  BY <1>0, NZIs DEF Writes, Quick, Shifts, QuickA
<1>8. op.kind = i.kind /\ op.dst = x /\ op.src = y /\ op.imm = Immediate(i)
  <2>1. i.kind \in ToX
    BY DEF ToX
  <2> QED
    BY <1>k, <2>1, OpIs
<1>c. Wide(q + TailBytes(i)) = After(i, p)
  BY AfterIs
<1>d. i.kind = "MoveLD16" => Immediate(i) = Extended(i.ext, "w")
  BY DEF Immediate, Quick, QuickA, Shifts
<1> HIDE DEF q
<1>9. ASSUME NEW f \in SUBSET XNZVC
      PROVE  /\ Interpret(i, State(d, a, f, p)) = State(D, A, (f \ Writes(i)) \cup W, After(i, p))
             /\ Computed(op, State(d, a, f, p)) = State(D, A, (f \ Writes(i)) \cup W, p)
  <2> DEFINE m == State(d, a, f, q)
             n == State(d, a, f, p)
             g == (f \ NZVC) \cup NZ(v, "l")
  <2>0. m = State(d, a, f, q) /\ n = State(d, a, f, p)
    OBVIOUS
  <2>1. m.d = d /\ m.a = a /\ n.d = d /\ n.a = a /\ n.ccr = f
    BY StateIs
  <2>2. Interpret(i, n) = [DecodeLoad(i, m) EXCEPT !.pc = Wide(@ + TailBytes(i))]
    <3>1. Interpret(i, n) = PastTail(DecodeLoad(i, m), i)
      BY Dispatched DEF q
    <3> QED
      BY <3>1 DEF PastTail
  <2>3. Computed(op, n) = JitLoad(op, n)
    BY OpIs
  <2>g. g = (f \ NZVC) \cup NZ(v, "l")
    OBVIOUS
  <2> HIDE DEF m, n, op, g, D
  <2>4. DecodeLoad(i, m) = DecodeMove(v, x, IF i.kind = "MoveLPostInc" THEN SetA(m, y, c) ELSE m)
    BY <1>a, <1>b, <1>k, <2>1 DEF DecodeLoad
  <2>5. (IF i.kind = "MoveLPostInc" THEN SetA(m, y, c) ELSE m) = State(d, A, f, q)
    BY <2>0, SetAIs
  <2> HIDE DEF A
  <2>6. DecodeMove(v, x, State(d, A, f, q)) = SetLogicFlags(State(D, A, f, q), v, "l")
    BY SetDIs DEF DecodeMove, D
  <2>7. SetLogicFlags(State(D, A, f, q), v, "l") = State(D, A, g, q)
    BY <2>g, NZIs
  <2>8. [State(D, A, g, q) EXCEPT !.pc = Wide(@ + TailBytes(i))] = State(D, A, g, After(i, p))
    BY <1>c DEF State
  <2>9. KeepX(f, v, "l") = g
    BY <2>g, NZIs
  <2>10. JitToD(op, n, v) = SetCCR(SetD(n, x, v), g)
    BY <1>8, <2>1, <2>9 DEF JitToD, SetD, SetCCR
  <2>11. SetCCR(SetD(n, x, v), g) = State(D, a, g, p)
    BY <2>0, SetDIs, SetCCRIs DEF D
  <2>12. JitLoad(op, n) = IF i.kind = "MoveLPostInc" THEN SetA(JitToD(op, n, v), y, c)
                                                     ELSE JitToD(op, n, v)
    <3>1. (IF op.kind = "MoveLD16" THEN Wide(n.a[op.src] + op.imm) ELSE n.a[op.src]) = u
      BY <1>8, <1>a, <1>d, <2>1
    <3> QED
      BY <1>8, <1>b, <3>1 DEF JitLoad, SetA
  <2>13. SetA(State(D, a, g, p), y, c) = State(D, [a EXCEPT ![y] = c], g, p)
    BY SetAIs
  <2>14. JitLoad(op, n) = State(D, A, g, p)
    BY <2>10, <2>11, <2>12, <2>13, Zenon DEF A
  <2>15. Interpret(i, n) = State(D, A, g, After(i, p))
    BY <2>2, <2>4, <2>5, <2>6, <2>7, <2>8
  <2> QED
    BY <1>7, <2>0, <2>3, <2>14, <2>15, <2>g
<1> HIDE DEF D, A, W, op
<1>10. i.kind \notin {"Rts", "Branch"}
  BY <1>0
<1>11. Alike(i, d, a, p, D, A, W, After(i, p))
  BY <1>5, <1>6, <1>7, <1>9, <1>10, Together DEF op
<1> QED
  BY <1>11

\* RTS.
LEMMA RtsAlike ==
  ASSUME NEW i \in Instructions, i.kind = "Rts",
         NEW d \in File, NEW a \in File, NEW p \in Long
  PROVE  \E D, A, W, P : Alike(i, d, a, p, D, A, W, P)
<1> DEFINE q == Wide(p + 2)
           v == Wide(a[SP] + 4)
           A == [a EXCEPT ![SP] = v]
           P == Memory[a[SP]]
<1>1. SP \in Regs /\ Memory \in [Long -> Long]
  BY GuestAssumption
<1>2. a[SP] \in Long /\ a[SP] \in Int
  BY <1>1, Written
<1>3. v \in Long
  <2>1. a[SP] + 4 \in Int /\ "l" \in Sizes
    BY <1>2 DEF Sizes
  <2> QED
    BY <2>1, CastIs
<1>4. A \in File /\ P \in Long
  <2> HIDE DEF v
  <2> QED
    BY <1>1, <1>2, <1>3, Written
<1>5. Writes(i) = {} /\ {} \in SUBSET Writes(i)
  BY DEF Writes, Quick, Shifts, QuickA
<1>6. \A f \in SUBSET XNZVC : (f \ Writes(i)) \cup {} = f
  BY <1>5
<1>7. ASSUME NEW f
      PROVE  Interpret(i, State(d, a, f, p)) = State(d, A, f, P)
  <2> DEFINE m == State(d, a, f, q)
  <2>1. Interpret(i, State(d, a, f, p)) = [m EXCEPT !.pc = Memory[m.a[SP]], !.a[SP] = Wide(@ + 4)]
    <3>1. [State(d, a, f, p) EXCEPT !.pc = Wide(@ + 2)] = m
      BY Fetched
    <3> HIDE DEF m
    <3> QED
      BY <3>1 DEF Interpret, Quick, QuickA, Monadic, OnOne, Shifts, OnTwo, Loads
  <2>2. m = [d |-> d, a |-> a, ccr |-> f, pc |-> q]
    BY DEF State
  <2> HIDE DEF m, q
  <2>3. m.a = a
    BY <2>2
  <2>4. [m EXCEPT !.pc = P, !.a = A] = State(d, A, f, P)
    <3>1. m = State(d, a, f, q)
      BY <2>2 DEF State
    <3> HIDE DEF P, A
    <3>2. [State(d, a, f, q) EXCEPT !.pc = P] = State(d, a, f, P)
      BY DEF State
    <3>3. [State(d, a, f, P) EXCEPT !.a = A] = State(d, A, f, P)
      BY DEF State
    <3>4. \A o : [o EXCEPT !.pc = P, !.a = A] = [[o EXCEPT !.pc = P] EXCEPT !.a = A]
      OBVIOUS
    <3> QED
      BY <3>1, <3>2, <3>3, <3>4
  <2>5. [m EXCEPT !.pc = Memory[m.a[SP]], !.a[SP] = Wide(@ + 4)] = [m EXCEPT !.pc = P, !.a = A]
    BY <2>2, <2>3
  <2> QED
    BY <2>1, <2>4, <2>5
<1>8. ASSUME NEW f, NEW b \in BOOLEAN
      PROVE  Execute(Compile(i, p), State(d, a, f, p), b) = State(d, A, f, P)
  <2> DEFINE op == Compile(i, p)
             n == State(d, a, f, p)
  <2>1. op.kind = "Rts" /\ Computed(op, n) = [n EXCEPT !.a[SP] = Wide(@ + 4)]
    BY OpIs
  <2>2. n = [d |-> d, a |-> a, ccr |-> f, pc |-> p]
    BY DEF State
  <2> HIDE DEF op, n
  <2>3. n.a = a /\ n.ccr = f
    BY <2>2
  <2>4. Computed(op, n) = State(d, A, f, p)
    BY <2>1, <2>2 DEF State
  <2>5. Execute(op, n, b) = [State(d, A, f, p) EXCEPT !.ccr = IF b \/ op.kind = "Cmp" THEN @ ELSE f,
                                                      !.pc = P]
    BY <2>1, <2>3, <2>4 DEF Execute
  <2>6. Execute(op, n, b) = State(d, A, f, P)
    BY <2>5 DEF State
  <2> QED
    BY <2>6 DEF op, n
<1> HIDE DEF A, P
<1>9. \A f : /\ Interpret(i, State(d, a, f, p)) = State(d, A, f, P)
             /\ Execute(Compile(i, p), State(d, a, f, p), TRUE) = State(d, A, f, P)
             /\ Execute(Compile(i, p), State(d, a, f, p), FALSE) = State(d, A, f, P)
  BY <1>7, <1>8
<1>10. Alike(i, d, a, p, d, A, {}, P)
  BY <1>4, <1>5, <1>6, <1>9 DEF Alike
<1> QED
  BY <1>10

\* The address a branch goes to.
LEMMA TargetIs ==
  ASSUME NEW i \in Instructions, i.kind = "Branch", NEW p \in Long
  PROVE  /\ Compile(i, p).branchTarget = Wide(Wide(p + 2) + Extended(i.ext, i.size))
         /\ Compile(i, p).branchTarget \in Long
<1> DEFINE e == Extended(i.ext, i.size)
           q == Wide(p + 2)
           t == Wide(p + 2 + TailBytes(i))
<1>1. i.size \in {"b", "w"} /\ i.ext \in Int /\ i.size \in Sizes /\ "l" \in Sizes
  BY FieldsOf DEF Sizes
<1>2. e \in Int
  <2>1. e \in Long /\ Modulus["l"] \in Positive
    BY <1>1, CastIs, Moduli
  <2> QED
    BY <2>1 DEF Long, Positive
<1>3. p \in Int /\ q \in Long /\ t \in Long /\ q \in Int /\ t \in Int
  <2>1. p \in Int /\ q \in Long /\ t \in Long /\ Modulus["l"] \in Positive
    BY <1>1, AfterIs, Moduli DEF After
  <2> QED
    BY <2>1 DEF Long, Positive
<1>4. Compile(i, p).branchTarget = Wide((IF i.size = "w" THEN t - 2 ELSE t) + e)
  BY DEF Compile
<1> HIDE DEF e
<1>5. Wide(q + e) = Wide((p + 2) + e)
  <2>1. p + 2 \in Int
    BY <1>3
  <2> QED
    BY <1>2, <2>1, WideParts
<1>6. CASE i.size = "w"
  <2>1. TailBytes(i) = 2
    BY <1>6 DEF TailBytes
  <2>2. t = Wide(p + 4)
    <3>1. p + 2 + TailBytes(i) = p + 4
      BY <1>3, <2>1
    <3> QED
      BY <3>1
  <2>3. Wide(Wide(p + 4) + (e - 2)) = Wide((p + 4) + (e - 2))
    <3>1. p + 4 \in Int /\ e - 2 \in Int
      BY <1>2, <1>3
    <3> QED
      BY <3>1, WideParts
  <2>4. (t - 2) + e = t + (e - 2) /\ (p + 4) + (e - 2) = (p + 2) + e
    <3> HIDE DEF t
    <3> QED
      BY <1>2, <1>3
  <2>5. Compile(i, p).branchTarget = Wide(t + (e - 2))
    <3> HIDE DEF t
    <3> QED
      BY <1>4, <1>6, <2>4
  <2>6. Wide(t + (e - 2)) = Wide((p + 2) + e)
    <3> HIDE DEF t
    <3> QED
      BY <2>2, <2>3, <2>4
  <2>7. Wide(t + (e - 2)) \in Long
    <3>1. t + (e - 2) \in Int
      BY <1>2, <1>3
    <3> QED
      BY <1>1, <3>1, CastIs
  <2> HIDE DEF q, t
  <2> QED
    BY <1>5, <2>5, <2>6, <2>7 DEF q, e
<1>7. CASE i.size # "w"
  <2>1. TailBytes(i) = 0
    BY <1>7 DEF TailBytes
  <2>2. t = q
    BY <2>1, AfterIs DEF After
  <2>3. Compile(i, p).branchTarget = Wide(q + e)
    BY <1>4, <1>7, <2>2
  <2>4. Wide(q + e) \in Long
    <3>1. q + e \in Int
      BY <1>2, <1>3
    <3> QED
      BY <1>1, <3>1, CastIs
  <2> QED
    BY <2>3, <2>4 DEF e
<1> QED
  BY <1>6, <1>7

\* A branch is taken in one machine as in the other if the flags other than X
\* are the same.
LEMMA BranchAlike ==
  ASSUME NEW i \in Instructions, i.kind = "Branch", NEW d, NEW a, NEW p \in Long,
         NEW f, NEW g, f \cap NZVC = g \cap NZVC, NEW b \in BOOLEAN
  PROVE  \E P \in Long : /\ Interpret(i, State(d, a, f, p)) = State(d, a, f, P)
                         /\ Execute(Compile(i, p), State(d, a, g, p), b) = State(d, a, g, P)
<1> DEFINE q == Wide(p + 2)
           T(h) == i.cond = "T" \/ EvaluateCondition(i.cond, h)
           op == Compile(i, p)
           t == op.branchTarget
           P == IF T(f) THEN t ELSE After(i, p)
<1>1. T(f) <=> T(g)
  <2>1. \A z \in NZVC : z \in f <=> z \in g
    OBVIOUS
  <2>2. /\ "N" \in f <=> "N" \in g
        /\ "Z" \in f <=> "Z" \in g
        /\ "V" \in f <=> "V" \in g
        /\ "C" \in f <=> "C" \in g
    BY <2>1 DEF NZVC
  <2>3. EvaluateCondition(i.cond, f) = EvaluateCondition(i.cond, g)
    BY <2>2 DEF EvaluateCondition
  <2> QED
    BY <2>3
<1>2. t = Wide(q + Extended(i.ext, i.size)) /\ t \in Long
  BY TargetIs
<1>3. Wide(q + TailBytes(i)) = After(i, p) /\ After(i, p) \in Long
  BY AfterIs
<1>4. P \in Long
  BY <1>2, <1>3
<1>5. /\ op.kind = "Branch" /\ op.insn = i /\ op.fallthroughPC = After(i, p)
      /\ Computed(op, State(d, a, g, p)) = State(d, a, g, p)
  BY OpIs
<1> HIDE DEF op, t
<1>6. Interpret(i, State(d, a, f, p)) = State(d, a, f, P)
  <2> DEFINE m == State(d, a, f, q)
  <2>1. Interpret(i, State(d, a, f, p)) = DecodeBranch(i, m)
    BY Dispatched
  <2>2. m.pc = q /\ m.ccr = f
    BY StateIs
  <2>3. \A z : [m EXCEPT !.pc = z] = State(d, a, f, z)
    BY DEF State
  <2> HIDE DEF m, q
  <2>4. DecodeBranch(i, m) = [m EXCEPT !.pc = P]
    BY <1>2, <1>3, <2>2 DEF DecodeBranch
  <2> QED
    BY <2>1, <2>3, <2>4
<1>7. Execute(op, State(d, a, g, p), b) = State(d, a, g, P)
  <2> DEFINE n == State(d, a, g, p)
  <2>1. n.ccr = g
    BY StateIs
  <2>2. [n EXCEPT !.ccr = g, !.pc = P] = State(d, a, g, P)
    <3> HIDE DEF P
    <3>1. [State(d, a, g, p) EXCEPT !.ccr = g] = State(d, a, g, p)
      BY DEF State
    <3>2. [State(d, a, g, p) EXCEPT !.pc = P] = State(d, a, g, P)
      BY DEF State
    <3>3. \A o : [o EXCEPT !.ccr = g, !.pc = P] = [[o EXCEPT !.ccr = g] EXCEPT !.pc = P]
      OBVIOUS
    <3> QED
      BY <3>1, <3>2, <3>3
  <2>a. Computed(op, n) = n
    BY <1>5
  <2> HIDE DEF n
  <2>3. P = IF T(g) THEN op.branchTarget ELSE op.fallthroughPC
    BY <1>1, <1>5 DEF t
  <2>4. Execute(op, n, b) = [n EXCEPT !.ccr = g, !.pc = P]
    <3> HIDE DEF P
    <3> QED
      BY <1>5, <2>1, <2>3, <2>a DEF Execute
  <2> QED
    BY <2>2, <2>4 DEF n
<1> HIDE DEF P
<1> QED
  BY <1>4, <1>6, <1>7 DEF op

\* Every instruction but a branch.
LEMMA EachAlike ==
  ASSUME NEW i \in Instructions, i.kind # "Branch",
         NEW d \in File, NEW a \in File, NEW p \in Long
  PROVE  \E D, A, W, P : Alike(i, d, a, p, D, A, W, P)
<1>1. CASE i.kind \in {"Add", "Sub", "Cmp"}
  BY <1>1, ArithAlike
<1>2. CASE i.kind \in {"And", "Or", "Eor"}
  BY <1>2, LogicAlike DEF Operators
<1>3. CASE i.kind \in Quick \cup {"Neg"}
  BY <1>3, QuickAlike
<1>4. CASE i.kind \in {"Clr", "Tst", "Not"}
  BY <1>4, MonadicAlike
<1>5. CASE i.kind \in OnOne
  BY <1>5, OnOneAlike
<1>6. CASE i.kind \in Shifts
  BY <1>6, ShiftAlike
<1>7. CASE i.kind \in {"Moveq", "MoveLDnDm", "MoveLAnDn"}
  BY <1>7, MoveAlike
<1>8. CASE i.kind \in {"MoveaLDnAn", "MoveaLAnAm", "LeaAn"}
  BY <1>8, MoveaAlike
<1>9. CASE i.kind \in QuickA
  BY <1>9, QuickAAlike
<1>10. CASE i.kind \in {"LeaD16", "LeaD8Xn"}
  BY <1>10, LeaAlike
<1>11. CASE i.kind \in {"ExgDnDm", "ExgAnAm", "ExgDnAn"}
  BY <1>11, ExgAlike
<1>12. CASE i.kind \in {"Mulu", "Muls"}
  BY <1>12, MulAlike
<1>13. CASE i.kind = "Btst"
  BY <1>13, BtstAlike
<1>14. CASE i.kind \in Loads
  BY <1>14, LoadAlike
<1>15. CASE i.kind = "Nop"
  BY <1>15, NopAlike
<1>16. CASE i.kind = "Rts"
  BY <1>16, RtsAlike
<1>17. i.kind \in UNION {Dyadic, Monadic, Quick, QuickA, Shifts, OnOne, OnTwo, Loads,
                         {"Moveq", "LeaD16", "LeaD8Xn", "Nop", "Rts", "Branch"}}
  BY FieldsOf
<1> QED
  BY <1>1, <1>2, <1>3, <1>4, <1>5, <1>6, <1>7, <1>8, <1>9, <1>10, <1>11, <1>12, <1>13, <1>14,
     <1>15, <1>16, <1>17 DEF Dyadic, Monadic, OnTwo

-----------------------------------------------------------------------------
(* The two machines.                                                       *)

Machine == [d : File, a : File, ccr : SUBSET XNZVC, pc : Long]

\* The two machines are machines, and agree.
DataInv ==
  /\ cpu \in Machine
  /\ jit \in Machine
  /\ stale \in SUBSET XNZVC
  /\ JitAgrees

\* A machine is made of its parts.
LEMMA MachineIs ==
  ASSUME NEW m \in Machine
  PROVE  /\ m = State(m.d, m.a, m.ccr, m.pc)
         /\ m.d \in File /\ m.a \in File /\ m.ccr \in SUBSET XNZVC /\ m.pc \in Long
  BY DEF Machine, State

\* Typed parts make a machine.
LEMMA StateTyped ==
  ASSUME NEW d \in File, NEW a \in File, NEW f \in SUBSET XNZVC, NEW p \in Long
  PROVE  State(d, a, f, p) \in Machine
  BY DEF Machine, State

\* An instruction writes flags.
LEMMA WritesFlags ==
  ASSUME NEW i \in Instructions
  PROVE  Writes(i) \in SUBSET XNZVC
  BY DEF Writes, XNZVC, NZVC

\* Two machines that agree, from their parts.
LEMMA AgreeIs ==
  ASSUME NEW d \in File, NEW a \in File, NEW f \in SUBSET XNZVC, NEW g \in SUBSET XNZVC,
         NEW p \in Long,
         cpu' = State(d, a, f, p), jit' = State(d, a, g, p),
         stale' \in SUBSET XNZVC, f \ stale' = g \ stale'
  PROVE  DataInv'
<1>1. cpu' \in Machine /\ jit' \in Machine
  BY StateTyped
<1>2. /\ cpu'.d = d /\ cpu'.a = a /\ cpu'.ccr = f /\ cpu'.pc = p
      /\ jit'.d = d /\ jit'.a = a /\ jit'.ccr = g /\ jit'.pc = p
  BY StateIs
<1> QED
  BY <1>1, <1>2 DEF DataInv, JitAgrees

\* One instruction leaves machines that agree so.
LEMMA StepAgrees ==
  ASSUME DataInv, NEW i \in Instructions, NEW n \in BOOLEAN, NEW hit \in BOOLEAN,
         Step(i, n, hit)
  PROVE  DataInv'
<1> DEFINE d == cpu.d
           a == cpu.a
           p == cpu.pc
           f == cpu.ccr
           g == jit.ccr
           X == Writes(i)
           bails == i.kind \in Loads \cup {"Rts"} /\ ~ hit
           now == n \/ bails \/ i.kind = "Cmp"
<1>1. /\ d \in File /\ a \in File /\ p \in Long /\ f \in SUBSET XNZVC /\ g \in SUBSET XNZVC
      /\ stale \in SUBSET XNZVC /\ f \ stale = g \ stale
      /\ cpu = State(d, a, f, p)
      /\ jit = State(d, a, g, p) /\ jit.pc = p
  BY MachineIs DEF DataInv, JitAgrees
<1>2. /\ i.kind = "Branch" => stale \cap NZVC = {}
      /\ cpu' = Interpret(i, cpu)
      /\ jit' = IF bails THEN Interpret(i, jit) ELSE Execute(Compile(i, jit.pc), jit, n)
      /\ stale' = IF now THEN stale \ X ELSE stale \cup X
  BY DEF Step
<1>3. X \in SUBSET XNZVC
  BY WritesFlags
<1>4. i.kind = "Branch" => X = {} /\ ~ bails
  BY DEF Writes, Quick, Shifts, QuickA, Loads
<1>5. bails \in BOOLEAN /\ (now <=> n \/ bails \/ i.kind = "Cmp")
  OBVIOUS
<1> HIDE DEF d, a, p, f, g, X, bails, now
<1>6. CASE i.kind = "Branch"
  <2>1. f \cap NZVC = g \cap NZVC
    BY <1>1, <1>2, <1>6
  <2>2. PICK P \in Long : /\ Interpret(i, State(d, a, f, p)) = State(d, a, f, P)
                          /\ Execute(Compile(i, p), State(d, a, g, p), n) = State(d, a, g, P)
    BY <1>1, <1>6, <2>1, BranchAlike
  <2>3. cpu' = State(d, a, f, P) /\ jit' = State(d, a, g, P) /\ stale' = stale
    BY <1>1, <1>2, <1>4, <1>6, <2>2
  <2> QED
    BY <1>1, <2>3, AgreeIs
<1>7. CASE i.kind # "Branch"
  <2>1. PICK D, A, W, P : Alike(i, d, a, p, D, A, W, P)
    BY <1>1, <1>7, EachAlike
  <2>2. D \in File /\ A \in File /\ W \in SUBSET X /\ P \in Long
    BY <2>1 DEF Alike, X
  <2> DEFINE F == (f \ X) \cup W
             G == (g \ X) \cup W
  <2>3. /\ Interpret(i, State(d, a, f, p)) = State(D, A, F, P)
        /\ Interpret(i, State(d, a, g, p)) = State(D, A, G, P)
        /\ Execute(Compile(i, p), State(d, a, g, p), TRUE) = State(D, A, G, P)
        /\ Execute(Compile(i, p), State(d, a, g, p), FALSE) =
             State(D, A, IF i.kind = "Cmp" THEN G ELSE g, P)
    BY <1>1, <2>1 DEF Alike, X
  <2>4. F \in SUBSET XNZVC /\ G \in SUBSET XNZVC
    BY <1>1, <1>3, <2>2
  <2>5. F \ (stale \ X) = G \ (stale \ X) /\ F \ (stale \cup X) = g \ (stale \cup X)
    BY <1>1, <2>2
  <2> HIDE DEF F, G
  <2>6. cpu' = State(D, A, F, P)
    BY <1>1, <1>2, <2>3
  <2>7. CASE now
    <3>1. jit' = State(D, A, G, P)
      <4>1. CASE bails
        BY <1>1, <1>2, <2>3, <4>1
      <4>2. CASE ~ bails /\ n
        <5>1. n = TRUE
          BY <4>2
        <5> QED
          BY <1>1, <1>2, <2>3, <4>2, <5>1
      <4>3. CASE ~ bails /\ ~ n
        <5>1. n = FALSE /\ i.kind = "Cmp"
          BY <1>5, <2>7, <4>3
        <5> QED
          BY <1>1, <1>2, <2>3, <4>3, <5>1
      <4> QED
        BY <4>1, <4>2, <4>3
    <3>2. stale' = stale \ X /\ stale' \in SUBSET XNZVC
      BY <1>1, <1>2, <2>7
    <3> QED
      BY <2>2, <2>4, <2>5, <2>6, <3>1, <3>2, AgreeIs
  <2>8. CASE ~ now
    <3>1. ~ bails /\ n = FALSE /\ i.kind # "Cmp"
      BY <1>5, <2>8
    <3>2. jit' = State(D, A, g, P)
      BY <1>1, <1>2, <2>3, <3>1
    <3>3. stale' = stale \cup X /\ stale' \in SUBSET XNZVC
      BY <1>1, <1>2, <1>3, <2>8
    <3> QED
      BY <1>1, <2>2, <2>4, <2>5, <2>6, <3>2, <3>3, AgreeIs
  <2> QED
    BY <2>7, <2>8
<1> QED
  BY <1>6, <1>7

\* The interpreter and the JIT stay in step, whatever the instructions.
THEOREM DataInvariant == DataSpec => []DataInv
<1>1. DataInit => DataInv
  <2> SUFFICES ASSUME DataInit PROVE DataInv
    OBVIOUS
  <2>1. /\ cpu \in [d : Files(DataValues), a : Files(AddressValues), ccr : Codes, pc : {Entry}]
        /\ jit = cpu /\ stale = {}
    BY DEF DataInit
  <2>2. Files(DataValues) \subseteq File /\ Files(AddressValues) \subseteq File
    BY GuestAssumption DEF Files, File
  <2>3. Codes \subseteq SUBSET XNZVC /\ Entry \in Long
    BY GuestAssumption
  <2>4. cpu \in Machine
    BY <2>1, <2>2, <2>3 DEF Machine
  <2> QED
    BY <2>1, <2>4 DEF DataInv, JitAgrees
<1>2. DataInv /\ [DataNext]_dataVars => DataInv'
  <2> SUFFICES ASSUME DataInv, [DataNext]_dataVars PROVE DataInv'
    OBVIOUS
  <2>1. CASE DataNext
    BY <2>1, StepAgrees DEF DataNext
  <2>2. CASE UNCHANGED dataVars
    BY <2>2 DEF DataInv, JitAgrees, dataVars
  <2> QED
    BY <2>1, <2>2
<1> QED
  BY <1>1, <1>2, PTL DEF DataSpec

\* The interpreter and the JIT leave the same registers, go on at the same
\* address and, but for flags left out as dead, leave the same flags, for every
\* width of a byte, every memory and every sequence of instructions.
THEOREM ExecutesAlike == DataSpec => []JitAgrees
<1>1. DataInv => JitAgrees
  BY DEF DataInv
<1> QED
  BY <1>1, DataInvariant, PTL
=============================================================================
