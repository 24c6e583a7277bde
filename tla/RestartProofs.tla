---------------------------- MODULE RestartProofs ----------------------------
(***************************************************************************)
(* An instruction restarted after faults, for every instruction of the     *)
(* coded forms, every operand and address and any pages missing or taken.  *)
(*                                                                         *)
(* One run of a handler is compared, step by step, with the run of the     *)
(* same handler from the instruction's first state with every page mapped. *)
(* Sim says how far the two agree: while nothing was missing and nothing   *)
(* an earlier attempt left half changed was read, in all that counts;      *)
(* and in any case the first has written no cell the second does not, and  *)
(* has changed nothing that a fault will not take back. Each access and    *)
(* each handler keeps it. The two runs need not take the same branch once  *)
(* a fault has put a zero for what was to be read (CAS, CAS2, FRESTORE):   *)
(* Forked is about that.                                                   *)
(*                                                                         *)
(* The invariant of the loop then says of each attempt that it begins as   *)
(* the first one did but for cells the instruction writes and never reads. *)
(***************************************************************************)
EXTENDS Restart, TLAPS

-----------------------------------------------------------------------------
(* Two runs side by side: M is the machine, W the one with nothing missing. *)

\* The parts of a machine, of a handler's variables and of what is kept.
Fields == {"r", "ccr", "pc", "mem", "map", "kept", "fault", "ad", "reads", "writes", "t"}
Temps == {"op", "x", "y", "e", "p"}
Keys == {"sfc", "dfc", "mmu", "fp", "stopped", "shadow"}

\* A machine has all its parts.
Shape(M) ==
    /\ DOMAIN M = Fields /\ DOMAIN M.t = Temps
    /\ M.mem = [a \in Cell |-> M.mem[a]] /\ M.kept = [x \in Keys |-> M.kept[x]]

Everything == [p \in Page |-> "rw"]

\* A run with nothing missing, after at most k words.
Whole(k, W) ==
    /\ Shape(W) /\ W.map = Everything /\ W.fault = None
    /\ W.r \in [Reg -> Int] /\ W.ccr \in Int /\ W.ad \in Int
    /\ W.pc \in Int /\ (k < 5 => W.pc \in 0..k)
    /\ \A a \in Cell : W.mem[a] \in Int
    /\ \A x \in Temps : W.t[x] \in Int
    /\ \A x \in Coprocessor : W.kept[x] \in Int

\* What a run may have done to the machine c.begin it began with.
Sound(c, M) ==
    /\ Shape(M) /\ M.map = c.begin.map
    /\ M.fault = None \/ ~Mapped(M, M.fault.page, M.fault.write)
    /\ \A a \in Cell : a \in M.writes \/ M.mem[a] = c.begin.mem[a]
    /\ \A x \in Keys : x \in c.loose \/ M.kept[x] = c.begin.kept[x]

\* Nothing was missing yet, and nothing half done was read.
Same(c, M, W) == Ok(M) /\ W.reads \cap c.half = {}

\* The registers agree, and of the handler's own variables those in A.
SameRegs(A, M, W) ==
    /\ M.r = W.r /\ M.ccr = W.ccr /\ M.pc = W.pc
    /\ \A f \in Temps : f \in A => M.t[f] = W.t[f]
    /\ "ad" \in A => M.ad = W.ad

SameMem(c, M, W) ==
    \A a \in Cell : a \in W.writes \/ a \notin c.half => M.mem[a] = W.mem[a]

SameKept(c, A, M, W) ==
    \A x \in Keys : x \notin c.loose \/ x \in A => M.kept[x] = W.kept[x]

Alike(c, A, M, W) ==
    /\ M.reads = W.reads /\ M.writes = W.writes
    /\ SameRegs(A, M, W) /\ SameMem(c, M, W) /\ SameKept(c, A, M, W)

Sim(c, k, A, M, W) ==
    /\ Sound(c, M) /\ Whole(k, W)
    /\ W.reads \cap c.half = {} => M.writes \subseteq W.writes
    /\ Same(c, M, W) => Alike(c, A, M, W)

\* From M to N, and from W to V: a fault stays and ends the writing, and a run
\* reads and writes ever more.
Onward(M, W, N, V) ==
    /\ ~Ok(M) => ~Ok(N) /\ N.writes = M.writes
    /\ W.reads \subseteq V.reads /\ W.writes \subseteq V.writes

\* What holds of both runs later held before.
LEMMA OnwardSame ==
  ASSUME NEW c, NEW M, NEW W, NEW N, NEW V, Onward(M, W, N, V), Same(c, N, V)
  PROVE  Same(c, M, W)
  BY DEF Onward, Same

\* Two steps are one.
LEMMA OnwardOn ==
  ASSUME NEW M, NEW W, NEW N, NEW V, Onward(M, W, N, V), NEW L, NEW U, Onward(N, V, L, U)
  PROVE  Onward(M, W, L, U)
  BY DEF Onward

\* No step is one.
LEMMA OnwardStay ==
  ASSUME NEW M, NEW W
  PROVE  Onward(M, W, M, W)
  BY DEF Onward

\* The parts that only loads, stores and faults change.
Untouched(M, N) ==
    /\ Shape(N) /\ N.map = M.map /\ N.fault = M.fault /\ N.mem = M.mem /\ N.kept = M.kept
    /\ N.writes = M.writes

\* The run with nothing missing touches nothing that faults.
LEMMA WholeTouch ==
  ASSUME NEW k, NEW W, Whole(k, W), NEW p \in Page, NEW write
  PROVE  Touch(W, p, write) = W
  BY DEF Whole, Touch, Ok, Mapped, Everything

\* Only the fault is noted.
TouchOnly(M, N) ==
    /\ Shape(N) /\ N.map = M.map /\ N.mem = M.mem /\ N.kept = M.kept /\ N.t = M.t
    /\ N.r = M.r /\ N.reads = M.reads /\ N.writes = M.writes /\ N.ad = M.ad
    /\ N.ccr = M.ccr /\ N.pc = M.pc
    /\ ~Ok(M) => N = M
    /\ N.fault = M.fault \/ ~Mapped(N, N.fault.page, N.fault.write)

\* A translation does no more than note a fault, and notes a true one.
LEMMA TouchKeeps ==
  ASSUME NEW M, Shape(M), NEW p, NEW write
  PROVE  TouchOnly(M, Touch(M, p, write))
<1> DEFINE N == Touch(M, p, write)
<1>1. CASE Ok(M) /\ ~Mapped(M, p, write)
  <2>1. N = [M EXCEPT !.fault = Fault(p, write)]
    BY <1>1 DEF Touch
  <2> HIDE DEF N
  <2>2. /\ DOMAIN N = DOMAIN M /\ N.fault = Fault(p, write) /\ N.map = M.map /\ N.mem = M.mem
        /\ N.kept = M.kept /\ N.t = M.t /\ N.r = M.r /\ N.reads = M.reads /\ N.writes = M.writes
        /\ N.ad = M.ad /\ N.ccr = M.ccr /\ N.pc = M.pc
    BY <2>1 DEF Shape, Fields
  <2>3. ~Mapped(N, N.fault.page, N.fault.write)
    BY <1>1, <2>2 DEF Mapped, Fault
  <2>4. Shape(N)
    BY <2>2 DEF Shape
  <2> QED
    BY <1>1, <2>2, <2>3, <2>4 DEF N, TouchOnly
<1>2. CASE ~(Ok(M) /\ ~Mapped(M, p, write))
  BY <1>2 DEF Touch, TouchOnly
<1> QED
  BY <1>1, <1>2

\* The faulty run may look for a page the other need not.
LEMMA TouchSim ==
  ASSUME NEW c, NEW k, NEW A, NEW M, NEW W, Sim(c, k, A, M, W), NEW p, NEW write
  PROVE  /\ Sim(c, k, A, Touch(M, p, write), W)
         /\ TouchOnly(M, Touch(M, p, write)) /\ Shape(Touch(M, p, write))
<1> DEFINE N == Touch(M, p, write)
<1>1. TouchOnly(M, N)
  BY TouchKeeps DEF Sim, Sound
<1>2. Ok(N) => Ok(M)
  BY <1>1 DEF TouchOnly
<1> HIDE DEF N
<1>3. Sound(c, N)
  BY <1>1 DEF Sim, Sound, Mapped, TouchOnly
<1>4. Same(c, N, W) => Same(c, M, W)
  BY <1>2 DEF Same
<1>5. Alike(c, A, M, W) => Alike(c, A, N, W)
  BY <1>1 DEF Alike, SameRegs, SameMem, SameKept, TouchOnly
<1>6. Sim(c, k, A, N, W)
  BY <1>1, <1>3, <1>4, <1>5 DEF Sim, TouchOnly
<1> QED
  BY <1>1, <1>6 DEF N, TouchOnly

\* A step that changes neither memory nor what is kept.
LEMMA QuietSim ==
  ASSUME NEW c, NEW k, NEW A, NEW M, NEW W, Sim(c, k, A, M, W),
         NEW l, NEW B, NEW N, NEW V, Untouched(M, N), Untouched(W, V), Whole(l, V),
         W.reads \subseteq V.reads, B \cap Keys \subseteq A,
         Same(c, M, W) /\ Same(c, N, V) /\ Alike(c, A, M, W)
           => N.reads = V.reads /\ SameRegs(B, N, V)
  PROVE  Sim(c, l, B, N, V) /\ Onward(M, W, N, V)
<1>1. Sound(c, N)
  BY DEF Sim, Sound, Untouched, Mapped, Ok
<1>2. Same(c, N, V) => Same(c, M, W)
  BY DEF Untouched, Same, Ok
<1>3. Alike(c, A, M, W) => SameMem(c, N, V) /\ SameKept(c, B, N, V) /\ N.writes = V.writes
  BY DEF Alike, SameMem, SameKept, Untouched
<1>4. Same(c, N, V) => Alike(c, B, N, V)
  BY <1>2, <1>3 DEF Sim, Alike
<1>5. V.reads \cap c.half = {} => N.writes \subseteq V.writes
  BY DEF Sim, Untouched
<1>6. Onward(M, W, N, V)
  BY DEF Onward, Untouched, Ok
<1> QED
  BY <1>1, <1>4, <1>5, <1>6 DEF Sim, Untouched

\* Less may be claimed.
LEMMA Weaker ==
  ASSUME NEW c, NEW k \in 0..5, NEW l \in 0..5, k <= l, NEW A, NEW B, NEW M, NEW W,
         Sim(c, k, A, M, W), B \subseteq A
  PROVE  Sim(c, l, B, M, W)
<1>1. Whole(l, W)
  BY DEF Sim, Whole
<1>2. Alike(c, A, M, W) => Alike(c, B, M, W)
  BY DEF Alike, SameRegs, SameKept
<1> QED
  BY <1>1, <1>2 DEF Sim

\* Words fetched: the opcode, the first and the second after it; or no more fetched.
First == 1
Second == 2
Third == 3
Last == 5

\* None of the handler's variables.
Nothing == {}

\* The bounds the lemmas ask for.
LEMMA Words ==
  /\ First \in 0..2 /\ Second \in 0..2 /\ Third \in 0..5 /\ Last \in 0..5
  /\ First \in 0..3 /\ Second \in 0..3 /\ First \in 0..5 /\ Second \in 0..5
  /\ First < Second /\ First < Third /\ Second < Third
  BY DEF First, Second, Third, Last

\* For instantiation.
LEMMA NothingMore == Nothing \subseteq Nothing
  OBVIOUS

\* Fewer variables may be claimed alike.
LEMMA Fewer ==
  ASSUME NEW c, NEW k, NEW A, NEW B, NEW M, NEW W, Sim(c, k, A, M, W), B \subseteq A
  PROVE  Sim(c, k, B, M, W)
<1>1. Alike(c, A, M, W) => Alike(c, B, M, W)
  BY DEF Alike, SameRegs, SameKept
<1> QED
  BY <1>1 DEF Sim

\* The end of a handler.
LEMMA Ended ==
  ASSUME NEW c, NEW k \in 0..5, NEW A, NEW M, NEW W, Sim(c, k, A, M, W)
  PROVE  Sim(c, Last, Nothing, M, W)
<1>1. k <= Last /\ Last \in 0..5 /\ Nothing \subseteq A
  BY DEF Last, Nothing
<1> QED
  BY <1>1, Weaker

\* What Sim says of each run by itself.
LEMMA SoundShape ==
  ASSUME NEW c, NEW k, NEW A, NEW M, NEW W, Sim(c, k, A, M, W)
  PROVE  Shape(M) /\ Shape(W) /\ Whole(k, W) /\ Ok(W)
  BY DEF Sim, Sound, Whole, Ok

\* Registers and variables agree while nothing was missing.
LEMMA RegAlike ==
  ASSUME NEW c, NEW k, NEW A, NEW M, NEW W, Sim(c, k, A, M, W), NEW r \in Reg
  PROVE  W.r[r] \in Int /\ (Same(c, M, W) => M.r[r] = W.r[r])
  BY DEF Sim, Whole, Alike, SameRegs

\* Likewise the variables of the handler.
LEMMA TempAlike ==
  ASSUME NEW c, NEW k, NEW A, NEW M, NEW W, Sim(c, k, A, M, W), NEW f \in Temps, f \in A
  PROVE  W.t[f] \in Int /\ (Same(c, M, W) => M.t[f] = W.t[f])
  BY DEF Sim, Whole, Alike, SameRegs

\* One variable is still claimed alike.
LEMMA EndedWith ==
  ASSUME NEW c, NEW k \in 0..5, NEW A, NEW M, NEW W, Sim(c, k, A, M, W), NEW x, x \in A
  PROVE  Sim(c, Last, {x}, M, W)
<1>1. k <= Last /\ Last \in 0..5 /\ {x} \subseteq A
  BY DEF Last
<1> QED
  BY <1>1, Weaker

\* Likewise the PC and the condition codes.
LEMMA PartsAlike ==
  ASSUME NEW c, NEW k, NEW A, NEW M, NEW W, Sim(c, k, A, M, W)
  PROVE  /\ W.pc \in Int /\ (Same(c, M, W) => M.pc = W.pc)
         /\ W.ccr \in Int /\ (Same(c, M, W) => M.ccr = W.ccr)
  BY DEF Sim, Whole, Alike, SameRegs

\* Likewise the address.
LEMMA AddressAlike ==
  ASSUME NEW c, NEW k, NEW A, NEW M, NEW W, Sim(c, k, A, M, W), "ad" \in A
  PROVE  W.ad \in Int /\ (Same(c, M, W) => M.ad = W.ad)
  BY DEF Sim, Whole, Alike, SameRegs

\* Likewise what is kept, as far as it has not been set.
LEMMA KeptAlike ==
  ASSUME NEW c, NEW k, NEW A, NEW M, NEW W, Sim(c, k, A, M, W), NEW x \in Coprocessor
  PROVE  W.kept[x] \in Int /\ (x \notin c.loose /\ Same(c, M, W) => M.kept[x] = W.kept[x])
<1>1. x \in Keys
  BY DEF Coprocessor, Keys
<1> QED
  BY <1>1 DEF Sim, Whole, Alike, SameKept

\* Where the handler branches the two runs may part, but only after a fault, or
\* after something half done was read.
LEMMA Forked ==
  ASSUME NEW c, NEW k, NEW A, NEW M, NEW W, Sim(c, k, A, M, W), ~Same(c, M, W),
         NEW l, NEW B, NEW N, NEW V, NEW L, NEW U,
         Sim(c, l, B, N, U), Onward(M, W, N, U), Sim(c, l, B, L, V), Onward(M, W, L, V)
  PROVE  Sim(c, l, B, N, V)
<1>1. Onward(M, W, N, V)
  BY DEF Onward
<1>2. ~Same(c, N, V)
  BY <1>1, OnwardSame
<1>3. V.reads \cap c.half = {} => N.writes \subseteq V.writes
  BY <1>1 DEF Onward, Sim, Same
<1> QED
  BY <1>2, <1>3 DEF Sim

\* Each run takes one of two branches, the same as long as they are alike.
Chosen(c, M, W, N, V, L, U, X, Y) ==
    /\ X = N \/ X = L
    /\ Y = V \/ Y = U
    /\ Same(c, M, W) => (X = N /\ Y = V) \/ (X = L /\ Y = U)

\* Two runs that branch, each on what it has read.
LEMMA Either ==
  ASSUME NEW c, NEW k, NEW A, NEW M, NEW W, Sim(c, k, A, M, W),
         NEW l, NEW B, NEW N, NEW V, NEW L, NEW U,
         Sim(c, l, B, N, V), Onward(M, W, N, V), Sim(c, l, B, L, U), Onward(M, W, L, U),
         NEW X, NEW Y, Chosen(c, M, W, N, V, L, U, X, Y)
  PROVE  Sim(c, l, B, X, Y)
<1>1. CASE X = N /\ Y = V
  BY <1>1
<1>2. CASE X = L /\ Y = U
  BY <1>2
<1>3. CASE X = N /\ Y = U /\ ~Same(c, M, W)
  BY <1>3, Forked
<1>4. CASE X = L /\ Y = V /\ ~Same(c, M, W)
  BY <1>4, Forked
<1> QED
  BY <1>1, <1>2, <1>3, <1>4 DEF Chosen

\* Arithmetic of values and addresses.
LEMMA ModInt ==
  ASSUME NEW v \in Int
  PROVE  Mod(v) \in Int /\ Mod(v) \in 0..15 /\ v % Cells \in Cell /\ Hi(v) \in Int /\ Lo(v) \in Int
         /\ v % Cells \in Int
  BY DEF Mod, Cells, Cell, Hi, Lo

\* Every cell is on a page.
LEMMA CellPage ==
  ASSUME NEW a \in Cell
  PROVE  PageOf(a) \in Page
  BY DEF PageOf, Page, DataPage, Cell, Cells

\* An address is set.
LEMMA AtSim ==
  ASSUME NEW c, NEW k, NEW A, NEW M, NEW W, Sim(c, k, A, M, W),
         NEW a, NEW b \in Int, Same(c, M, W) => a = b, NEW B, B \subseteq A \cup {"ad"}
  PROVE  /\ Sim(c, k, B, At(M, a), At(W, b))
         /\ Onward(M, W, At(M, a), At(W, b))
<1> DEFINE N == At(M, a)
           V == At(W, b)
<1>1. Shape(M) /\ Shape(W) /\ Whole(k, W)
  BY SoundShape
<1>2. /\ Untouched(M, N) /\ N.r = M.r /\ N.ccr = M.ccr /\ N.pc = M.pc /\ N.reads = M.reads
      /\ N.t = M.t /\ N.ad = a % Cells
  BY <1>1 DEF At, Shape, Fields, Untouched
<1>3. /\ Untouched(W, V) /\ V.r = W.r /\ V.ccr = W.ccr /\ V.pc = W.pc /\ V.reads = W.reads
      /\ V.t = W.t /\ V.ad = b % Cells
  BY <1>1 DEF At, Shape, Fields, Untouched
<1>4. b % Cells \in Int
  BY ModInt
<1> HIDE DEF N, V
<1>5. Whole(k, V)
  BY <1>1, <1>3, <1>4 DEF Whole, Untouched
<1>6. Same(c, M, W) /\ Alike(c, A, M, W) => N.reads = V.reads /\ SameRegs(A \cup {"ad"}, N, V)
  BY <1>2, <1>3 DEF Alike, SameRegs, Temps
<1>7. (A \cup {"ad"}) \cap Keys \subseteq A
  BY DEF Keys
<1>8. Sim(c, k, A \cup {"ad"}, N, V) /\ Onward(M, W, N, V)
  BY <1>2, <1>3, <1>5, <1>6, <1>7, QuietSim
<1>9. Sim(c, k, B, N, V)
  BY <1>8, Fewer
<1> QED
  BY <1>8, <1>9 DEF N, V

\* A register is set.
LEMMA SetRegSim ==
  ASSUME NEW c, NEW k, NEW A, NEW M, NEW W, Sim(c, k, A, M, W),
         NEW r \in Reg, NEW v, NEW w \in Int, Same(c, M, W) => v = w
  PROVE  /\ Sim(c, k, A, SetReg(M, r, v), SetReg(W, r, w))
         /\ Onward(M, W, SetReg(M, r, v), SetReg(W, r, w))
<1> DEFINE N == SetReg(M, r, v)
           V == SetReg(W, r, w)
<1>1. Shape(M) /\ Shape(W) /\ Whole(k, W)
  BY SoundShape
<1>2. /\ Untouched(M, N) /\ N.r = [M.r EXCEPT ![r] = Mod(v)] /\ N.ccr = M.ccr /\ N.pc = M.pc
      /\ N.reads = M.reads /\ N.t = M.t /\ N.ad = M.ad
  BY <1>1 DEF SetReg, Shape, Fields, Untouched
<1>3. /\ Untouched(W, V) /\ V.r = [W.r EXCEPT ![r] = Mod(w)] /\ V.ccr = W.ccr /\ V.pc = W.pc
      /\ V.reads = W.reads /\ V.t = W.t /\ V.ad = W.ad
  BY <1>1 DEF SetReg, Shape, Fields, Untouched
<1>4. Mod(w) \in Int
  BY ModInt
<1> HIDE DEF N, V
<1>5. V.r \in [Reg -> Int]
  BY <1>1, <1>3, <1>4 DEF Whole
<1>6. Whole(k, V)
  BY <1>1, <1>3, <1>5 DEF Whole, Untouched
<1>7. Same(c, M, W) /\ Alike(c, A, M, W) => N.reads = V.reads /\ SameRegs(A, N, V)
  BY <1>2, <1>3 DEF Alike, SameRegs
<1>8. Sim(c, k, A, N, V) /\ Onward(M, W, N, V)
  BY <1>2, <1>3, <1>6, <1>7, QuietSim
<1> QED
  BY <1>8 DEF N, V

\* The condition codes are set.
LEMMA FlagsSim ==
  ASSUME NEW c, NEW k, NEW A, NEW M, NEW W, Sim(c, k, A, M, W),
         NEW v, NEW w \in Int, Same(c, M, W) => v = w
  PROVE  /\ Sim(c, k, A, Flags(M, v), Flags(W, w))
         /\ Onward(M, W, Flags(M, v), Flags(W, w))
<1> DEFINE N == Flags(M, v)
           V == Flags(W, w)
<1>1. Shape(M) /\ Shape(W) /\ Whole(k, W)
  BY SoundShape
<1>2. /\ Untouched(M, N) /\ N.r = M.r /\ N.ccr = Mod(v) /\ N.pc = M.pc
      /\ N.reads = M.reads /\ N.t = M.t /\ N.ad = M.ad
  BY <1>1 DEF Flags, Shape, Fields, Untouched
<1>3. /\ Untouched(W, V) /\ V.r = W.r /\ V.ccr = Mod(w) /\ V.pc = W.pc
      /\ V.reads = W.reads /\ V.t = W.t /\ V.ad = W.ad
  BY <1>1 DEF Flags, Shape, Fields, Untouched
<1>4. Mod(w) \in Int
  BY ModInt
<1> HIDE DEF N, V
<1>5. Whole(k, V)
  BY <1>1, <1>3, <1>4 DEF Whole, Untouched
<1>6. Same(c, M, W) /\ Alike(c, A, M, W) => N.reads = V.reads /\ SameRegs(A, N, V)
  BY <1>2, <1>3 DEF Alike, SameRegs
<1>7. Sim(c, k, A, N, V) /\ Onward(M, W, N, V)
  BY <1>2, <1>3, <1>5, <1>6, QuietSim
<1> QED
  BY <1>7 DEF N, V

\* A jump: no word is fetched after it.
LEMMA JumpSim ==
  ASSUME NEW c, NEW k \in 0..5, NEW A, NEW M, NEW W, Sim(c, k, A, M, W),
         NEW v, NEW w \in Int, Same(c, M, W) => v = w
  PROVE  /\ Sim(c, Last, A, [M EXCEPT !.pc = v], [W EXCEPT !.pc = w])
         /\ Onward(M, W, [M EXCEPT !.pc = v], [W EXCEPT !.pc = w])
<1> DEFINE N == [M EXCEPT !.pc = v]
           V == [W EXCEPT !.pc = w]
<1>1. Shape(M) /\ Shape(W) /\ Whole(k, W)
  BY SoundShape
<1>2. /\ Untouched(M, N) /\ N.r = M.r /\ N.ccr = M.ccr /\ N.pc = v
      /\ N.reads = M.reads /\ N.t = M.t /\ N.ad = M.ad
  BY <1>1 DEF Shape, Fields, Untouched
<1>3. /\ Untouched(W, V) /\ V.r = W.r /\ V.ccr = W.ccr /\ V.pc = w
      /\ V.reads = W.reads /\ V.t = W.t /\ V.ad = W.ad
  BY <1>1 DEF Shape, Fields, Untouched
<1> HIDE DEF N, V
<1>4. Whole(Last, V)
  BY <1>1, <1>3 DEF Whole, Untouched, Last
<1>5. Same(c, M, W) /\ Alike(c, A, M, W) => N.reads = V.reads /\ SameRegs(A, N, V)
  BY <1>2, <1>3 DEF Alike, SameRegs
<1>6. Sim(c, Last, A, N, V) /\ Onward(M, W, N, V)
  BY <1>2, <1>3, <1>4, <1>5, QuietSim
<1> QED
  BY <1>6 DEF N, V

\* The next word.
LEMMA FetchSim ==
  ASSUME NEW c, NEW k \in 0..3, NEW A, NEW M, NEW W, Sim(c, k, A, M, W),
         NEW I, I.words \in [1..4 -> Nat], NEW t \in Temps,
         NEW l \in 0..5, k < l, NEW B, B \subseteq A \cup {t}
  PROVE  /\ Sim(c, l, B, Fetch(I, M, t), Fetch(I, W, t))
         /\ Onward(M, W, Fetch(I, M, t), Fetch(I, W, t))
<1> DEFINE p == IF M.pc >= I.split THEN 5 ELSE 4
           q == IF W.pc >= I.split THEN 5 ELSE 4
           M1 == Touch(M, p, FALSE)
           N == Fetch(I, M, t)
           V == Fetch(I, W, t)
           v == I.words[W.pc + 1]
<1>1. Shape(M) /\ Shape(W) /\ Whole(k, W) /\ Ok(W)
  BY SoundShape
<1>2. Sim(c, k, A, M1, W) /\ TouchOnly(M, M1) /\ Shape(M1)
  <2> HIDE DEF p
  <2> QED
    BY TouchSim
<1>3. M1.pc = M.pc
  BY <1>2 DEF TouchOnly
<1>4. V = [W EXCEPT !.t[t] = v, !.pc = @ + 1]
  <2>1. Touch(W, q, FALSE) = W
    BY <1>1, WholeTouch DEF Page, CodePage
  <2> QED
    BY <1>1, <2>1 DEF Fetch
<1>5. N = IF Ok(M1) THEN [M1 EXCEPT !.t[t] = I.words[M1.pc + 1], !.pc = @ + 1]
                    ELSE [M1 EXCEPT !.t[t] = 0]
  BY <1>3 DEF Fetch
<1> HIDE DEF M1, N, V
<1>6. /\ Untouched(W, V) /\ V.r = W.r /\ V.ccr = W.ccr /\ V.pc = W.pc + 1
      /\ V.reads = W.reads /\ V.t = [W.t EXCEPT ![t] = v] /\ V.ad = W.ad
  BY <1>1, <1>4 DEF Shape, Fields, Untouched
<1>7. Untouched(M1, N) /\ N.reads = M1.reads
  BY <1>2, <1>5 DEF Shape, Fields, Untouched
<1>8. Ok(M1) => /\ N.r = M1.r /\ N.ccr = M1.ccr /\ N.pc = M1.pc + 1
                /\ N.t = [M1.t EXCEPT ![t] = I.words[M1.pc + 1]] /\ N.ad = M1.ad
  BY <1>2, <1>5 DEF Shape, Fields
<1>9. W.pc \in 0 .. k /\ v \in Int
  BY <1>1 DEF Whole
<1>10. DOMAIN W.t = Temps /\ DOMAIN M1.t = Temps
  BY <1>1, <1>2 DEF Shape
<1> HIDE DEF v
<1>11. Whole(k + 1, V)
  <2>1. V.pc \in Int /\ V.pc \in 0 .. k + 1
    BY <1>6, <1>9
  <2>2. \A x \in Temps : V.t[x] \in Int
    BY <1>1, <1>6, <1>9, <1>10 DEF Whole
  <2> QED
    BY <1>1, <1>6, <2>1, <2>2 DEF Whole, Untouched
<1>12. Same(c, M1, W) /\ Alike(c, A, M1, W)
         => N.reads = V.reads /\ SameRegs(A \cup {t}, N, V)
  <2> SUFFICES ASSUME Ok(M1), Alike(c, A, M1, W)
               PROVE  N.reads = V.reads /\ SameRegs(A \cup {t}, N, V)
    BY DEF Same
  <2>1. N.reads = V.reads /\ N.r = V.r /\ N.ccr = V.ccr /\ N.pc = V.pc
    BY <1>6, <1>7, <1>8 DEF Alike, SameRegs
  <2>2. N.t[t] = V.t[t]
    BY <1>6, <1>8, <1>10 DEF Alike, SameRegs, v
  <2>3. \A x \in Temps : x \in A \cup {t} => N.t[x] = V.t[x]
    BY <1>6, <1>8, <1>10, <2>2 DEF Alike, SameRegs
  <2>4. "ad" \in A \cup {t} => N.ad = V.ad
    BY <1>6, <1>8 DEF Alike, SameRegs, Temps
  <2> QED
    BY <2>1, <2>3, <2>4 DEF SameRegs
<1>13. (A \cup {t}) \cap Keys \subseteq A
  BY DEF Keys, Temps
<1>14. Sim(c, k + 1, A \cup {t}, N, V) /\ Onward(M1, W, N, V)
  BY <1>2, <1>6, <1>7, <1>11, <1>12, <1>13, QuietSim
<1>15. Onward(M, W, N, V)
  BY <1>2, <1>14 DEF Onward, TouchOnly
<1>16. k + 1 \in 0..5 /\ k + 1 <= l
  OBVIOUS
<1>17. Sim(c, l, B, N, V)
  BY <1>14, <1>16, Weaker
<1> QED
  BY <1>15, <1>17 DEF N, V

\* A load: the cells go into t, and count as read also where one faults.
LEMMA LoadIs ==
  ASSUME NEW M, NEW n, NEW t
  PROVE  LET a  == M.ad % Cells
             b  == (M.ad + 1) % Cells
             M1 == Touch(M, PageOf(a), FALSE)
             M2 == Touch(M1, PageOf(b), FALSE)
         IN  /\ n = 1 => Load(M, n, t) = Take(M1, t, Found(M, M1, a), {a})
             /\ n # 1 => Load(M, n, t) = Take(M2, t, Wide(Found(M, M1, a), Found(M, M2, b)), {a, b})
  BY DEF Load

LEMMA LoadSim ==
  ASSUME NEW c, NEW k, NEW A, NEW M, NEW W, Sim(c, k, A, M, W), "ad" \in A,
         NEW n \in {1, 2}, NEW t \in Temps, NEW B, B \subseteq A \cup {t}
  PROVE  /\ Sim(c, k, B, Load(M, n, t), Load(W, n, t))
         /\ Onward(M, W, Load(M, n, t), Load(W, n, t))
<1> DEFINE a == M.ad % Cells
           b == (M.ad + 1) % Cells
           M1 == Touch(M, PageOf(a), FALSE)
           M2 == IF n = 1 THEN M1 ELSE Touch(M1, PageOf(b), FALSE)
           x == IF Ok(M1) THEN M.mem[a] ELSE 0
           y == IF Ok(M2) THEN M.mem[b] ELSE 0
           u == IF n = 1 THEN x ELSE Wide(x, y)
           R == IF n = 1 THEN {a} ELSE {a, b}
           d == W.ad % Cells
           e == (W.ad + 1) % Cells
           v == IF n = 1 THEN W.mem[d] ELSE Wide(W.mem[d], W.mem[e])
           S == IF n = 1 THEN {d} ELSE {d, e}
           N == Load(M, n, t)
           V == Load(W, n, t)
<1>1. Shape(W) /\ Whole(k, W) /\ Ok(W)
  BY SoundShape
<1>2. Sim(c, k, A, M1, W) /\ Shape(M1) /\ TouchOnly(M, M1)
  <2> HIDE DEF a
  <2> QED
    BY TouchSim
<1>3. /\ Sim(c, k, A, M2, W) /\ Shape(M2) /\ (Ok(M2) => Ok(M1))
      /\ M2.mem = M.mem /\ M2.ad = M.ad /\ M2.reads = M.reads
      /\ M2.writes = M.writes /\ (~Ok(M) => ~Ok(M2))
  <2> HIDE DEF M1, b
  <2>1. CASE n = 1
    BY <1>2, <2>1 DEF TouchOnly
  <2>2. CASE n # 1
    <3>1. Sim(c, k, A, M2, W) /\ Shape(M2) /\ TouchOnly(M1, M2)
      BY <1>2, <2>2, TouchSim
    <3> HIDE DEF M2
    <3> QED
      BY <1>2, <3>1 DEF TouchOnly
  <2> HIDE DEF M2
  <2> QED
    BY <2>1, <2>2
<1>4. N = [M2 EXCEPT !.t[t] = u, !.reads = @ \cup R]
  <2> DEFINE T == Touch(M1, PageOf(b), FALSE)
  <2>1. N = Take(M2, t, u, R)
    <3>1. /\ n = 1 => N = Take(M1, t, Found(M, M1, a), {a})
          /\ n # 1 => N = Take(T, t, Wide(Found(M, M1, a), Found(M, T, b)), {a, b})
      BY LoadIs
    <3> HIDE DEF N, M1, a, b
    <3>2. M2 = IF n = 1 THEN M1 ELSE T
      OBVIOUS
    <3> HIDE DEF M2, T
    <3>3. x = Found(M, M1, a) /\ y = Found(M, M2, b)
      BY DEF Found
    <3>4. u = (IF n = 1 THEN x ELSE Wide(x, y)) /\ R = IF n = 1 THEN {a} ELSE {a, b}
      OBVIOUS
    <3> HIDE DEF x, y, u, R
    <3> QED
      BY <3>1, <3>2, <3>3, <3>4
  <2> HIDE DEF N, M2, u, R
  <2> QED
    BY <2>1 DEF Take
<1>5. d \in Cell /\ e \in Cell /\ v \in Int
  <2>1. W.ad \in Int /\ W.ad + 1 \in Int
    BY <1>1 DEF Whole
  <2>2. d \in Cell /\ e \in Cell
    BY <2>1, ModInt
  <2> HIDE DEF d, e
  <2>3. W.mem[d] \in Int /\ W.mem[e] \in Int
    BY <1>1, <2>2 DEF Whole
  <2> QED
    BY <2>2, <2>3 DEF Wide
<1>6. V = [W EXCEPT !.t[t] = v, !.reads = @ \cup S]
  <2>1. Touch(W, PageOf(d), FALSE) = W /\ Touch(W, PageOf(e), FALSE) = W
    BY <1>1, <1>5, WholeTouch, CellPage
  <2>2. /\ n = 1 => V = Take(W, t, Found(W, W, d), {d})
        /\ n # 1 => V = Take(W, t, Wide(Found(W, W, d), Found(W, W, e)), {d, e})
    <3> DEFINE X == Touch(W, PageOf(d), FALSE)
               Y == Touch(X, PageOf(e), FALSE)
    <3>1. /\ n = 1 => V = Take(X, t, Found(W, X, d), {d})
          /\ n # 1 => V = Take(Y, t, Wide(Found(W, X, d), Found(W, Y, e)), {d, e})
      BY LoadIs
    <3>2. X = W /\ Y = W
      BY <2>1
    <3> HIDE DEF V, X, Y, d, e
    <3> QED
      BY <3>1, <3>2
  <2> HIDE DEF V, d, e
  <2>3. Found(W, W, d) = W.mem[d] /\ Found(W, W, e) = W.mem[e]
    BY <1>1 DEF Found
  <2>4. V = Take(W, t, v, S)
    BY <2>2, <2>3
  <2> HIDE DEF v, S
  <2> QED
    BY <2>4 DEF Take
<1> HIDE DEF M1, M2, N, V, u, v, R, S
<1>7. /\ Untouched(W, V) /\ V.r = W.r /\ V.ccr = W.ccr /\ V.pc = W.pc
      /\ V.reads = W.reads \cup S /\ V.t = [W.t EXCEPT ![t] = v] /\ V.ad = W.ad
  BY <1>1, <1>6 DEF Shape, Fields, Untouched
<1>8. /\ Untouched(M2, N) /\ N.r = M2.r /\ N.ccr = M2.ccr /\ N.pc = M2.pc
      /\ N.reads = M2.reads \cup R /\ N.t = [M2.t EXCEPT ![t] = u] /\ N.ad = M2.ad
  BY <1>3, <1>4 DEF Shape, Fields, Untouched
<1>9. DOMAIN W.t = Temps /\ DOMAIN M2.t = Temps
  BY <1>1, <1>3 DEF Shape
<1>10. Whole(k, V)
  <2>1. \A f \in Temps : V.t[f] \in Int
    BY <1>1, <1>5, <1>7, <1>9 DEF Whole
  <2> QED
    BY <1>1, <1>7, <2>1 DEF Whole, Untouched
<1>11. Same(c, M2, W) /\ Same(c, N, V) /\ Alike(c, A, M2, W)
         => N.reads = V.reads /\ SameRegs(A \cup {t}, N, V)
  <2> SUFFICES ASSUME Ok(M2), V.reads \cap c.half = {}, Alike(c, A, M2, W)
               PROVE  N.reads = V.reads /\ SameRegs(A \cup {t}, N, V)
    BY DEF Same
  <2>1. M.ad = W.ad
    BY <1>3 DEF Alike, SameRegs
  <2>2. a = d /\ b = e /\ R = S
    BY <2>1 DEF R, S
  <2>3. M.mem[d] = W.mem[d] /\ (n # 1 => M.mem[e] = W.mem[e])
    <3>1. d \in S /\ (n # 1 => e \in S)
      BY DEF S
    <3>2. d \notin c.half /\ (n # 1 => e \notin c.half)
      BY <1>7, <3>1
    <3> HIDE DEF d, e
    <3> QED
      BY <1>3, <1>5, <3>2 DEF Alike, SameMem
  <2>4. u = v
    <3> HIDE DEF a, b, d, e
    <3> QED
      BY <1>3, <2>2, <2>3 DEF u, v, M2
  <2>5. N.t[t] = V.t[t]
    BY <1>7, <1>8, <1>9, <2>4
  <2>6. \A f \in Temps : f \in A \cup {t} => N.t[f] = V.t[f]
    BY <1>7, <1>8, <1>9, <2>5 DEF Alike, SameRegs
  <2>7. N.reads = V.reads
    BY <1>7, <1>8, <2>2 DEF Alike
  <2>8. "ad" \in A \cup {t} => N.ad = V.ad
    BY <1>7, <1>8 DEF Alike, SameRegs, Temps
  <2> QED
    BY <1>7, <1>8, <2>6, <2>7, <2>8 DEF Alike, SameRegs
<1>12. (A \cup {t}) \cap Keys \subseteq A
  BY DEF Keys, Temps
<1>13. W.reads \subseteq V.reads
  BY <1>7
<1>14. Sim(c, k, A \cup {t}, N, V) /\ Onward(M2, W, N, V)
  <2>1. Sim(c, k, A, M2, W) /\ Untouched(M2, N) /\ Untouched(W, V)
    BY <1>3, <1>7, <1>8
  <2> QED
    BY <2>1, <1>10, <1>11, <1>12, <1>13, QuietSim
<1>15. Onward(M, W, N, V)
  BY <1>3, <1>14 DEF Onward
<1>16. Sim(c, k, B, N, V)
  BY <1>14, Fewer
<1> QED
  BY <1>15, <1>16 DEF N, V

\* A cell is written, or, after a fault, is not.
LEMMA StoreCellSim ==
  ASSUME NEW c, NEW k, NEW A, NEW M, NEW W, Sim(c, k, A, M, W),
         NEW a, NEW b \in Cell, NEW v, NEW w \in Int, Same(c, M, W) => a = b /\ v = w
  PROVE  /\ Sim(c, k, A, StoreCell(M, a, v), StoreCell(W, b, w))
         /\ Onward(M, W, StoreCell(M, a, v), StoreCell(W, b, w))
<1> DEFINE M1 == Touch(M, PageOf(a), TRUE)
           N == StoreCell(M, a, v)
           V == StoreCell(W, b, w)
<1>1. Shape(W) /\ Whole(k, W) /\ Ok(W)
  BY SoundShape
<1>2. Sim(c, k, A, M1, W) /\ Shape(M1) /\ TouchOnly(M, M1)
  BY TouchSim
<1>3. N = IF Ok(M1) THEN [M1 EXCEPT !.mem[a] = v, !.writes = @ \cup {a}] ELSE M1
  BY DEF StoreCell
<1>4. V = [W EXCEPT !.mem[b] = w, !.writes = @ \cup {b}]
  <2>1. Touch(W, PageOf(b), TRUE) = W
    BY <1>1, WholeTouch, CellPage
  <2> QED
    BY <1>1, <2>1 DEF StoreCell
<1>5. Ok(M1) => Ok(M)
  BY <1>2 DEF TouchOnly
<1> HIDE DEF M1, N, V
<1>6. /\ Shape(V) /\ V.r = W.r /\ V.ccr = W.ccr /\ V.pc = W.pc /\ V.map = W.map
      /\ V.fault = W.fault /\ V.kept = W.kept /\ V.reads = W.reads /\ V.t = W.t /\ V.ad = W.ad
      /\ V.mem = [W.mem EXCEPT ![b] = w] /\ V.writes = W.writes \cup {b}
  BY <1>1, <1>4 DEF Shape, Fields
<1>7. /\ Shape(N) /\ N.r = M1.r /\ N.ccr = M1.ccr /\ N.pc = M1.pc /\ N.map = M1.map
      /\ N.fault = M1.fault /\ N.kept = M1.kept /\ N.reads = M1.reads /\ N.t = M1.t
      /\ N.ad = M1.ad
      /\ Ok(M1) => N.mem = [M1.mem EXCEPT ![a] = v] /\ N.writes = M1.writes \cup {a}
      /\ ~Ok(M1) => N.mem = M1.mem /\ N.writes = M1.writes
  BY <1>2, <1>3 DEF Shape, Fields
<1>8. /\ \A x \in Cell : V.mem[x] = IF x = b THEN w ELSE W.mem[x]
      /\ Ok(M1) => \A x \in Cell : N.mem[x] = IF x = a THEN v ELSE M1.mem[x]
  <2>1. DOMAIN W.mem = Cell /\ DOMAIN M1.mem = Cell
    BY <1>1, <1>2 DEF Shape
  <2> QED
    BY <1>6, <1>7, <2>1
<1>9. Whole(k, V)
  <2>1. \A x \in Cell : V.mem[x] \in Int
    BY <1>1, <1>8 DEF Whole
  <2> QED
    BY <1>1, <1>6, <2>1 DEF Whole
<1>10. Sound(c, N)
  <2>1. \A x \in Cell : x \in N.writes \/ N.mem[x] = c.begin.mem[x]
    BY <1>2, <1>7, <1>8 DEF Sim, Sound
  <2> QED
    BY <1>2, <1>7, <2>1 DEF Sim, Sound, Mapped
<1>11. V.reads \cap c.half = {} => N.writes \subseteq V.writes
  <2>1. CASE Ok(M1) /\ W.reads \cap c.half = {}
    <3>1. a = b
      BY <1>5, <2>1 DEF Same
    <3> QED
      BY <1>2, <1>6, <1>7, <2>1, <3>1 DEF Sim
  <2> QED
    BY <1>2, <1>6, <1>7, <2>1 DEF Sim
<1>12. Same(c, N, V) => Alike(c, A, N, V)
  <2> SUFFICES ASSUME Ok(M1), W.reads \cap c.half = {}
               PROVE  Alike(c, A, N, V)
    BY <1>6, <1>7 DEF Same, Ok
  <2>1. Alike(c, A, M1, W)
    BY <1>2 DEF Sim, Same
  <2>2. a = b /\ v = w
    BY <1>5 DEF Same
  <2>3. SameMem(c, N, V)
    BY <1>6, <1>8, <2>1, <2>2 DEF Alike, SameMem
  <2> QED
    BY <1>6, <1>7, <2>1, <2>2, <2>3 DEF Alike, SameRegs, SameKept
<1>13. Sim(c, k, A, N, V)
  BY <1>2, <1>6, <1>9, <1>10, <1>11, <1>12 DEF Sim
<1>14. Onward(M, W, N, V)
  BY <1>2, <1>6, <1>7 DEF Onward, TouchOnly, Ok
<1> QED
  BY <1>13, <1>14 DEF N, V

\* A store: cell by cell, the second only where the first did not fault.
LEMMA StoreSim ==
  ASSUME NEW c, NEW k, NEW A, NEW M, NEW W, Sim(c, k, A, M, W), "ad" \in A,
         NEW n \in {1, 2}, NEW v, NEW w \in Int, Same(c, M, W) => v = w
  PROVE  /\ Sim(c, k, A, Store(M, n, v), Store(W, n, w))
         /\ Onward(M, W, Store(M, n, v), Store(W, n, w))
<1>1. Whole(k, W)
  BY SoundShape
<1>2. W.ad \in Int /\ W.ad + 1 \in Int
  BY <1>1 DEF Whole
<1>3. /\ W.ad % Cells \in Cell /\ (W.ad + 1) % Cells \in Cell
      /\ Hi(w) \in Int /\ Lo(w) \in Int
  BY <1>2, ModInt
<1>4. Same(c, M, W) => M.ad % Cells = W.ad % Cells /\ (M.ad + 1) % Cells = (W.ad + 1) % Cells
                       /\ Hi(v) = Hi(w) /\ Lo(v) = Lo(w)
  BY DEF Sim, Alike, SameRegs
<1>5. CASE n = 1
  BY <1>3, <1>4, <1>5, StoreCellSim DEF Store
<1>6. CASE n # 1
  <2> DEFINE a == M.ad % Cells
             b == W.ad % Cells
             M1 == StoreCell(M, a, Hi(v))
             W1 == StoreCell(W, b, Hi(w))
  <2>1. Sim(c, k, A, M1, W1) /\ Onward(M, W, M1, W1)
    <3> HIDE DEF a, b
    <3> QED
      BY <1>3, <1>4, StoreCellSim DEF a, b
  <2> HIDE DEF M1, W1
  <2>2. Same(c, M1, W1) => Same(c, M, W)
    BY <2>1, OnwardSame
  <2> DEFINE N == StoreCell(M1, (M.ad + 1) % Cells, Lo(v))
             V == StoreCell(W1, (W.ad + 1) % Cells, Lo(w))
  <2>3. Sim(c, k, A, N, V) /\ Onward(M1, W1, N, V)
    BY <1>3, <1>4, <2>1, <2>2, StoreCellSim
  <2> HIDE DEF N, V
  <2>4. Onward(M, W, N, V)
    BY <2>1, <2>3, OnwardOn
  <2> QED
    BY <1>6, <2>3, <2>4 DEF Store, M1, W1, N, V
<1> QED
  BY <1>5, <1>6

\* A variable of the handler is set.
LEMMA SetTempSim ==
  ASSUME NEW c, NEW k, NEW A, NEW M, NEW W, Sim(c, k, A, M, W),
         NEW t \in Temps, NEW v, NEW w \in Int, Same(c, M, W) => v = w
  PROVE  /\ Sim(c, k, A \cup {t}, [M EXCEPT !.t[t] = v], [W EXCEPT !.t[t] = w])
         /\ Onward(M, W, [M EXCEPT !.t[t] = v], [W EXCEPT !.t[t] = w])
<1> DEFINE N == [M EXCEPT !.t[t] = v]
           V == [W EXCEPT !.t[t] = w]
<1>1. Shape(M) /\ Shape(W) /\ Whole(k, W)
  BY SoundShape
<1>2. /\ Untouched(M, N) /\ N.r = M.r /\ N.ccr = M.ccr /\ N.pc = M.pc
      /\ N.reads = M.reads /\ N.t = [M.t EXCEPT ![t] = v] /\ N.ad = M.ad
  BY <1>1 DEF Shape, Fields, Untouched
<1>3. /\ Untouched(W, V) /\ V.r = W.r /\ V.ccr = W.ccr /\ V.pc = W.pc
      /\ V.reads = W.reads /\ V.t = [W.t EXCEPT ![t] = w] /\ V.ad = W.ad
  BY <1>1 DEF Shape, Fields, Untouched
<1> HIDE DEF N, V
<1>4. DOMAIN W.t = Temps /\ DOMAIN M.t = Temps
  BY <1>1 DEF Shape
<1>5. \A f \in Temps : V.t[f] \in Int
  BY <1>1, <1>3, <1>4 DEF Whole
<1>6. Whole(k, V)
  BY <1>1, <1>3, <1>5 DEF Whole, Untouched
<1>7. Same(c, M, W) /\ Alike(c, A, M, W) => N.reads = V.reads /\ SameRegs(A \cup {t}, N, V)
  <2> SUFFICES ASSUME Same(c, M, W), Alike(c, A, M, W)
               PROVE  N.reads = V.reads /\ SameRegs(A \cup {t}, N, V)
    OBVIOUS
  <2>1. N.t[t] = V.t[t]
    BY <1>2, <1>3, <1>4
  <2>2. \A f \in Temps : f \in A \cup {t} => N.t[f] = V.t[f]
    BY <1>2, <1>3, <1>4, <2>1 DEF Alike, SameRegs
  <2>3. "ad" \in A \cup {t} => N.ad = V.ad
    BY <1>2, <1>3 DEF Alike, SameRegs, Temps
  <2> QED
    BY <1>2, <1>3, <2>2, <2>3 DEF Alike, SameRegs
<1>8. (A \cup {t}) \cap Keys \subseteq A
  BY DEF Keys, Temps
<1>9. Sim(c, k, A \cup {t}, N, V) /\ Onward(M, W, N, V)
  BY <1>2, <1>3, <1>6, <1>7, <1>8, QuietSim
<1> QED
  BY <1>9 DEF N, V

\* What a fault does not take back is written, the new value known or not.
LEMMA KeepSim ==
  ASSUME NEW c, NEW k, NEW A, NEW M, NEW W, Sim(c, k, A, M, W),
         NEW x \in Keys, x \in c.loose, NEW v, NEW w, x \in Coprocessor => w \in Int,
         NEW B, B \subseteq A \cup {x}, x \in B /\ Same(c, M, W) => v = w
  PROVE  /\ Sim(c, k, B, [M EXCEPT !.kept[x] = v], [W EXCEPT !.kept[x] = w])
         /\ Onward(M, W, [M EXCEPT !.kept[x] = v], [W EXCEPT !.kept[x] = w])
<1> DEFINE N == [M EXCEPT !.kept[x] = v]
           V == [W EXCEPT !.kept[x] = w]
<1>1. Shape(M) /\ Shape(W) /\ Whole(k, W)
  BY SoundShape
<1>2. /\ Shape(N) /\ N.r = M.r /\ N.ccr = M.ccr /\ N.pc = M.pc /\ N.t = M.t /\ N.ad = M.ad
      /\ N.reads = M.reads /\ N.writes = M.writes /\ N.mem = M.mem /\ N.map = M.map
      /\ N.fault = M.fault /\ N.kept = [M.kept EXCEPT ![x] = v]
  BY <1>1 DEF Shape, Fields
<1>3. /\ Shape(V) /\ V.r = W.r /\ V.ccr = W.ccr /\ V.pc = W.pc /\ V.t = W.t /\ V.ad = W.ad
      /\ V.reads = W.reads /\ V.writes = W.writes /\ V.mem = W.mem /\ V.map = W.map
      /\ V.fault = W.fault /\ V.kept = [W.kept EXCEPT ![x] = w]
  BY <1>1 DEF Shape, Fields
<1> HIDE DEF N, V
<1>4. DOMAIN W.kept = Keys /\ DOMAIN M.kept = Keys /\ Coprocessor \subseteq Keys
  BY <1>1 DEF Shape, Coprocessor, Keys
<1>5. /\ \A y \in Keys : V.kept[y] = IF y = x THEN w ELSE W.kept[y]
      /\ \A y \in Keys : N.kept[y] = IF y = x THEN v ELSE M.kept[y]
  BY <1>2, <1>3, <1>4
<1>6. Whole(k, V)
  <2>1. \A y \in Coprocessor : V.kept[y] \in Int
    BY <1>1, <1>4, <1>5 DEF Whole
  <2> QED
    BY <1>1, <1>3, <2>1 DEF Whole
<1>7. Sound(c, N)
  BY <1>2, <1>5 DEF Sim, Sound, Mapped
<1>8. Same(c, N, V) => Same(c, M, W)
  BY <1>2, <1>3 DEF Same, Ok
<1>9. Same(c, M, W) => Alike(c, B, N, V)
  <2> SUFFICES ASSUME Same(c, M, W) PROVE Alike(c, B, N, V)
    OBVIOUS
  <2>1. Alike(c, A, M, W)
    BY DEF Sim
  <2>2. SameKept(c, B, N, V)
    BY <1>5, <2>1 DEF Alike, SameKept
  <2>3. x \notin Temps /\ x # "ad"
    BY DEF Keys, Temps
  <2>4. SameRegs(B, N, V)
    BY <1>2, <1>3, <2>1, <2>3 DEF Alike, SameRegs
  <2> QED
    BY <1>2, <1>3, <2>1, <2>2, <2>4 DEF Alike, SameMem
<1>10. Sim(c, k, B, N, V)
  BY <1>2, <1>3, <1>6, <1>7, <1>8, <1>9 DEF Sim
<1>11. Onward(M, W, N, V)
  BY <1>2, <1>3 DEF Onward, Ok
<1> QED
  BY <1>10, <1>11 DEF N, V

-----------------------------------------------------------------------------
(* Effective addresses and operands.                                       *)

\* ResolveAddress, with its step of the register and its pointer in memory.
LEMMA ResolveSim ==
  ASSUME NEW c, NEW k \in 0..2, NEW A, NEW M, NEW W, Sim(c, k, A, M, W),
         NEW I, I.words \in [1..4 -> Nat], NEW ea \in Ea(InMemory), NEW n \in {1, 2},
         NEW l \in 0..5, k < l, NEW B, B \subseteq A \cup {"ad"}
  PROVE  /\ Sim(c, l, B, Resolve(I, M, ea, n), Resolve(I, W, ea, n))
         /\ Onward(M, W, Resolve(I, M, ea, n), Resolve(I, W, ea, n))
<1> DEFINE r == ea.reg
           N == Resolve(I, M, ea, n)
           V == Resolve(I, W, ea, n)
<1>1. r \in Reg /\ ea.mode \in InMemory
  BY DEF Ea
<1>2. W.r[r] \in Int /\ (Same(c, M, W) => M.r[r] = W.r[r])
  BY <1>1, RegAlike
<1>3. k \in 0..5 /\ k + 1 \in 0..5 /\ k <= l /\ k + 1 <= l /\ k \in 0..3
  OBVIOUS
<1> HIDE DEF r
<1>4. CASE ea.mode = "ind"
  <2>1. N = At(M, M.r[r]) /\ V = At(W, W.r[r])
    BY <1>4 DEF Resolve, r
  <2> HIDE DEF N, V
  <2>2. Sim(c, k, A \cup {"ad"}, N, V) /\ Onward(M, W, N, V)
    BY <1>2, <2>1, AtSim
  <2> QED
    BY <1>3, <2>2, Weaker DEF N, V
<1>5. CASE ea.mode = "inc"
  <2> DEFINE M1 == At(M, M.r[r])
             W1 == At(W, W.r[r])
  <2>1. N = SetReg(M1, r, M.r[r] + n) /\ V = SetReg(W1, r, W.r[r] + n)
    BY <1>5 DEF Resolve, r
  <2>2. Sim(c, k, A \cup {"ad"}, M1, W1) /\ Onward(M, W, M1, W1)
    BY <1>2, AtSim
  <2>3. W.r[r] + n \in Int /\ (Same(c, M1, W1) => M.r[r] + n = W.r[r] + n)
    BY <1>2, <2>2, OnwardSame
  <2> HIDE DEF N, V, M1, W1
  <2>4. Sim(c, k, A \cup {"ad"}, N, V) /\ Onward(M1, W1, N, V)
    BY <1>1, <2>1, <2>2, <2>3, SetRegSim
  <2>5. Onward(M, W, N, V)
    BY <2>2, <2>4, OnwardOn
  <2>6. Sim(c, l, B, N, V)
    BY <1>3, <2>4, Weaker
  <2> QED
    BY <2>5, <2>6 DEF N, V
<1>6. CASE ea.mode = "dec"
  <2> DEFINE M1 == SetReg(M, r, M.r[r] - n)
             W1 == SetReg(W, r, W.r[r] - n)
  <2>1. N = At(M1, M.r[r] - n) /\ V = At(W1, W.r[r] - n)
    BY <1>6 DEF Resolve, r
  <2>2. W.r[r] - n \in Int /\ (Same(c, M, W) => M.r[r] - n = W.r[r] - n)
    BY <1>2
  <2>3. Sim(c, k, A, M1, W1) /\ Onward(M, W, M1, W1)
    BY <1>1, <2>2, SetRegSim
  <2> HIDE DEF N, V, M1, W1
  <2>4. Same(c, M1, W1) => M.r[r] - n = W.r[r] - n
    BY <2>2, <2>3, OnwardSame
  <2>5. Sim(c, k, A \cup {"ad"}, N, V) /\ Onward(M1, W1, N, V)
    BY <2>1, <2>2, <2>3, <2>4, AtSim
  <2>6. Onward(M, W, N, V)
    BY <2>3, <2>5, OnwardOn
  <2>7. Sim(c, l, B, N, V)
    BY <1>3, <2>5, Weaker
  <2> QED
    BY <2>6, <2>7 DEF N, V
<1>7. CASE ea.mode \in {"disp", "memind"}
  <2> DEFINE M1 == Fetch(I, M, "e")
             W1 == Fetch(I, W, "e")
  <2>1. Sim(c, k + 1, A \cup {"e"}, M1, W1) /\ Onward(M, W, M1, W1)
    <3>1. k < k + 1 /\ "e" \in Temps
      BY DEF Temps
    <3> QED
      BY <1>3, <3>1, FetchSim
  <2> HIDE DEF M1, W1
  <2>2. W1.r[r] \in Int /\ (Same(c, M1, W1) => M1.r[r] = W1.r[r])
    BY <1>1, <2>1, RegAlike
  <2>3. W1.t["e"] \in Int /\ (Same(c, M1, W1) => M1.t["e"] = W1.t["e"])
    BY <2>1, TempAlike DEF Temps
  <2>4. CASE ea.mode = "disp"
    <3>1. N = At(M1, M1.r[r] + M1.t["e"]) /\ V = At(W1, W1.r[r] + W1.t["e"])
      BY <2>4 DEF Resolve, r, M1, W1
    <3>2. /\ W1.r[r] + W1.t["e"] \in Int
          /\ Same(c, M1, W1) => M1.r[r] + M1.t["e"] = W1.r[r] + W1.t["e"]
      BY <2>2, <2>3
    <3> HIDE DEF N, V
    <3>3. Sim(c, k + 1, A \cup {"e"} \cup {"ad"}, N, V) /\ Onward(M1, W1, N, V)
      BY <2>1, <3>1, <3>2, AtSim
    <3>4. B \subseteq A \cup {"e"} \cup {"ad"}
      BY <1>3
    <3>5. Sim(c, l, B, N, V)
      BY <1>3, <3>3, <3>4, Weaker
    <3>6. Onward(M, W, N, V)
      BY <2>1, <3>3, OnwardOn
    <3> QED
      BY <3>5, <3>6 DEF N, V
  <2>5. CASE ea.mode = "memind"
    <3> DEFINE M2 == At(M1, M1.r[r])
               W2 == At(W1, W1.r[r])
               M3 == Load(M2, 2, "p")
               W3 == Load(W2, 2, "p")
               C == A \cup {"e"} \cup {"ad"} \cup {"p"}
    <3>1. N = At(M3, M3.t["p"] + M3.t["e"]) /\ V = At(W3, W3.t["p"] + W3.t["e"])
      BY <2>5 DEF Resolve, r, M1, W1
    <3>2. Sim(c, k + 1, A \cup {"e"} \cup {"ad"}, M2, W2) /\ Onward(M1, W1, M2, W2)
      BY <2>1, <2>2, AtSim
    <3> HIDE DEF N, V, M2, W2
    <3>3. Sim(c, k + 1, C, M3, W3) /\ Onward(M2, W2, M3, W3)
      BY <3>2, LoadSim DEF Temps
    <3> HIDE DEF M3, W3, C
    <3>4. "p" \in C /\ "e" \in C /\ "p" \in Temps /\ "e" \in Temps
      BY DEF Temps, C
    <3>5. W3.t["p"] \in Int /\ (Same(c, M3, W3) => M3.t["p"] = W3.t["p"])
      BY <3>3, <3>4, TempAlike
    <3>6. W3.t["e"] \in Int /\ (Same(c, M3, W3) => M3.t["e"] = W3.t["e"])
      BY <3>3, <3>4, TempAlike
    <3>7. /\ W3.t["p"] + W3.t["e"] \in Int
          /\ Same(c, M3, W3) => M3.t["p"] + M3.t["e"] = W3.t["p"] + W3.t["e"]
      BY <3>5, <3>6
    <3>8. Sim(c, k + 1, C \cup {"ad"}, N, V) /\ Onward(M3, W3, N, V)
      BY <3>1, <3>3, <3>7, AtSim
    <3>9. B \subseteq C \cup {"ad"}
      BY <1>3 DEF C
    <3>10. Sim(c, l, B, N, V)
      BY <1>3, <3>8, <3>9, Weaker
    <3>11. Onward(M, W, M2, W2)
      BY <2>1, <3>2, OnwardOn
    <3>12. Onward(M, W, M3, W3)
      BY <3>3, <3>11, OnwardOn
    <3>13. Onward(M, W, N, V)
      BY <3>8, <3>12, OnwardOn
    <3> QED
      BY <3>10, <3>13 DEF N, V
  <2> QED
    BY <1>7, <2>4, <2>5
<1> QED
  BY <1>1, <1>4, <1>5, <1>6, <1>7 DEF InMemory

\* An operand is read: a register, the next word or memory.
LEMMA ReadValueSim ==
  ASSUME NEW c, NEW k \in 0..2, NEW A, NEW M, NEW W, Sim(c, k, A, M, W),
         NEW I, I.words \in [1..4 -> Nat], NEW ea \in Operand, NEW n \in {1, 2}, NEW t \in Temps,
         NEW l \in 0..5, k < l, NEW B,
         B \subseteq A \cup {t} \/ (ea.mode \in InMemory /\ B \subseteq A \cup {t, "ad"})
  PROVE  /\ Sim(c, l, B, ReadValue(I, M, ea, n, t), ReadValue(I, W, ea, n, t))
         /\ Onward(M, W, ReadValue(I, M, ea, n, t), ReadValue(I, W, ea, n, t))
<1> DEFINE N == ReadValue(I, M, ea, n, t)
           V == ReadValue(I, W, ea, n, t)
<1>1. k \in 0..5 /\ k + 1 \in 0..5 /\ k <= l /\ k + 1 <= l /\ k \in 0..3 /\ k < k + 1
  OBVIOUS
<1>2. CASE ea.mode = "reg"
  <2>1. ea.reg \in Reg /\ "reg" \notin InMemory
    BY <1>2 DEF Operand, Ea, InMemory
  <2> DEFINE v == M.r[ea.reg]
             w == W.r[ea.reg]
  <2>2. N = [M EXCEPT !.t[t] = v] /\ V = [W EXCEPT !.t[t] = w]
    BY <1>2 DEF ReadValue
  <2>3. w \in Int /\ (Same(c, M, W) => v = w)
    BY <2>1, RegAlike
  <2> HIDE DEF N, V, v, w
  <2>4. Sim(c, k, A \cup {t}, N, V) /\ Onward(M, W, N, V)
    BY <2>2, <2>3, SetTempSim
  <2>5. B \subseteq A \cup {t}
    BY <1>2, <2>1
  <2>6. Sim(c, l, B, N, V)
    BY <1>1, <2>4, <2>5, Weaker
  <2> QED
    BY <2>4, <2>6 DEF N, V
<1>3. CASE ea.mode = "imm"
  <2>1. N = Fetch(I, M, t) /\ V = Fetch(I, W, t) /\ ea.mode \notin InMemory
    BY <1>3 DEF ReadValue, InMemory
  <2> HIDE DEF N, V
  <2>2. Sim(c, l, B, N, V) /\ Onward(M, W, N, V)
    BY <1>1, <2>1, FetchSim
  <2> QED
    BY <2>2 DEF N, V
<1>4. CASE ea.mode # "reg" /\ ea.mode # "imm"
  <2>1. ea \in Ea(InMemory)
    BY <1>4 DEF Operand, Ea
  <2> DEFINE M1 == Resolve(I, M, ea, n)
             W1 == Resolve(I, W, ea, n)
  <2>2. N = Load(M1, n, t) /\ V = Load(W1, n, t)
    BY <1>4 DEF ReadValue
  <2>3. Sim(c, k + 1, A \cup {"ad"}, M1, W1) /\ Onward(M, W, M1, W1)
    BY <2>1, <1>1, ResolveSim
  <2> HIDE DEF N, V, M1, W1
  <2>4. Sim(c, k + 1, A \cup {"ad"} \cup {t}, N, V) /\ Onward(M1, W1, N, V)
    BY <2>2, <2>3, LoadSim
  <2>5. Onward(M, W, N, V)
    BY <2>3, <2>4, OnwardOn
  <2>6. B \subseteq A \cup {"ad"} \cup {t}
    OBVIOUS
  <2>7. Sim(c, l, B, N, V)
    BY <1>1, <2>4, <2>6, Weaker
  <2> QED
    BY <2>5, <2>7 DEF N, V
<1> QED
  BY <1>2, <1>3, <1>4

\* The result goes back to where the operand was read.
LEMMA WriteBackSim ==
  ASSUME NEW c, NEW k, NEW A, NEW M, NEW W, Sim(c, k, A, M, W),
         NEW ea \in Ea(InMemory \cup {"reg"}),
         ea.mode \in InMemory => Sim(c, k, A \cup {"ad"}, M, W),
         NEW n \in {1, 2}, NEW v, NEW w \in Int, Same(c, M, W) => v = w
  PROVE  /\ Sim(c, k, A, WriteBack(M, ea, n, v), WriteBack(W, ea, n, w))
         /\ Onward(M, W, WriteBack(M, ea, n, v), WriteBack(W, ea, n, w))
<1>1. CASE ea.mode = "reg"
  BY <1>1, SetRegSim DEF WriteBack, Ea
<1>2. CASE ea.mode # "reg"
  <2>1. Sim(c, k, A \cup {"ad"}, M, W)
    BY <1>2 DEF Ea
  <2>2. /\ Sim(c, k, A \cup {"ad"}, Store(M, n, v), Store(W, n, w))
        /\ Onward(M, W, Store(M, n, v), Store(W, n, w))
    BY <2>1, StoreSim
  <2>3. A \subseteq A \cup {"ad"}
    OBVIOUS
  <2>4. Sim(c, k, A, Store(M, n, v), Store(W, n, w))
    BY <2>2, <2>3, Fewer
  <2> QED
    BY <1>2, <2>2, <2>4 DEF WriteBack
<1> QED
  BY <1>1, <1>2

\* A result goes to an address of its own.
LEMMA WriteValueSim ==
  ASSUME NEW c, NEW k \in 0..2, NEW A, NEW M, NEW W, Sim(c, k, A, M, W),
         NEW I, I.words \in [1..4 -> Nat], NEW ea \in Ea(InMemory \cup {"reg"}), NEW n \in {1, 2},
         NEW v, NEW w \in Int, Same(c, M, W) => v = w,
         NEW l \in 0..5, k < l, NEW B, B \subseteq A
  PROVE  /\ Sim(c, l, B, WriteValue(I, M, ea, n, v), WriteValue(I, W, ea, n, w))
         /\ Onward(M, W, WriteValue(I, M, ea, n, v), WriteValue(I, W, ea, n, w))
<1> DEFINE N == WriteValue(I, M, ea, n, v)
           V == WriteValue(I, W, ea, n, w)
<1>1. k \in 0..5 /\ k + 1 \in 0..5 /\ k < k + 1 /\ k <= l /\ k + 1 <= l /\ B \subseteq A \cup {"ad"}
  OBVIOUS
<1>2. CASE ea.mode = "reg"
  <2>1. N = SetReg(M, ea.reg, v) /\ V = SetReg(W, ea.reg, w) /\ ea.reg \in Reg
    BY <1>2 DEF WriteValue, Ea
  <2> HIDE DEF N, V
  <2>2. Sim(c, k, A, N, V) /\ Onward(M, W, N, V)
    BY <2>1, SetRegSim
  <2>3. Sim(c, l, B, N, V)
    BY <1>1, <2>2, Weaker
  <2> QED
    BY <2>2, <2>3 DEF N, V
<1>3. CASE ea.mode # "reg"
  <2>1. ea \in Ea(InMemory)
    BY <1>3 DEF Ea
  <2> DEFINE M1 == Resolve(I, M, ea, n)
             W1 == Resolve(I, W, ea, n)
  <2>2. N = Store(M1, n, v) /\ V = Store(W1, n, w)
    BY <1>3 DEF WriteValue
  <2>3. Sim(c, k + 1, A \cup {"ad"}, M1, W1) /\ Onward(M, W, M1, W1)
    BY <2>1, <1>1, ResolveSim
  <2> HIDE DEF N, V, M1, W1
  <2>4. Same(c, M1, W1) => v = w
    BY <2>3, OnwardSame
  <2>5. Sim(c, k + 1, A \cup {"ad"}, N, V) /\ Onward(M1, W1, N, V)
    BY <2>2, <2>3, <2>4, StoreSim
  <2>6. Onward(M, W, N, V)
    BY <2>3, <2>5, OnwardOn
  <2>7. Sim(c, l, B, N, V)
    BY <1>1, <2>5, Weaker
  <2> QED
    BY <2>6, <2>7 DEF N, V
<1> QED
  BY <1>2, <1>3

\* A push.
LEMMA PushSim ==
  ASSUME NEW c, NEW k, NEW A, NEW M, NEW W, Sim(c, k, A, M, W),
         NEW v, NEW w \in Int, Same(c, M, W) => v = w
  PROVE  Sim(c, k, A, Push(M, v), Push(W, w)) /\ Onward(M, W, Push(M, v), Push(W, w))
<1> DEFINE a == M.r[Sp] - 2
           b == W.r[Sp] - 2
           M1 == SetReg(M, Sp, a)
           W1 == SetReg(W, Sp, b)
           M2 == At(M1, a)
           W2 == At(W1, b)
           N == Push(M, v)
           V == Push(W, w)
<1>1. N = Store(M2, 2, v) /\ V = Store(W2, 2, w) /\ Sp \in Reg
  BY DEF Push, Sp, Reg
<1>2. b \in Int /\ (Same(c, M, W) => a = b)
  BY <1>1, RegAlike
<1> HIDE DEF N, V, a, b
<1>3. Sim(c, k, A, M1, W1) /\ Onward(M, W, M1, W1)
  BY <1>1, <1>2, SetRegSim
<1> HIDE DEF M1, W1
<1>4. Same(c, M1, W1) => a = b /\ v = w
  BY <1>2, <1>3, OnwardSame
<1>5. Sim(c, k, A \cup {"ad"}, M2, W2) /\ Onward(M1, W1, M2, W2)
  BY <1>2, <1>3, <1>4, AtSim
<1> HIDE DEF M2, W2
<1>6. Same(c, M2, W2) => v = w
  BY <1>4, <1>5, OnwardSame
<1>7. Sim(c, k, A \cup {"ad"}, N, V) /\ Onward(M2, W2, N, V)
  BY <1>1, <1>5, <1>6, StoreSim
<1>8. A \subseteq A \cup {"ad"}
  OBVIOUS
<1>9. Sim(c, k, A, N, V)
  BY <1>7, <1>8, Fewer
<1>10. Onward(M, W, M2, W2)
  BY <1>3, <1>5, OnwardOn
<1>11. Onward(M, W, N, V)
  BY <1>7, <1>10, OnwardOn
<1> QED
  BY <1>9, <1>11 DEF N, V

\* A pop.
LEMMA PopSim ==
  ASSUME NEW c, NEW k, NEW A, NEW M, NEW W, Sim(c, k, A, M, W), NEW t \in Temps,
         NEW B, B \subseteq A \cup {t}
  PROVE  Sim(c, k, B, Pop(M, t), Pop(W, t)) /\ Onward(M, W, Pop(M, t), Pop(W, t))
<1> DEFINE a == M.r[Sp]
           b == W.r[Sp]
           M1 == At(M, a)
           W1 == At(W, b)
           M2 == Load(M1, 2, t)
           W2 == Load(W1, 2, t)
           N == Pop(M, t)
           V == Pop(W, t)
<1>1. N = SetReg(M2, Sp, a + 2) /\ V = SetReg(W2, Sp, b + 2) /\ Sp \in Reg
  BY DEF Pop, Sp, Reg
<1>2. b \in Int /\ (Same(c, M, W) => a = b)
  BY <1>1, RegAlike
<1> HIDE DEF N, V, a, b
<1>3. Sim(c, k, A \cup {"ad"}, M1, W1) /\ Onward(M, W, M1, W1)
  BY <1>2, AtSim
<1> HIDE DEF M1, W1
<1>4. Sim(c, k, A \cup {"ad"} \cup {t}, M2, W2) /\ Onward(M1, W1, M2, W2)
  BY <1>3, LoadSim
<1> HIDE DEF M2, W2
<1>5. Onward(M, W, M2, W2)
  BY <1>3, <1>4, OnwardOn
<1>6. b + 2 \in Int /\ (Same(c, M2, W2) => a + 2 = b + 2)
  BY <1>2, <1>5, OnwardSame
<1>7. Sim(c, k, A \cup {"ad"} \cup {t}, N, V) /\ Onward(M2, W2, N, V)
  BY <1>1, <1>4, <1>6, SetRegSim
<1>8. Sim(c, k, B, N, V)
  BY <1>7, Fewer
<1>9. Onward(M, W, N, V)
  BY <1>5, <1>7, OnwardOn
<1> QED
  BY <1>8, <1>9 DEF N, V

\* The result of an operation is a number.
LEMMA ResultInt ==
  ASSUME NEW alu \in Alu, NEW x \in Int, NEW y \in Int
  PROVE  Result(alu, x, y) \in Int
<1>1. x + y \in Int /\ x - y \in Int /\ -x \in Int /\ x * y \in Int /\ 15 - x \in Int
  OBVIOUS
<1>2. Mod(x + y) \in Int /\ Mod(x - y) \in Int /\ Mod(-x) \in Int /\ Mod(x * y) \in Int
  BY <1>1, ModInt
<1>3. CASE alu = "add"
  BY <1>2, <1>3 DEF Result
<1>4. CASE alu = "sub"
  BY <1>2, <1>4 DEF Result
<1>5. CASE alu = "neg"
  BY <1>2, <1>5 DEF Result
<1>6. CASE alu = "not"
  BY <1>1, <1>6 DEF Result
<1>7. CASE alu = "mul"
  BY <1>2, <1>7 DEF Result
<1> QED
  BY <1>3, <1>4, <1>5, <1>6, <1>7 DEF Alu

-----------------------------------------------------------------------------
(* The handlers: each is run on the machine and, with nothing missing,     *)
(* beside it, from after the first word.                                   *)

Coded(I) == I.words \in [1..4 -> Nat] /\ I.n \in {1, 2}

Anywhere == Ea(InMemory \cup {"reg"})

\* MOVE.
LEMMA MoveSim ==
  ASSUME NEW c, NEW M, NEW W, Sim(c, First, Nothing, M, W), NEW I, Coded(I),
         I.ea \in Operand, I.ea2 \in Anywhere
  PROVE  Sim(c, Last, Nothing, Move(I, M), Move(I, W))
<1> DEFINE M1 == ReadValue(I, M, I.ea, I.n, "x")
           W1 == ReadValue(I, W, I.ea, I.n, "x")
           v  == M1.t["x"]
           w  == W1.t["x"]
           M2 == WriteValue(I, M1, I.ea2, I.n, v)
           W2 == WriteValue(I, W1, I.ea2, I.n, w)
           N  == Move(I, M)
           V  == Move(I, W)
<1>1. N = Flags(M2, v) /\ V = Flags(W2, w) /\ "x" \in Temps
  BY DEF Move, Temps
<1>2. Sim(c, Second, {"x"}, M1, W1)
  BY <1>1, Words, ReadValueSim DEF Coded
<1> HIDE DEF M1, W1
<1>3. w \in Int /\ (Same(c, M1, W1) => v = w)
  BY <1>1, <1>2, TempAlike
<1> HIDE DEF v, w, N, V
<1>4. Sim(c, Third, {"x"}, M2, W2) /\ Onward(M1, W1, M2, W2)
  <2>1. /\ I.words \in [1..4 -> Nat] /\ I.n \in {1, 2} /\ I.ea2 \in Ea(InMemory \cup {"reg"})
        /\ Second \in 0..2 /\ Third \in 0..5 /\ Second < Third
    BY Words DEF Coded, Anywhere
  <2> DEFINE x == {"x"}
  <2>2. Sim(c, Second, x, M1, W1) /\ x \subseteq x
    BY <1>2
  <2> HIDE DEF x, M2, W2
  <2>3. Sim(c, Third, x, WriteValue(I, M1, I.ea2, I.n, v), WriteValue(I, W1, I.ea2, I.n, w))
        /\ Onward(M1, W1, WriteValue(I, M1, I.ea2, I.n, v), WriteValue(I, W1, I.ea2, I.n, w))
    BY <1>3, <2>1, <2>2, WriteValueSim
  <2> QED
    BY <2>3 DEF x, M2, W2
<1> HIDE DEF M2, W2
<1>5. Same(c, M2, W2) => v = w
  BY <1>3, <1>4, OnwardSame
<1>6. Sim(c, Third, {"x"}, N, V)
  BY <1>1, <1>3, <1>4, <1>5, FlagsSim
<1>7. Sim(c, Last, Nothing, N, V)
  BY <1>6, Words, Ended
<1> QED
  BY <1>7 DEF N, V

\* CLR and its kind.
LEMMA WriteOnlySim ==
  ASSUME NEW c, NEW M, NEW W, Sim(c, First, Nothing, M, W), NEW I, Coded(I), I.ea \in Anywhere
  PROVE  Sim(c, Last, Nothing, WriteOnly(I, M), WriteOnly(I, W))
<1> DEFINE v1 == 0
           w1 == 0
           M1 == WriteValue(I, M, I.ea, I.n, v1)
           W1 == WriteValue(I, W, I.ea, I.n, w1)
           M2 == Flags(M1, v1)
           W2 == Flags(W1, w1)
<1>1. WriteOnly(I, M) = M2 /\ WriteOnly(I, W) = W2
  BY DEF WriteOnly
<1>2. 1 \in Int
  BY DEF Temps, Reg
<1> HIDE DEF v1, w1, M1, W1, M2, W2
<1>3. w1 \in Int /\ (Same(c, M, W) => v1 = w1)
  BY <1>2 DEF v1, w1
<1>4. Sim(c, Second, Nothing, M1, W1) /\ Onward(M, W, M1, W1)
  BY <1>3, <1>2, Words, NothingMore, WriteValueSim DEF M1, W1, Coded, Anywhere
<1>5. w1 \in Int /\ (Same(c, M1, W1) => v1 = w1)
  BY <1>3, <1>4, OnwardSame
<1>6. Sim(c, Second, Nothing, M2, W2) /\ Onward(M1, W1, M2, W2)
  BY <1>4, <1>5, <1>2, Words, NothingMore, FlagsSim DEF M2, W2
<1> QED
  BY <1>1, <1>6, Words, Ended

\* A result written back.
LEMMA ModifySim ==
  ASSUME NEW c, NEW M, NEW W, Sim(c, First, Nothing, M, W), NEW I, Coded(I),
         I.ea \in Operand /\ I.ea \in Anywhere, I.alu \in Alu
  PROVE  Sim(c, Last, Nothing, Modify(I, M), Modify(I, W))
<1> DEFINE M1 == ReadValue(I, M, I.ea, I.n, "x")
           W1 == ReadValue(I, W, I.ea, I.n, "x")
           v1 == Result(I.alu, M1.t["x"], M1.r["d0"])
           w1 == Result(I.alu, W1.t["x"], W1.r["d0"])
           M2 == WriteBack(M1, I.ea, I.n, v1)
           W2 == WriteBack(W1, I.ea, I.n, w1)
           M3 == Flags(M2, v1)
           W3 == Flags(W2, w1)
<1>1. Modify(I, M) = M3 /\ Modify(I, W) = W3
  BY DEF Modify
<1>2. "x" \in Temps /\ "d0" \in Reg
  BY DEF Temps, Reg
<1> HIDE DEF M1, W1, v1, w1, M2, W2, M3, W3
<1>3. Sim(c, Second, {"x"}, M1, W1) /\ Onward(M, W, M1, W1)
  BY <1>2, Words, ReadValueSim DEF M1, W1, Coded
<1>4. W1.t["x"] \in Int /\ (Same(c, M1, W1) => M1.t["x"] = W1.t["x"])
  BY <1>3, <1>2, TempAlike
<1>5. W1.r["d0"] \in Int /\ (Same(c, M1, W1) => M1.r["d0"] = W1.r["d0"])
  BY <1>3, <1>2, RegAlike
<1>6. w1 \in Int /\ (Same(c, M1, W1) => v1 = w1)
  BY <1>4, <1>5, <1>2, ResultInt DEF v1, w1
<1>7. I.ea.mode \in InMemory => Sim(c, Second, {"ad", "x"}, M1, W1)
  BY <1>2, Words, ReadValueSim DEF M1, W1, Coded
<1>8. I.ea.mode \in InMemory => Sim(c, Second, {"x"} \cup {"ad"}, M1, W1)
  BY <1>7, Fewer
<1>9. Sim(c, Second, {"x"}, M2, W2) /\ Onward(M1, W1, M2, W2)
  BY <1>3, <1>6, <1>8, <1>2, Words, WriteBackSim DEF M2, W2, Coded, Anywhere
<1>10. w1 \in Int /\ (Same(c, M2, W2) => v1 = w1)
  BY <1>6, <1>9, OnwardSame
<1>11. Sim(c, Second, {"x"}, M3, W3) /\ Onward(M2, W2, M3, W3)
  BY <1>9, <1>10, <1>2, Words, FlagsSim DEF M3, W3
<1> QED
  BY <1>1, <1>11, Words, Ended

\* Likewise, with an immediate.
LEMMA ModifyImmediateSim ==
  ASSUME NEW c, NEW M, NEW W, Sim(c, First, Nothing, M, W), NEW I, Coded(I),
         I.ea \in Operand /\ I.ea \in Anywhere, I.alu \in Alu
  PROVE  Sim(c, Last, Nothing, ModifyImmediate(I, M), ModifyImmediate(I, W))
<1> DEFINE M1 == Fetch(I, M, "y")
           W1 == Fetch(I, W, "y")
           M2 == ReadValue(I, M1, I.ea, I.n, "x")
           W2 == ReadValue(I, W1, I.ea, I.n, "x")
           v1 == Result(I.alu, M2.t["x"], M2.t["y"])
           w1 == Result(I.alu, W2.t["x"], W2.t["y"])
           M3 == WriteBack(M2, I.ea, I.n, v1)
           W3 == WriteBack(W2, I.ea, I.n, w1)
           M4 == Flags(M3, v1)
           W4 == Flags(W3, w1)
<1>1. ModifyImmediate(I, M) = M4 /\ ModifyImmediate(I, W) = W4
  BY DEF ModifyImmediate
<1>2. "x" \in Temps /\ "y" \in Temps
  BY DEF Temps, Reg
<1> HIDE DEF M1, W1, M2, W2, v1, w1, M3, W3, M4, W4
<1>3. Sim(c, Second, {"y"}, M1, W1) /\ Onward(M, W, M1, W1)
  BY <1>2, Words, FetchSim DEF M1, W1, Coded
<1>4. Sim(c, Third, {"x", "y"}, M2, W2) /\ Onward(M1, W1, M2, W2)
  BY <1>3, <1>2, Words, ReadValueSim DEF M2, W2, Coded
<1>5. W2.t["x"] \in Int /\ (Same(c, M2, W2) => M2.t["x"] = W2.t["x"])
  BY <1>4, <1>2, TempAlike
<1>6. W2.t["y"] \in Int /\ (Same(c, M2, W2) => M2.t["y"] = W2.t["y"])
  BY <1>4, <1>2, TempAlike
<1>7. w1 \in Int /\ (Same(c, M2, W2) => v1 = w1)
  BY <1>5, <1>6, <1>2, ResultInt DEF v1, w1
<1>8. I.ea.mode \in InMemory => Sim(c, Third, {"ad", "x", "y"}, M2, W2)
  BY <1>3, <1>2, Words, ReadValueSim DEF M2, W2, Coded
<1>9. I.ea.mode \in InMemory => Sim(c, Third, {"x", "y"} \cup {"ad"}, M2, W2)
  BY <1>8, Fewer
<1>10. Sim(c, Third, {"x", "y"}, M3, W3) /\ Onward(M2, W2, M3, W3)
  BY <1>4, <1>7, <1>9, <1>2, Words, WriteBackSim DEF M3, W3, Coded, Anywhere
<1>11. w1 \in Int /\ (Same(c, M3, W3) => v1 = w1)
  BY <1>7, <1>10, OnwardSame
<1>12. Sim(c, Third, {"x", "y"}, M4, W4) /\ Onward(M3, W3, M4, W4)
  BY <1>10, <1>11, <1>2, Words, FlagsSim DEF M4, W4
<1> QED
  BY <1>1, <1>12, Words, Ended

\* A result in a register.
LEMMA ToRegisterSim ==
  ASSUME NEW c, NEW M, NEW W, Sim(c, First, Nothing, M, W), NEW I, Coded(I), I.ea \in Operand,
         I.alu \in Alu
  PROVE  Sim(c, Last, Nothing, ToRegister(I, M), ToRegister(I, W))
<1> DEFINE M1 == ReadValue(I, M, I.ea, I.n, "x")
           W1 == ReadValue(I, W, I.ea, I.n, "x")
           v1 == Result(I.alu, M1.t["x"], M1.r["d0"])
           w1 == Result(I.alu, W1.t["x"], W1.r["d0"])
           M2 == SetReg(M1, "d0", v1)
           W2 == SetReg(W1, "d0", w1)
           M3 == Flags(M2, v1)
           W3 == Flags(W2, w1)
<1>1. ToRegister(I, M) = M3 /\ ToRegister(I, W) = W3
  BY DEF ToRegister
<1>2. "x" \in Temps /\ "d0" \in Reg
  BY DEF Temps, Reg
<1> HIDE DEF M1, W1, v1, w1, M2, W2, M3, W3
<1>3. Sim(c, Second, {"x"}, M1, W1) /\ Onward(M, W, M1, W1)
  BY <1>2, Words, ReadValueSim DEF M1, W1, Coded
<1>4. W1.t["x"] \in Int /\ (Same(c, M1, W1) => M1.t["x"] = W1.t["x"])
  BY <1>3, <1>2, TempAlike
<1>5. W1.r["d0"] \in Int /\ (Same(c, M1, W1) => M1.r["d0"] = W1.r["d0"])
  BY <1>3, <1>2, RegAlike
<1>6. w1 \in Int /\ (Same(c, M1, W1) => v1 = w1)
  BY <1>4, <1>5, <1>2, ResultInt DEF v1, w1
<1>7. Sim(c, Second, {"x"}, M2, W2) /\ Onward(M1, W1, M2, W2)
  BY <1>3, <1>6, <1>2, Words, SetRegSim DEF M2, W2
<1>8. w1 \in Int /\ (Same(c, M2, W2) => v1 = w1)
  BY <1>6, <1>7, OnwardSame
<1>9. Sim(c, Second, {"x"}, M3, W3) /\ Onward(M2, W2, M3, W3)
  BY <1>7, <1>8, <1>2, Words, FlagsSim DEF M3, W3
<1> QED
  BY <1>1, <1>9, Words, Ended

\* A result in two.
LEMMA ToRegistersSim ==
  ASSUME NEW c, NEW M, NEW W, Sim(c, First, Nothing, M, W), NEW I, Coded(I), I.ea \in Operand,
         I.alu \in Alu
  PROVE  Sim(c, Last, Nothing, ToRegisters(I, M), ToRegisters(I, W))
<1> DEFINE M1 == Fetch(I, M, "e")
           W1 == Fetch(I, W, "e")
           M2 == ReadValue(I, M1, I.ea, I.n, "x")
           W2 == ReadValue(I, W1, I.ea, I.n, "x")
           v1 == Result(I.alu, M2.t["x"], M2.r["d0"])
           w1 == Result(I.alu, W2.t["x"], W2.r["d0"])
           M3 == SetReg(M2, "d0", v1)
           W3 == SetReg(W2, "d0", w1)
           M4 == Flags(M3, v1)
           W4 == Flags(W3, w1)
           M5 == SetReg(M4, "d1", M4.t["x"])
           W5 == SetReg(W4, "d1", W4.t["x"])
<1>1. ToRegisters(I, M) = M5 /\ ToRegisters(I, W) = W5
  BY DEF ToRegisters, ToRegister
<1>2. "e" \in Temps /\ "x" \in Temps /\ "d0" \in Reg /\ "d1" \in Reg
  BY DEF Temps, Reg
<1> HIDE DEF M1, W1, M2, W2, v1, w1, M3, W3, M4, W4, M5, W5
<1>3. Sim(c, Second, {"e"}, M1, W1) /\ Onward(M, W, M1, W1)
  BY <1>2, Words, FetchSim DEF M1, W1, Coded
<1>4. Sim(c, Third, {"e", "x"}, M2, W2) /\ Onward(M1, W1, M2, W2)
  BY <1>3, <1>2, Words, ReadValueSim DEF M2, W2, Coded
<1>5. W2.t["x"] \in Int /\ (Same(c, M2, W2) => M2.t["x"] = W2.t["x"])
  BY <1>4, <1>2, TempAlike
<1>6. W2.r["d0"] \in Int /\ (Same(c, M2, W2) => M2.r["d0"] = W2.r["d0"])
  BY <1>4, <1>2, RegAlike
<1>7. w1 \in Int /\ (Same(c, M2, W2) => v1 = w1)
  BY <1>5, <1>6, <1>2, ResultInt DEF v1, w1
<1>8. Sim(c, Third, {"e", "x"}, M3, W3) /\ Onward(M2, W2, M3, W3)
  BY <1>4, <1>7, <1>2, Words, SetRegSim DEF M3, W3
<1>9. w1 \in Int /\ (Same(c, M3, W3) => v1 = w1)
  BY <1>7, <1>8, OnwardSame
<1>10. Sim(c, Third, {"e", "x"}, M4, W4) /\ Onward(M3, W3, M4, W4)
  BY <1>8, <1>9, <1>2, Words, FlagsSim DEF M4, W4
<1>11. W4.t["x"] \in Int /\ (Same(c, M4, W4) => M4.t["x"] = W4.t["x"])
  BY <1>10, <1>2, TempAlike
<1>12. Sim(c, Third, {"e", "x"}, M5, W5) /\ Onward(M4, W4, M5, W5)
  BY <1>10, <1>11, <1>2, Words, SetRegSim DEF M5, W5
<1> QED
  BY <1>1, <1>12, Words, Ended

\* ADDX and its kind.
LEMMA ExtendedSim ==
  ASSUME NEW c, NEW M, NEW W, Sim(c, First, Nothing, M, W), NEW I, Coded(I), I.alu \in Alu
  PROVE  Sim(c, Last, Nothing, Extended(I, M), Extended(I, W))
<1> DEFINE v1 == M.r["a0"] - I.n
           w1 == W.r["a0"] - I.n
           v2 == M.r["a1"] - I.n
           w2 == W.r["a1"] - I.n
           M1 == SetReg(M, "a0", v1)
           W1 == SetReg(W, "a0", w1)
           M2 == SetReg(M1, "a1", v2)
           W2 == SetReg(W1, "a1", w2)
           M3 == At(M2, M2.r["a0"])
           W3 == At(W2, W2.r["a0"])
           M4 == Load(M3, I.n, "x")
           W4 == Load(W3, I.n, "x")
           M5 == At(M4, M4.r["a1"])
           W5 == At(W4, W4.r["a1"])
           M6 == Load(M5, I.n, "y")
           W6 == Load(W5, I.n, "y")
           v3 == Result(I.alu, M6.t["y"], M6.t["x"])
           w3 == Result(I.alu, W6.t["y"], W6.t["x"])
           M7 == Store(M6, I.n, v3)
           W7 == Store(W6, I.n, w3)
           M8 == Flags(M7, v3)
           W8 == Flags(W7, w3)
<1>1. Extended(I, M) = M8 /\ Extended(I, W) = W8
  BY DEF Extended
<1>2. "x" \in Temps /\ "y" \in Temps /\ "a0" \in Reg /\ "a1" \in Reg
  BY DEF Temps, Reg
<1> HIDE DEF v1, w1, v2, w2, M1, W1, M2, W2, M3, W3, M4, W4, M5, W5, M6, W6, v3, w3, M7, W7,
    M8, W8
<1>3. W.r["a0"] \in Int /\ (Same(c, M, W) => M.r["a0"] = W.r["a0"])
  BY <1>2, RegAlike
<1>4. w1 \in Int /\ (Same(c, M, W) => v1 = w1)
  BY <1>3, <1>2 DEF v1, w1, Coded
<1>5. W.r["a1"] \in Int /\ (Same(c, M, W) => M.r["a1"] = W.r["a1"])
  BY <1>2, RegAlike
<1>6. w2 \in Int /\ (Same(c, M, W) => v2 = w2)
  BY <1>5, <1>2 DEF v2, w2, Coded
<1>7. Sim(c, First, Nothing, M1, W1) /\ Onward(M, W, M1, W1)
  BY <1>4, <1>2, Words, NothingMore, SetRegSim DEF M1, W1
<1>8. w2 \in Int /\ (Same(c, M1, W1) => v2 = w2)
  BY <1>6, <1>7, OnwardSame
<1>9. Sim(c, First, Nothing, M2, W2) /\ Onward(M1, W1, M2, W2)
  BY <1>7, <1>8, <1>2, Words, NothingMore, SetRegSim DEF M2, W2
<1>10. W2.r["a0"] \in Int /\ (Same(c, M2, W2) => M2.r["a0"] = W2.r["a0"])
  BY <1>9, <1>2, RegAlike
<1>11. Sim(c, First, {"ad"}, M3, W3) /\ Onward(M2, W2, M3, W3)
  BY <1>9, <1>10, <1>2, Words, AtSim DEF M3, W3, Coded
<1>12. Sim(c, First, {"ad", "x"}, M4, W4) /\ Onward(M3, W3, M4, W4)
  BY <1>11, <1>2, Words, LoadSim DEF M4, W4, Coded
<1>13. W4.r["a1"] \in Int /\ (Same(c, M4, W4) => M4.r["a1"] = W4.r["a1"])
  BY <1>12, <1>2, RegAlike
<1>14. Sim(c, First, {"ad", "x"}, M5, W5) /\ Onward(M4, W4, M5, W5)
  BY <1>12, <1>13, <1>2, Words, AtSim DEF M5, W5, Coded
<1>15. Sim(c, First, {"ad", "x", "y"}, M6, W6) /\ Onward(M5, W5, M6, W6)
  BY <1>14, <1>2, Words, LoadSim DEF M6, W6, Coded
<1>16. W6.t["y"] \in Int /\ (Same(c, M6, W6) => M6.t["y"] = W6.t["y"])
  BY <1>15, <1>2, TempAlike
<1>17. W6.t["x"] \in Int /\ (Same(c, M6, W6) => M6.t["x"] = W6.t["x"])
  BY <1>15, <1>2, TempAlike
<1>18. w3 \in Int /\ (Same(c, M6, W6) => v3 = w3)
  BY <1>16, <1>17, <1>2, ResultInt DEF v3, w3
<1>19. Sim(c, First, {"ad", "x", "y"}, M7, W7) /\ Onward(M6, W6, M7, W7)
  BY <1>15, <1>18, <1>2, Words, StoreSim DEF M7, W7, Coded
<1>20. w3 \in Int /\ (Same(c, M7, W7) => v3 = w3)
  BY <1>18, <1>19, OnwardSame
<1>21. Sim(c, First, {"ad", "x", "y"}, M8, W8) /\ Onward(M7, W7, M8, W8)
  BY <1>19, <1>20, <1>2, Words, FlagsSim DEF M8, W8
<1> QED
  BY <1>1, <1>21, Words, Ended

\* CMPM.
LEMMA CmpmSim ==
  ASSUME NEW c, NEW M, NEW W, Sim(c, First, Nothing, M, W), NEW I, Coded(I)
  PROVE  Sim(c, Last, Nothing, Cmpm(I, M), Cmpm(I, W))
<1> DEFINE M1 == At(M, M.r["a0"])
           W1 == At(W, W.r["a0"])
           M2 == Load(M1, I.n, "x")
           W2 == Load(W1, I.n, "x")
           v1 == M2.r["a0"] + I.n
           w1 == W2.r["a0"] + I.n
           M3 == SetReg(M2, "a0", v1)
           W3 == SetReg(W2, "a0", w1)
           M4 == At(M3, M3.r["a1"])
           W4 == At(W3, W3.r["a1"])
           M5 == Load(M4, I.n, "y")
           W5 == Load(W4, I.n, "y")
           v2 == M5.t["y"] - M5.t["x"]
           w2 == W5.t["y"] - W5.t["x"]
           v3 == M5.r["a1"] + I.n
           w3 == W5.r["a1"] + I.n
           M6 == SetReg(M5, "a1", v3)
           W6 == SetReg(W5, "a1", w3)
           M7 == Flags(M6, v2)
           W7 == Flags(W6, w2)
<1>1. Cmpm(I, M) = M7 /\ Cmpm(I, W) = W7
  BY DEF Cmpm
<1>2. "x" \in Temps /\ "y" \in Temps /\ "a0" \in Reg /\ "a1" \in Reg
  BY DEF Temps, Reg
<1> HIDE DEF M1, W1, M2, W2, v1, w1, M3, W3, M4, W4, M5, W5, v2, w2, v3, w3, M6, W6, M7, W7
<1>3. W.r["a0"] \in Int /\ (Same(c, M, W) => M.r["a0"] = W.r["a0"])
  BY <1>2, RegAlike
<1>4. Sim(c, First, {"ad"}, M1, W1) /\ Onward(M, W, M1, W1)
  BY <1>3, <1>2, Words, AtSim DEF M1, W1, Coded
<1>5. Sim(c, First, {"ad", "x"}, M2, W2) /\ Onward(M1, W1, M2, W2)
  BY <1>4, <1>2, Words, LoadSim DEF M2, W2, Coded
<1>6. W2.r["a0"] \in Int /\ (Same(c, M2, W2) => M2.r["a0"] = W2.r["a0"])
  BY <1>5, <1>2, RegAlike
<1>7. w1 \in Int /\ (Same(c, M2, W2) => v1 = w1)
  BY <1>6, <1>2 DEF v1, w1, Coded
<1>8. Sim(c, First, {"ad", "x"}, M3, W3) /\ Onward(M2, W2, M3, W3)
  BY <1>5, <1>7, <1>2, Words, SetRegSim DEF M3, W3
<1>9. W3.r["a1"] \in Int /\ (Same(c, M3, W3) => M3.r["a1"] = W3.r["a1"])
  BY <1>8, <1>2, RegAlike
<1>10. Sim(c, First, {"ad", "x"}, M4, W4) /\ Onward(M3, W3, M4, W4)
  BY <1>8, <1>9, <1>2, Words, AtSim DEF M4, W4, Coded
<1>11. Sim(c, First, {"ad", "x", "y"}, M5, W5) /\ Onward(M4, W4, M5, W5)
  BY <1>10, <1>2, Words, LoadSim DEF M5, W5, Coded
<1>12. W5.t["y"] \in Int /\ (Same(c, M5, W5) => M5.t["y"] = W5.t["y"])
  BY <1>11, <1>2, TempAlike
<1>13. W5.t["x"] \in Int /\ (Same(c, M5, W5) => M5.t["x"] = W5.t["x"])
  BY <1>11, <1>2, TempAlike
<1>14. w2 \in Int /\ (Same(c, M5, W5) => v2 = w2)
  BY <1>12, <1>13, <1>2 DEF v2, w2
<1>15. W5.r["a1"] \in Int /\ (Same(c, M5, W5) => M5.r["a1"] = W5.r["a1"])
  BY <1>11, <1>2, RegAlike
<1>16. w3 \in Int /\ (Same(c, M5, W5) => v3 = w3)
  BY <1>15, <1>2 DEF v3, w3, Coded
<1>17. Sim(c, First, {"ad", "x", "y"}, M6, W6) /\ Onward(M5, W5, M6, W6)
  BY <1>11, <1>16, <1>2, Words, SetRegSim DEF M6, W6
<1>18. w2 \in Int /\ (Same(c, M6, W6) => v2 = w2)
  BY <1>14, <1>17, OnwardSame
<1>19. Sim(c, First, {"ad", "x", "y"}, M7, W7) /\ Onward(M6, W6, M7, W7)
  BY <1>17, <1>18, <1>2, Words, FlagsSim DEF M7, W7
<1> QED
  BY <1>1, <1>19, Words, Ended

\* UNPK.
LEMMA UnpkSim ==
  ASSUME NEW c, NEW M, NEW W, Sim(c, First, Nothing, M, W), NEW I, Coded(I)
  PROVE  Sim(c, Last, Nothing, Unpk(I, M), Unpk(I, W))
<1> DEFINE M1 == Fetch(I, M, "y")
           W1 == Fetch(I, W, "y")
           v1 == M1.r["a0"] - 1
           w1 == W1.r["a0"] - 1
           M2 == SetReg(M1, "a0", v1)
           W2 == SetReg(W1, "a0", w1)
           M3 == At(M2, M2.r["a0"])
           W3 == At(W2, W2.r["a0"])
           M4 == Load(M3, 1, "x")
           W4 == Load(W3, 1, "x")
           v2 == M4.r["a1"] - 2
           w2 == W4.r["a1"] - 2
           M5 == SetReg(M4, "a1", v2)
           W5 == SetReg(W4, "a1", w2)
           v3 == M5.t["x"] + M5.t["y"]
           w3 == W5.t["x"] + W5.t["y"]
           M6 == At(M5, M5.r["a1"])
           W6 == At(W5, W5.r["a1"])
           M7 == Store(M6, 2, v3)
           W7 == Store(W6, 2, w3)
<1>1. Unpk(I, M) = M7 /\ Unpk(I, W) = W7
  BY DEF Unpk
<1>2. "x" \in Temps /\ "y" \in Temps /\ "a0" \in Reg /\ "a1" \in Reg
  BY DEF Temps, Reg
<1> HIDE DEF M1, W1, v1, w1, M2, W2, M3, W3, M4, W4, v2, w2, M5, W5, v3, w3, M6, W6, M7, W7
<1>3. Sim(c, Second, {"y"}, M1, W1) /\ Onward(M, W, M1, W1)
  BY <1>2, Words, FetchSim DEF M1, W1, Coded
<1>4. W1.r["a0"] \in Int /\ (Same(c, M1, W1) => M1.r["a0"] = W1.r["a0"])
  BY <1>3, <1>2, RegAlike
<1>5. w1 \in Int /\ (Same(c, M1, W1) => v1 = w1)
  BY <1>4, <1>2 DEF v1, w1
<1>6. Sim(c, Second, {"y"}, M2, W2) /\ Onward(M1, W1, M2, W2)
  BY <1>3, <1>5, <1>2, Words, SetRegSim DEF M2, W2
<1>7. W2.r["a0"] \in Int /\ (Same(c, M2, W2) => M2.r["a0"] = W2.r["a0"])
  BY <1>6, <1>2, RegAlike
<1>8. Sim(c, Second, {"ad", "y"}, M3, W3) /\ Onward(M2, W2, M3, W3)
  BY <1>6, <1>7, <1>2, Words, AtSim DEF M3, W3, Coded
<1>9. Sim(c, Second, {"ad", "x", "y"}, M4, W4) /\ Onward(M3, W3, M4, W4)
  BY <1>8, <1>2, Words, LoadSim DEF M4, W4, Coded
<1>10. W4.r["a1"] \in Int /\ (Same(c, M4, W4) => M4.r["a1"] = W4.r["a1"])
  BY <1>9, <1>2, RegAlike
<1>11. w2 \in Int /\ (Same(c, M4, W4) => v2 = w2)
  BY <1>10, <1>2 DEF v2, w2
<1>12. Sim(c, Second, {"ad", "x", "y"}, M5, W5) /\ Onward(M4, W4, M5, W5)
  BY <1>9, <1>11, <1>2, Words, SetRegSim DEF M5, W5
<1>13. W5.t["x"] \in Int /\ (Same(c, M5, W5) => M5.t["x"] = W5.t["x"])
  BY <1>12, <1>2, TempAlike
<1>14. W5.t["y"] \in Int /\ (Same(c, M5, W5) => M5.t["y"] = W5.t["y"])
  BY <1>12, <1>2, TempAlike
<1>15. w3 \in Int /\ (Same(c, M5, W5) => v3 = w3)
  BY <1>13, <1>14, <1>2 DEF v3, w3
<1>16. W5.r["a1"] \in Int /\ (Same(c, M5, W5) => M5.r["a1"] = W5.r["a1"])
  BY <1>12, <1>2, RegAlike
<1>17. Sim(c, Second, {"ad", "x", "y"}, M6, W6) /\ Onward(M5, W5, M6, W6)
  BY <1>12, <1>16, <1>2, Words, AtSim DEF M6, W6, Coded
<1>18. w3 \in Int /\ (Same(c, M6, W6) => v3 = w3)
  BY <1>15, <1>17, OnwardSame
<1>19. Sim(c, Second, {"ad", "x", "y"}, M7, W7) /\ Onward(M6, W6, M7, W7)
  BY <1>17, <1>18, <1>2, Words, StoreSim DEF M7, W7, Coded
<1> QED
  BY <1>1, <1>19, Words, Ended

\* MOVEM to registers.
LEMMA MovemInSim ==
  ASSUME NEW c, NEW M, NEW W, Sim(c, First, Nothing, M, W), NEW I, Coded(I), I.ea.reg \in Reg
  PROVE  Sim(c, Last, Nothing, MovemIn(I, M), MovemIn(I, W))
<1> DEFINE M1 == Fetch(I, M, "e")
           W1 == Fetch(I, W, "e")
           v1 == M1.r[I.ea.reg] + 2
           w1 == W1.r[I.ea.reg] + 2
           v2 == M1.r[I.ea.reg] + 4
           w2 == W1.r[I.ea.reg] + 4
           M2 == At(M1, M1.r[I.ea.reg])
           W2 == At(W1, W1.r[I.ea.reg])
           M3 == Load(M2, 2, "x")
           W3 == Load(W2, 2, "x")
           M4 == SetReg(M3, "d0", M3.t["x"])
           W4 == SetReg(W3, "d0", W3.t["x"])
           M5 == At(M4, v1)
           W5 == At(W4, w1)
           M6 == Load(M5, 2, "x")
           W6 == Load(W5, 2, "x")
           M7 == SetReg(M6, "a1", M6.t["x"])
           W7 == SetReg(W6, "a1", W6.t["x"])
           M8 == SetReg(M7, I.ea.reg, v2)
           W8 == SetReg(W7, I.ea.reg, w2)
<1>1. MovemIn(I, M) = M8 /\ MovemIn(I, W) = W8
  BY DEF MovemIn
<1>2. "e" \in Temps /\ "x" \in Temps /\ "a1" \in Reg /\ "d0" \in Reg
  BY DEF Temps, Reg
<1> HIDE DEF M1, W1, v1, w1, v2, w2, M2, W2, M3, W3, M4, W4, M5, W5, M6, W6, M7, W7, M8, W8
<1>3. Sim(c, Second, {"e"}, M1, W1) /\ Onward(M, W, M1, W1)
  BY <1>2, Words, FetchSim DEF M1, W1, Coded
<1>4. W1.r[I.ea.reg] \in Int /\ (Same(c, M1, W1) => M1.r[I.ea.reg] = W1.r[I.ea.reg])
  BY <1>3, <1>2, RegAlike
<1>5. w1 \in Int /\ (Same(c, M1, W1) => v1 = w1)
  BY <1>4, <1>2 DEF v1, w1
<1>6. w2 \in Int /\ (Same(c, M1, W1) => v2 = w2)
  BY <1>4, <1>2 DEF v2, w2
<1>7. Sim(c, Second, {"ad", "e"}, M2, W2) /\ Onward(M1, W1, M2, W2)
  BY <1>3, <1>4, <1>2, Words, AtSim DEF M2, W2, Coded
<1>8. Sim(c, Second, {"ad", "e", "x"}, M3, W3) /\ Onward(M2, W2, M3, W3)
  BY <1>7, <1>2, Words, LoadSim DEF M3, W3, Coded
<1>9. W3.t["x"] \in Int /\ (Same(c, M3, W3) => M3.t["x"] = W3.t["x"])
  BY <1>8, <1>2, TempAlike
<1>10. Sim(c, Second, {"ad", "e", "x"}, M4, W4) /\ Onward(M3, W3, M4, W4)
  BY <1>8, <1>9, <1>2, Words, SetRegSim DEF M4, W4
<1>11. w1 \in Int /\ (Same(c, M4, W4) => v1 = w1)
  BY <1>5, <1>7, <1>8, <1>10, OnwardSame
<1>12. Sim(c, Second, {"ad", "e", "x"}, M5, W5) /\ Onward(M4, W4, M5, W5)
  BY <1>10, <1>11, <1>2, Words, AtSim DEF M5, W5, Coded
<1>13. Sim(c, Second, {"ad", "e", "x"}, M6, W6) /\ Onward(M5, W5, M6, W6)
  BY <1>12, <1>2, Words, LoadSim DEF M6, W6, Coded
<1>14. W6.t["x"] \in Int /\ (Same(c, M6, W6) => M6.t["x"] = W6.t["x"])
  BY <1>13, <1>2, TempAlike
<1>15. Sim(c, Second, {"ad", "e", "x"}, M7, W7) /\ Onward(M6, W6, M7, W7)
  BY <1>13, <1>14, <1>2, Words, SetRegSim DEF M7, W7
<1>16. w2 \in Int /\ (Same(c, M7, W7) => v2 = w2)
  BY <1>6, <1>7, <1>8, <1>10, <1>12, <1>13, <1>15, OnwardSame
<1>17. Sim(c, Second, {"ad", "e", "x"}, M8, W8) /\ Onward(M7, W7, M8, W8)
  BY <1>15, <1>16, <1>2, Words, SetRegSim DEF M8, W8
<1> QED
  BY <1>1, <1>17, Words, Ended

\* MOVEM from registers.
LEMMA MovemOutSim ==
  ASSUME NEW c, NEW M, NEW W, Sim(c, First, Nothing, M, W), NEW I, Coded(I), I.ea.reg \in Reg
  PROVE  Sim(c, Last, Nothing, MovemOut(I, M), MovemOut(I, W))
<1> DEFINE M1 == Fetch(I, M, "e")
           W1 == Fetch(I, W, "e")
           v1 == M1.r[I.ea.reg] - 2
           w1 == W1.r[I.ea.reg] - 2
           v2 == M1.r[I.ea.reg] - 4
           w2 == W1.r[I.ea.reg] - 4
           v3 == (IF I.ea.reg = "a1" THEN M1.r["a1"] - 2 ELSE M1.r["a1"])
           w3 == (IF I.ea.reg = "a1" THEN W1.r["a1"] - 2 ELSE W1.r["a1"])
           M2 == At(M1, v1)
           W2 == At(W1, w1)
           M3 == Store(M2, 2, v3)
           W3 == Store(W2, 2, w3)
           M4 == At(M3, v2)
           W4 == At(W3, w2)
           M5 == Store(M4, 2, M3.r["d0"])
           W5 == Store(W4, 2, W3.r["d0"])
           M6 == SetReg(M5, I.ea.reg, v2)
           W6 == SetReg(W5, I.ea.reg, w2)
<1>1. MovemOut(I, M) = M6 /\ MovemOut(I, W) = W6
  BY DEF MovemOut
<1>2. "e" \in Temps /\ "a1" \in Reg /\ "d0" \in Reg
  BY DEF Temps, Reg
<1> HIDE DEF M1, W1, v1, w1, v2, w2, v3, w3, M2, W2, M3, W3, M4, W4, M5, W5, M6, W6
<1>3. Sim(c, Second, {"e"}, M1, W1) /\ Onward(M, W, M1, W1)
  BY <1>2, Words, FetchSim DEF M1, W1, Coded
<1>4. W1.r[I.ea.reg] \in Int /\ (Same(c, M1, W1) => M1.r[I.ea.reg] = W1.r[I.ea.reg])
  BY <1>3, <1>2, RegAlike
<1>5. w1 \in Int /\ (Same(c, M1, W1) => v1 = w1)
  BY <1>4, <1>2 DEF v1, w1
<1>6. w2 \in Int /\ (Same(c, M1, W1) => v2 = w2)
  BY <1>4, <1>2 DEF v2, w2
<1>7. W1.r["a1"] \in Int /\ (Same(c, M1, W1) => M1.r["a1"] = W1.r["a1"])
  BY <1>3, <1>2, RegAlike
<1>8. w3 \in Int /\ (Same(c, M1, W1) => v3 = w3)
  BY <1>7, <1>2 DEF v3, w3
<1>9. Sim(c, Second, {"ad", "e"}, M2, W2) /\ Onward(M1, W1, M2, W2)
  BY <1>3, <1>5, <1>2, Words, AtSim DEF M2, W2, Coded
<1>10. w3 \in Int /\ (Same(c, M2, W2) => v3 = w3)
  BY <1>8, <1>9, OnwardSame
<1>11. Sim(c, Second, {"ad", "e"}, M3, W3) /\ Onward(M2, W2, M3, W3)
  BY <1>9, <1>10, <1>2, Words, StoreSim DEF M3, W3, Coded
<1>12. W3.r["d0"] \in Int /\ (Same(c, M3, W3) => M3.r["d0"] = W3.r["d0"])
  BY <1>11, <1>2, RegAlike
<1>13. w2 \in Int /\ (Same(c, M3, W3) => v2 = w2)
  BY <1>6, <1>9, <1>11, OnwardSame
<1>14. Sim(c, Second, {"ad", "e"}, M4, W4) /\ Onward(M3, W3, M4, W4)
  BY <1>11, <1>13, <1>2, Words, AtSim DEF M4, W4, Coded
<1>15. W3.r["d0"] \in Int /\ (Same(c, M4, W4) => M3.r["d0"] = W3.r["d0"])
  BY <1>12, <1>14, OnwardSame
<1>16. Sim(c, Second, {"ad", "e"}, M5, W5) /\ Onward(M4, W4, M5, W5)
  BY <1>14, <1>15, <1>2, Words, StoreSim DEF M5, W5, Coded
<1>17. w2 \in Int /\ (Same(c, M5, W5) => v2 = w2)
  BY <1>6, <1>9, <1>11, <1>14, <1>16, OnwardSame
<1>18. Sim(c, Second, {"ad", "e"}, M6, W6) /\ Onward(M5, W5, M6, W6)
  BY <1>16, <1>17, <1>2, Words, SetRegSim DEF M6, W6
<1> QED
  BY <1>1, <1>18, Words, Ended

\* MOVEP.
LEMMA MovepOutSim ==
  ASSUME NEW c, NEW M, NEW W, Sim(c, First, Nothing, M, W), NEW I, Coded(I)
  PROVE  Sim(c, Last, Nothing, MovepOut(I, M), MovepOut(I, W))
<1> DEFINE M1 == Fetch(I, M, "e")
           W1 == Fetch(I, W, "e")
           v1 == M1.r["a0"] + M1.t["e"]
           w1 == W1.r["a0"] + W1.t["e"]
           M2 == At(M1, v1)
           W2 == At(W1, w1)
           v2 == Hi(M1.r["d0"])
           w2 == Hi(W1.r["d0"])
           M3 == Store(M2, 1, v2)
           W3 == Store(W2, 1, w2)
           v3 == Lo(M3.r["d0"])
           w3 == Lo(W3.r["d0"])
           v4 == M3.r["a0"] + M3.t["e"] + 2
           w4 == W3.r["a0"] + W3.t["e"] + 2
           M4 == At(M3, v4)
           W4 == At(W3, w4)
           M5 == Store(M4, 1, v3)
           W5 == Store(W4, 1, w3)
<1>1. MovepOut(I, M) = M5 /\ MovepOut(I, W) = W5
  BY DEF MovepOut
<1>2. "e" \in Temps /\ "a0" \in Reg /\ "d0" \in Reg
  BY DEF Temps, Reg
<1> HIDE DEF M1, W1, v1, w1, M2, W2, v2, w2, M3, W3, v3, w3, v4, w4, M4, W4, M5, W5
<1>3. Sim(c, Second, {"e"}, M1, W1) /\ Onward(M, W, M1, W1)
  BY <1>2, Words, FetchSim DEF M1, W1, Coded
<1>4. W1.r["a0"] \in Int /\ (Same(c, M1, W1) => M1.r["a0"] = W1.r["a0"])
  BY <1>3, <1>2, RegAlike
<1>5. W1.t["e"] \in Int /\ (Same(c, M1, W1) => M1.t["e"] = W1.t["e"])
  BY <1>3, <1>2, TempAlike
<1>6. w1 \in Int /\ (Same(c, M1, W1) => v1 = w1)
  BY <1>4, <1>5, <1>2 DEF v1, w1
<1>7. Sim(c, Second, {"ad", "e"}, M2, W2) /\ Onward(M1, W1, M2, W2)
  BY <1>3, <1>6, <1>2, Words, AtSim DEF M2, W2, Coded
<1>8. W1.r["d0"] \in Int /\ (Same(c, M1, W1) => M1.r["d0"] = W1.r["d0"])
  BY <1>3, <1>2, RegAlike
<1>9. w2 \in Int /\ (Same(c, M1, W1) => v2 = w2)
  BY <1>8, <1>2, ModInt DEF v2, w2
<1>10. w2 \in Int /\ (Same(c, M2, W2) => v2 = w2)
  BY <1>9, <1>7, OnwardSame
<1>11. Sim(c, Second, {"ad", "e"}, M3, W3) /\ Onward(M2, W2, M3, W3)
  BY <1>7, <1>10, <1>2, Words, StoreSim DEF M3, W3, Coded
<1>12. W3.r["d0"] \in Int /\ (Same(c, M3, W3) => M3.r["d0"] = W3.r["d0"])
  BY <1>11, <1>2, RegAlike
<1>13. w3 \in Int /\ (Same(c, M3, W3) => v3 = w3)
  BY <1>12, <1>2, ModInt DEF v3, w3
<1>14. W3.r["a0"] \in Int /\ (Same(c, M3, W3) => M3.r["a0"] = W3.r["a0"])
  BY <1>11, <1>2, RegAlike
<1>15. W3.t["e"] \in Int /\ (Same(c, M3, W3) => M3.t["e"] = W3.t["e"])
  BY <1>11, <1>2, TempAlike
<1>16. w4 \in Int /\ (Same(c, M3, W3) => v4 = w4)
  BY <1>14, <1>15, <1>2 DEF v4, w4
<1>17. Sim(c, Second, {"ad", "e"}, M4, W4) /\ Onward(M3, W3, M4, W4)
  BY <1>11, <1>16, <1>2, Words, AtSim DEF M4, W4, Coded
<1>18. w3 \in Int /\ (Same(c, M4, W4) => v3 = w3)
  BY <1>13, <1>17, OnwardSame
<1>19. Sim(c, Second, {"ad", "e"}, M5, W5) /\ Onward(M4, W4, M5, W5)
  BY <1>17, <1>18, <1>2, Words, StoreSim DEF M5, W5, Coded
<1> QED
  BY <1>1, <1>19, Words, Ended

\* The bit fields.
LEMMA BitFieldSim ==
  ASSUME NEW c, NEW M, NEW W, Sim(c, First, Nothing, M, W), NEW I, Coded(I),
         I.ea \in Ea(InMemory), I.alu \in {"chg", "clr", "ins"}
  PROVE  Sim(c, Last, Nothing, BitField(I, M), BitField(I, W))
<1> DEFINE M1 == Fetch(I, M, "y")
           W1 == Fetch(I, W, "y")
           M2 == Resolve(I, M1, I.ea, 1)
           W2 == Resolve(I, W1, I.ea, 1)
           M3 == Load(M2, 2, "x")
           W3 == Load(W2, 2, "x")
           v1 == (CASE I.alu = "chg" -> 15 - M3.t["x"] [] I.alu = "clr" -> 0
                    [] I.alu = "ins" -> M3.r["d0"])
           w1 == (CASE I.alu = "chg" -> 15 - W3.t["x"] [] I.alu = "clr" -> 0
                    [] I.alu = "ins" -> W3.r["d0"])
           v2 == (IF I.alu = "ins" THEN v1 ELSE M3.t["x"])
           w2 == (IF I.alu = "ins" THEN w1 ELSE W3.t["x"])
           M4 == Store(M3, 2, v1)
           W4 == Store(W3, 2, w1)
           M5 == Flags(M4, v2)
           W5 == Flags(W4, w2)
<1>1. BitField(I, M) = M5 /\ BitField(I, W) = W5
  BY DEF BitField
<1>2. "x" \in Temps /\ "y" \in Temps /\ "d0" \in Reg
  BY DEF Temps, Reg
<1> HIDE DEF M1, W1, M2, W2, M3, W3, v1, w1, v2, w2, M4, W4, M5, W5
<1>3. Sim(c, Second, {"y"}, M1, W1) /\ Onward(M, W, M1, W1)
  BY <1>2, Words, FetchSim DEF M1, W1, Coded
<1>4. Sim(c, Third, {"ad", "y"}, M2, W2) /\ Onward(M1, W1, M2, W2)
  BY <1>3, <1>2, Words, ResolveSim DEF M2, W2, Coded
<1>5. Sim(c, Third, {"ad", "x", "y"}, M3, W3) /\ Onward(M2, W2, M3, W3)
  BY <1>4, <1>2, Words, LoadSim DEF M3, W3, Coded
<1>6. W3.t["x"] \in Int /\ (Same(c, M3, W3) => M3.t["x"] = W3.t["x"])
  BY <1>5, <1>2, TempAlike
<1>7. W3.r["d0"] \in Int /\ (Same(c, M3, W3) => M3.r["d0"] = W3.r["d0"])
  BY <1>5, <1>2, RegAlike
<1>8. w1 \in Int /\ (Same(c, M3, W3) => v1 = w1)
  BY <1>6, <1>7, <1>2 DEF v1, w1
<1>9. w2 \in Int /\ (Same(c, M3, W3) => v2 = w2)
  BY <1>8, <1>6, <1>2 DEF v2, w2
<1>10. Sim(c, Third, {"ad", "x", "y"}, M4, W4) /\ Onward(M3, W3, M4, W4)
  BY <1>5, <1>8, <1>2, Words, StoreSim DEF M4, W4, Coded
<1>11. w2 \in Int /\ (Same(c, M4, W4) => v2 = w2)
  BY <1>9, <1>10, OnwardSame
<1>12. Sim(c, Third, {"ad", "x", "y"}, M5, W5) /\ Onward(M4, W4, M5, W5)
  BY <1>10, <1>11, <1>2, Words, FlagsSim DEF M5, W5
<1> QED
  BY <1>1, <1>12, Words, Ended

\* LINK.
LEMMA LinkSim ==
  ASSUME NEW c, NEW M, NEW W, Sim(c, First, Nothing, M, W), NEW I, Coded(I)
  PROVE  Sim(c, Last, Nothing, Link(I, M), Link(I, W))
<1> DEFINE M1 == Push(M, M.r["a0"])
           W1 == Push(W, W.r["a0"])
           M2 == SetReg(M1, "a0", M1.r[Sp])
           W2 == SetReg(W1, "a0", W1.r[Sp])
           M3 == Fetch(I, M2, "e")
           W3 == Fetch(I, W2, "e")
           v1 == M3.r[Sp] + M3.t["e"]
           w1 == W3.r[Sp] + W3.t["e"]
           M4 == SetReg(M3, Sp, v1)
           W4 == SetReg(W3, Sp, w1)
<1>1. Link(I, M) = M4 /\ Link(I, W) = W4
  BY DEF Link, Sp
<1>2. "e" \in Temps /\ "a0" \in Reg
  BY DEF Temps, Reg
<1> HIDE DEF M1, W1, M2, W2, M3, W3, v1, w1, M4, W4
<1>3. W.r["a0"] \in Int /\ (Same(c, M, W) => M.r["a0"] = W.r["a0"])
  BY <1>2, RegAlike
<1>4. Sim(c, First, Nothing, M1, W1) /\ Onward(M, W, M1, W1)
  BY <1>3, <1>2, Words, NothingMore, PushSim DEF M1, W1
<1>5. W1.r[Sp] \in Int /\ (Same(c, M1, W1) => M1.r[Sp] = W1.r[Sp])
  BY <1>4, <1>2, RegAlike DEF Sp, Reg
<1>6. Sim(c, First, Nothing, M2, W2) /\ Onward(M1, W1, M2, W2)
  BY <1>4, <1>5, <1>2, Words, NothingMore, SetRegSim DEF M2, W2
<1>7. Sim(c, Second, {"e"}, M3, W3) /\ Onward(M2, W2, M3, W3)
  BY <1>6, <1>2, Words, FetchSim DEF M3, W3, Coded
<1>8. W3.r[Sp] \in Int /\ (Same(c, M3, W3) => M3.r[Sp] = W3.r[Sp])
  BY <1>7, <1>2, RegAlike DEF Sp, Reg
<1>9. W3.t["e"] \in Int /\ (Same(c, M3, W3) => M3.t["e"] = W3.t["e"])
  BY <1>7, <1>2, TempAlike
<1>10. w1 \in Int /\ (Same(c, M3, W3) => v1 = w1)
  BY <1>8, <1>9, <1>2 DEF v1, w1
<1>11. Sim(c, Second, {"e"}, M4, W4) /\ Onward(M3, W3, M4, W4)
  BY <1>7, <1>10, <1>2, Words, SetRegSim DEF M4, W4, Sp, Reg
<1> QED
  BY <1>1, <1>11, Words, Ended

\* UNLK.
LEMMA UnlkSim ==
  ASSUME NEW c, NEW M, NEW W, Sim(c, First, Nothing, M, W), NEW I, Coded(I)
  PROVE  Sim(c, Last, Nothing, Unlk(I, M), Unlk(I, W))
<1> DEFINE M1 == SetReg(M, Sp, M.r["a0"])
           W1 == SetReg(W, Sp, W.r["a0"])
           M2 == Pop(M1, "x")
           W2 == Pop(W1, "x")
           M3 == SetReg(M2, "a0", M2.t["x"])
           W3 == SetReg(W2, "a0", W2.t["x"])
<1>1. Unlk(I, M) = M3 /\ Unlk(I, W) = W3
  BY DEF Unlk, Sp
<1>2. "x" \in Temps /\ "a0" \in Reg
  BY DEF Temps, Reg
<1> HIDE DEF M1, W1, M2, W2, M3, W3
<1>3. W.r["a0"] \in Int /\ (Same(c, M, W) => M.r["a0"] = W.r["a0"])
  BY <1>2, RegAlike
<1>4. Sim(c, First, Nothing, M1, W1) /\ Onward(M, W, M1, W1)
  BY <1>3, <1>2, Words, NothingMore, SetRegSim DEF M1, W1, Sp, Reg
<1>5. Sim(c, First, {"x"}, M2, W2) /\ Onward(M1, W1, M2, W2)
  BY <1>4, <1>2, Words, PopSim DEF M2, W2
<1>6. W2.t["x"] \in Int /\ (Same(c, M2, W2) => M2.t["x"] = W2.t["x"])
  BY <1>5, <1>2, TempAlike
<1>7. Sim(c, First, {"x"}, M3, W3) /\ Onward(M2, W2, M3, W3)
  BY <1>5, <1>6, <1>2, Words, SetRegSim DEF M3, W3
<1> QED
  BY <1>1, <1>7, Words, Ended

\* PEA.
LEMMA PeaSim ==
  ASSUME NEW c, NEW M, NEW W, Sim(c, First, Nothing, M, W), NEW I, Coded(I),
         I.ea \in Ea(InMemory)
  PROVE  Sim(c, Last, Nothing, Pea(I, M), Pea(I, W))
<1> DEFINE M1 == Resolve(I, M, I.ea, 2)
           W1 == Resolve(I, W, I.ea, 2)
           M2 == Push(M1, M1.ad)
           W2 == Push(W1, W1.ad)
<1>1. Pea(I, M) = M2 /\ Pea(I, W) = W2
  BY DEF Pea
<1>2. 1 \in Int
  BY DEF Temps, Reg
<1> HIDE DEF M1, W1, M2, W2
<1>3. Sim(c, Second, {"ad"}, M1, W1) /\ Onward(M, W, M1, W1)
  BY <1>2, Words, ResolveSim DEF M1, W1, Coded
<1>4. W1.ad \in Int /\ (Same(c, M1, W1) => M1.ad = W1.ad)
  BY <1>3, AddressAlike
<1>5. Sim(c, Second, {"ad"}, M2, W2) /\ Onward(M1, W1, M2, W2)
  BY <1>3, <1>4, <1>2, Words, PushSim DEF M2, W2
<1> QED
  BY <1>1, <1>5, Words, Ended

\* JSR.
LEMMA JsrSim ==
  ASSUME NEW c, NEW M, NEW W, Sim(c, First, Nothing, M, W), NEW I, Coded(I),
         I.ea \in Ea(InMemory), "shadow" \in c.loose
  PROVE  Sim(c, Last, Nothing, Jsr(I, M), Jsr(I, W))
<1> DEFINE M1 == Resolve(I, M, I.ea, 2)
           W1 == Resolve(I, W, I.ea, 2)
           M2 == Push(M1, M1.pc)
           W2 == Push(W1, W1.pc)
           M3 == [M2 EXCEPT !.kept["shadow"] = M2.kept["shadow"] + 1]
           W3 == [W2 EXCEPT !.kept["shadow"] = W2.kept["shadow"] + 1]
           M4 == [M3 EXCEPT !.pc = M1.ad]
           W4 == [W3 EXCEPT !.pc = W1.ad]
<1>1. Jsr(I, M) = M4 /\ Jsr(I, W) = W4
  BY DEF Jsr
<1>2. 1 \in Int
  BY DEF Temps, Reg
<1> HIDE DEF M1, W1, M2, W2, M3, W3, M4, W4
<1>3. Sim(c, Second, {"ad"}, M1, W1) /\ Onward(M, W, M1, W1)
  BY <1>2, Words, ResolveSim DEF M1, W1, Coded
<1>4. W1.ad \in Int /\ (Same(c, M1, W1) => M1.ad = W1.ad)
  BY <1>3, AddressAlike
<1>5. W1.pc \in Int /\ (Same(c, M1, W1) => M1.pc = W1.pc)
  BY <1>3, PartsAlike
<1>6. Sim(c, Second, {"ad"}, M2, W2) /\ Onward(M1, W1, M2, W2)
  BY <1>3, <1>5, <1>2, Words, PushSim DEF M2, W2
<1>7. "shadow" \in Keys /\ {"ad"} \subseteq {"ad"} \cup {"shadow"} /\ "shadow" \notin {"ad"}
      /\ "shadow" \notin Coprocessor
  BY DEF Keys, Coprocessor, Nothing
<1>8. Sim(c, Second, {"ad"}, M3, W3) /\ Onward(M2, W2, M3, W3)
  BY <1>6, <1>7, <1>2, Words, KeepSim DEF M3, W3
<1>9. W1.ad \in Int /\ (Same(c, M3, W3) => M1.ad = W1.ad)
  BY <1>4, <1>6, <1>8, OnwardSame
<1>10. Sim(c, Last, {"ad"}, M4, W4) /\ Onward(M3, W3, M4, W4)
  BY <1>8, <1>9, <1>2, Words, JumpSim DEF M4, W4
<1> QED
  BY <1>1, <1>10, Words, Ended

\* RTS.
LEMMA RtsSim ==
  ASSUME NEW c, NEW M, NEW W, Sim(c, First, Nothing, M, W), NEW I, Coded(I),
         "shadow" \in c.loose
  PROVE  Sim(c, Last, Nothing, Rts(I, M), Rts(I, W))
<1> DEFINE M1 == Pop(M, "x")
           W1 == Pop(W, "x")
           M2 == [M1 EXCEPT !.kept["shadow"] = M1.kept["shadow"] - 1]
           W2 == [W1 EXCEPT !.kept["shadow"] = W1.kept["shadow"] - 1]
           M3 == [M2 EXCEPT !.pc = M1.t["x"]]
           W3 == [W2 EXCEPT !.pc = W1.t["x"]]
<1>1. Rts(I, M) = M3 /\ Rts(I, W) = W3
  BY DEF Rts
<1>2. "x" \in Temps
  BY DEF Temps, Reg
<1> HIDE DEF M1, W1, M2, W2, M3, W3
<1>3. Sim(c, First, {"x"}, M1, W1) /\ Onward(M, W, M1, W1)
  BY <1>2, Words, PopSim DEF M1, W1
<1>4. W1.t["x"] \in Int /\ (Same(c, M1, W1) => M1.t["x"] = W1.t["x"])
  BY <1>3, <1>2, TempAlike
<1>5. "shadow" \in Keys /\ {"x"} \subseteq {"x"} \cup {"shadow"} /\ "shadow" \notin {"x"}
      /\ "shadow" \notin Coprocessor
  BY DEF Keys, Coprocessor, Nothing
<1>6. Sim(c, First, {"x"}, M2, W2) /\ Onward(M1, W1, M2, W2)
  BY <1>3, <1>5, <1>2, Words, KeepSim DEF M2, W2
<1>7. W1.t["x"] \in Int /\ (Same(c, M2, W2) => M1.t["x"] = W1.t["x"])
  BY <1>4, <1>6, OnwardSame
<1>8. Sim(c, Last, {"x"}, M3, W3) /\ Onward(M2, W2, M3, W3)
  BY <1>6, <1>7, <1>2, Words, JumpSim DEF M3, W3
<1> QED
  BY <1>1, <1>8, Words, Ended

\* STOP.
LEMMA StopSim ==
  ASSUME NEW c, NEW M, NEW W, Sim(c, First, Nothing, M, W), NEW I, Coded(I),
         "stopped" \in c.loose
  PROVE  Sim(c, Last, Nothing, Stop(I, M), Stop(I, W))
<1> DEFINE M1 == Fetch(I, M, "x")
           W1 == Fetch(I, W, "x")
           M2 == [M1 EXCEPT !.kept["stopped"] = TRUE]
           W2 == [W1 EXCEPT !.kept["stopped"] = TRUE]
           M3 == Flags(M2, M1.t["x"])
           W3 == Flags(W2, W1.t["x"])
<1>1. Stop(I, M) = M3 /\ Stop(I, W) = W3
  BY DEF Stop
<1>2. "x" \in Temps
  BY DEF Temps, Reg
<1> HIDE DEF M1, W1, M2, W2, M3, W3
<1>3. Sim(c, Second, {"x"}, M1, W1) /\ Onward(M, W, M1, W1)
  BY <1>2, Words, FetchSim DEF M1, W1, Coded
<1>4. W1.t["x"] \in Int /\ (Same(c, M1, W1) => M1.t["x"] = W1.t["x"])
  BY <1>3, <1>2, TempAlike
<1>5. "stopped" \in Keys /\ {"x"} \subseteq {"x"} \cup {"stopped"} /\ "stopped" \notin {"x"}
      /\ "stopped" \notin Coprocessor
  BY DEF Keys, Coprocessor, Nothing
<1>6. Sim(c, Second, {"x"}, M2, W2) /\ Onward(M1, W1, M2, W2)
  BY <1>3, <1>5, <1>2, Words, KeepSim DEF M2, W2
<1>7. W1.t["x"] \in Int /\ (Same(c, M2, W2) => M1.t["x"] = W1.t["x"])
  BY <1>4, <1>6, OnwardSame
<1>8. Sim(c, Second, {"x"}, M3, W3) /\ Onward(M2, W2, M3, W3)
  BY <1>6, <1>7, <1>2, Words, FlagsSim DEF M3, W3
<1> QED
  BY <1>1, <1>8, Words, Ended

\* A coprocessor register from memory.
LEMMA ReloadSim ==
  ASSUME NEW c, NEW M, NEW W, Sim(c, First, Nothing, M, W), NEW I, Coded(I), I.ea \in Operand,
         I.alu \in Coprocessor, I.alu \in c.loose
  PROVE  Sim(c, Last, {I.alu}, Reload(I, M), Reload(I, W))
<1> DEFINE M1 == Fetch(I, M, "y")
           W1 == Fetch(I, W, "y")
           M2 == ReadValue(I, M1, I.ea, I.n, "x")
           W2 == ReadValue(I, W1, I.ea, I.n, "x")
           M3 == [M2 EXCEPT !.kept[I.alu] = M2.t["x"]]
           W3 == [W2 EXCEPT !.kept[I.alu] = W2.t["x"]]
<1>1. Reload(I, M) = M3 /\ Reload(I, W) = W3
  BY DEF Reload
<1>2. "x" \in Temps /\ "y" \in Temps
  BY DEF Temps, Reg
<1> HIDE DEF M1, W1, M2, W2, M3, W3
<1>3. Sim(c, Second, {"y"}, M1, W1) /\ Onward(M, W, M1, W1)
  BY <1>2, Words, FetchSim DEF M1, W1, Coded
<1>4. Sim(c, Third, {"x", "y"}, M2, W2) /\ Onward(M1, W1, M2, W2)
  BY <1>3, <1>2, Words, ReadValueSim DEF M2, W2, Coded
<1>5. W2.t["x"] \in Int /\ (Same(c, M2, W2) => M2.t["x"] = W2.t["x"])
  BY <1>4, <1>2, TempAlike
<1>6. I.alu \in Keys /\ {I.alu} \subseteq {"x", "y"} \cup {I.alu}
  BY DEF Keys, Coprocessor, Nothing
<1>7. Sim(c, Third, {I.alu}, M3, W3) /\ Onward(M2, W2, M3, W3)
  BY <1>4, <1>5, <1>6, <1>2, Words, KeepSim DEF M3, W3
<1> QED
  BY <1>1, <1>7, Words, EndedWith

\* A coprocessor register to memory.
LEMMA UnloadSim ==
  ASSUME NEW c, NEW M, NEW W, Sim(c, First, Nothing, M, W), NEW I, Coded(I), I.ea \in Anywhere,
         I.alu \in Coprocessor, I.alu \notin c.loose
  PROVE  Sim(c, Last, Nothing, Unload(I, M), Unload(I, W))
<1> DEFINE M1 == Fetch(I, M, "y")
           W1 == Fetch(I, W, "y")
           M2 == WriteValue(I, M1, I.ea, I.n, M1.kept[I.alu])
           W2 == WriteValue(I, W1, I.ea, I.n, W1.kept[I.alu])
<1>1. Unload(I, M) = M2 /\ Unload(I, W) = W2
  BY DEF Unload
<1>2. "y" \in Temps
  BY DEF Temps, Reg
<1> HIDE DEF M1, W1, M2, W2
<1>3. Sim(c, Second, {"y"}, M1, W1) /\ Onward(M, W, M1, W1)
  BY <1>2, Words, FetchSim DEF M1, W1, Coded
<1>4. W1.kept[I.alu] \in Int /\ (Same(c, M1, W1) => M1.kept[I.alu] = W1.kept[I.alu])
  BY <1>3, KeptAlike
<1>5. Sim(c, Third, {"y"}, M2, W2) /\ Onward(M1, W1, M2, W2)
  <2> DEFINE v == M1.kept[I.alu]
             w == W1.kept[I.alu]
  <2>1. I.words \in [1..4 -> Nat] /\ I.ea \in Ea(InMemory \cup {"reg"}) /\ I.n \in {1, 2}
    BY DEF Coded, Anywhere
  <2>2. w \in Int /\ (Same(c, M1, W1) => v = w)
    BY <1>4
  <2> HIDE DEF v, w
  <2>3. /\ Sim(c, Third, {"y"}, WriteValue(I, M1, I.ea, I.n, v), WriteValue(I, W1, I.ea, I.n, w))
        /\ Onward(M1, W1, WriteValue(I, M1, I.ea, I.n, v), WriteValue(I, W1, I.ea, I.n, w))
    <3>1. Second \in 0..2 /\ Third \in 0..5 /\ Second < Third /\ {"y"} \subseteq {"y"}
      BY Words
    <3> QED
      BY <1>3, <2>1, <2>2, <3>1, WriteValueSim
  <2> QED
    BY <2>3 DEF M2, W2, v, w
<1> QED
  BY <1>1, <1>5, Words, Ended

\* MOVEC.
LEMMA MovecSim ==
  ASSUME NEW c, NEW M, NEW W, Sim(c, First, Nothing, M, W), NEW I, Coded(I),
         {"sfc", "dfc"} \subseteq c.loose
  PROVE  Sim(c, Last, Nothing, Movec(I, M), Movec(I, W))
<1> DEFINE M1 == Fetch(I, M, "e")
           W1 == Fetch(I, W, "e")
           M2 == [M1 EXCEPT !.kept["sfc"] = M.r["d0"]]
           W2 == [W1 EXCEPT !.kept["sfc"] = W.r["d0"]]
           M3 == [M1 EXCEPT !.kept["dfc"] = M.r["d1"]]
           W3 == [W1 EXCEPT !.kept["dfc"] = W.r["d1"]]
<1>1. /\ Movec(I, M) = IF M1.t["e"] = 0 THEN M2 ELSE M3
      /\ Movec(I, W) = IF W1.t["e"] = 0 THEN W2 ELSE W3
  BY DEF Movec
<1>2. "e" \in Temps /\ "d0" \in Reg /\ "d1" \in Reg
  BY DEF Temps, Reg
<1> HIDE DEF M1, W1, M2, W2, M3, W3
<1>3. W.r["d0"] \in Int /\ (Same(c, M, W) => M.r["d0"] = W.r["d0"])
  BY <1>2, RegAlike
<1>4. W.r["d1"] \in Int /\ (Same(c, M, W) => M.r["d1"] = W.r["d1"])
  BY <1>2, RegAlike
<1>5. Sim(c, Second, {"e"}, M1, W1) /\ Onward(M, W, M1, W1)
  BY <1>2, Words, FetchSim DEF M1, W1, Coded
<1>6. W1.t["e"] \in Int /\ (Same(c, M1, W1) => M1.t["e"] = W1.t["e"])
  BY <1>5, <1>2, TempAlike
<1>7. W.r["d0"] \in Int /\ (Same(c, M1, W1) => M.r["d0"] = W.r["d0"])
  BY <1>3, <1>5, OnwardSame
<1>8. "sfc" \in Keys /\ {"e"} \subseteq {"e"} \cup {"sfc"} /\ "sfc" \notin {"e"}
  BY DEF Keys, Coprocessor, Nothing
<1>9. Sim(c, Second, {"e"}, M2, W2) /\ Onward(M1, W1, M2, W2)
  BY <1>5, <1>7, <1>8, <1>2, Words, KeepSim DEF M2, W2
<1>10. W.r["d1"] \in Int /\ (Same(c, M1, W1) => M.r["d1"] = W.r["d1"])
  BY <1>4, <1>5, OnwardSame
<1>11. "dfc" \in Keys /\ {"e"} \subseteq {"e"} \cup {"dfc"} /\ "dfc" \notin {"e"}
  BY DEF Keys, Coprocessor, Nothing
<1>12. Sim(c, Second, {"e"}, M3, W3) /\ Onward(M1, W1, M3, W3)
  BY <1>5, <1>10, <1>11, <1>2, Words, KeepSim DEF M3, W3
<1>13. Sim(c, Last, Nothing, M2, W2)
  BY <1>9, Words, Ended
<1>14. Sim(c, Last, Nothing, M3, W3)
  BY <1>12, Words, Ended
<1>15. Chosen(c, M1, W1, M2, W2, M3, W3, Movec(I, M), Movec(I, W))
  BY <1>1, <1>6 DEF Chosen
<1>16. Sim(c, Last, Nothing, Movec(I, M), Movec(I, W))
  BY <1>5, <1>13, <1>14, <1>9, <1>12, <1>15, Either
<1> QED
  BY <1>16

\* MOVES.
LEMMA MovesSim ==
  ASSUME NEW c, NEW M, NEW W, Sim(c, First, Nothing, M, W), NEW I, Coded(I), I.ea \in Operand
  PROVE  Sim(c, Last, Nothing, Moves(I, M), Moves(I, W))
<1> DEFINE M1 == Fetch(I, M, "y")
           W1 == Fetch(I, W, "y")
           M2 == ReadValue(I, M1, I.ea, I.n, "x")
           W2 == ReadValue(I, W1, I.ea, I.n, "x")
           M3 == SetReg(M2, "d0", M2.t["x"])
           W3 == SetReg(W2, "d0", W2.t["x"])
<1>1. /\ Moves(I, M) = IF Ok(M2) THEN M3 ELSE M2
      /\ Moves(I, W) = IF Ok(W2) THEN W3 ELSE W2
  BY DEF Moves
<1>2. "x" \in Temps /\ "y" \in Temps /\ "d0" \in Reg
  BY DEF Temps, Reg
<1> HIDE DEF M1, W1, M2, W2, M3, W3
<1>3. Sim(c, Second, {"y"}, M1, W1) /\ Onward(M, W, M1, W1)
  BY <1>2, Words, FetchSim DEF M1, W1, Coded
<1>4. Sim(c, Third, {"x", "y"}, M2, W2) /\ Onward(M1, W1, M2, W2)
  BY <1>3, <1>2, Words, ReadValueSim DEF M2, W2, Coded
<1>5. W2.t["x"] \in Int /\ (Same(c, M2, W2) => M2.t["x"] = W2.t["x"])
  BY <1>4, <1>2, TempAlike
<1>6. Sim(c, Third, {"x", "y"}, M3, W3) /\ Onward(M2, W2, M3, W3)
  BY <1>4, <1>5, <1>2, Words, SetRegSim DEF M3, W3
<1>7. Same(c, M2, W2) => Ok(M2)
  BY DEF Same
<1>8. Ok(W2)
  BY <1>4, SoundShape
<1>9. Sim(c, Last, Nothing, M3, W3)
  BY <1>6, Words, Ended
<1>10. Sim(c, Last, Nothing, M2, W2)
  BY <1>4, Words, Ended
<1>11. Onward(M2, W2, M2, W2)
  BY OnwardStay
<1>12. Chosen(c, M2, W2, M3, W3, M2, W2, Moves(I, M), Moves(I, W))
  BY <1>1, <1>7, <1>8 DEF Chosen
<1>13. Sim(c, Last, Nothing, Moves(I, M), Moves(I, W))
  BY <1>4, <1>9, <1>10, <1>6, <1>11, <1>12, Either
<1> QED
  BY <1>13

\* FRESTORE.
LEMMA FrestoreSim ==
  ASSUME NEW c, NEW M, NEW W, Sim(c, First, Nothing, M, W), NEW I, Coded(I), I.ea \in Operand,
         "fp" \in c.loose
  PROVE  Sim(c, Last, Nothing, Frestore(I, M), Frestore(I, W))
<1> DEFINE M1 == ReadValue(I, M, I.ea, I.n, "x")
           W1 == ReadValue(I, W, I.ea, I.n, "x")
           M2 == [M1 EXCEPT !.kept["fp"] = 0]
           W2 == [W1 EXCEPT !.kept["fp"] = 0]
<1>1. /\ Frestore(I, M) = IF M1.t["x"] = 0 THEN M2 ELSE M1
      /\ Frestore(I, W) = IF W1.t["x"] = 0 THEN W2 ELSE W1
  BY DEF Frestore
<1>2. "x" \in Temps
  BY DEF Temps, Reg
<1> HIDE DEF M1, W1, M2, W2
<1>3. Sim(c, Second, {"x"}, M1, W1) /\ Onward(M, W, M1, W1)
  BY <1>2, Words, ReadValueSim DEF M1, W1, Coded
<1>4. W1.t["x"] \in Int /\ (Same(c, M1, W1) => M1.t["x"] = W1.t["x"])
  BY <1>3, <1>2, TempAlike
<1>5. "fp" \in Keys /\ {"x"} \subseteq {"x"} \cup {"fp"} /\ "fp" \notin {"x"}
  BY DEF Keys, Coprocessor, Nothing
<1>6. Sim(c, Second, {"x"}, M2, W2) /\ Onward(M1, W1, M2, W2)
  BY <1>3, <1>5, <1>2, Words, KeepSim DEF M2, W2
<1>7. Sim(c, Last, Nothing, M2, W2)
  BY <1>6, Words, Ended
<1>8. Sim(c, Last, Nothing, M1, W1)
  BY <1>3, Words, Ended
<1>9. Onward(M1, W1, M1, W1)
  BY OnwardStay
<1>10. Chosen(c, M1, W1, M2, W2, M1, W1, Frestore(I, M), Frestore(I, W))
  BY <1>1, <1>4 DEF Chosen
<1>11. Sim(c, Last, Nothing, Frestore(I, M), Frestore(I, W))
  BY <1>3, <1>7, <1>8, <1>6, <1>9, <1>10, Either
<1> QED
  BY <1>11

\* Arithmetic of the FPU.
LEMMA FpArithmeticSim ==
  ASSUME NEW c, NEW M, NEW W, Sim(c, First, Nothing, M, W), NEW I, Coded(I), I.ea \in Operand,
         "fp" \in c.loose
  PROVE  Sim(c, Last, Nothing, FpArithmetic(I, M), FpArithmetic(I, W))
<1> DEFINE M1 == Fetch(I, M, "y")
           W1 == Fetch(I, W, "y")
           M2 == ReadValue(I, M1, I.ea, I.n, "x")
           W2 == ReadValue(I, W1, I.ea, I.n, "x")
           M3 == [M2 EXCEPT !.kept["fp"] = Result("mul", M2.kept["fp"], M2.t["x"])]
           W3 == [W2 EXCEPT !.kept["fp"] = Result("mul", W2.kept["fp"], W2.t["x"])]
<1>1. /\ FpArithmetic(I, M) = IF ~Ok(M1) THEN M1 ELSE M3
      /\ FpArithmetic(I, W) = IF ~Ok(W1) THEN W1 ELSE W3
  BY DEF FpArithmetic
<1>2. "x" \in Temps /\ "y" \in Temps
  BY DEF Temps, Reg
<1> HIDE DEF M1, W1, M2, W2, M3, W3
<1>3. Sim(c, Second, {"y"}, M1, W1) /\ Onward(M, W, M1, W1)
  BY <1>2, Words, FetchSim DEF M1, W1, Coded
<1>4. Sim(c, Third, {"x", "y"}, M2, W2) /\ Onward(M1, W1, M2, W2)
  BY <1>3, <1>2, Words, ReadValueSim DEF M2, W2, Coded
<1>5. W2.t["x"] \in Int /\ (Same(c, M2, W2) => M2.t["x"] = W2.t["x"])
  BY <1>4, <1>2, TempAlike
<1>6. W2.kept["fp"] \in Int
  BY <1>4, KeptAlike DEF Coprocessor
<1>7. Result("mul", W2.kept["fp"], W2.t["x"]) \in Int
  BY <1>6, <1>5, ResultInt DEF Alu
<1>8. "fp" \in Keys /\ {"x", "y"} \subseteq {"x", "y"} \cup {"fp"} /\ "fp" \notin {"x", "y"}
  BY DEF Keys, Coprocessor, Nothing
<1>9. Sim(c, Third, {"x", "y"}, M3, W3) /\ Onward(M2, W2, M3, W3)
  BY <1>4, <1>7, <1>8, <1>2, Words, KeepSim DEF M3, W3
<1>10. Same(c, M1, W1) => Ok(M1)
  BY DEF Same
<1>11. Ok(W1)
  BY <1>3, SoundShape
<1>12. Sim(c, Last, Nothing, M1, W1)
  BY <1>3, Words, Ended
<1>13. Sim(c, Last, Nothing, M3, W3)
  BY <1>9, Words, Ended
<1>14. Onward(M1, W1, M1, W1)
  BY OnwardStay
<1>15. Onward(M1, W1, M3, W3)
  BY <1>4, <1>9, OnwardOn
<1>16. Chosen(c, M1, W1, M1, W1, M3, W3, FpArithmetic(I, M), FpArithmetic(I, W))
  BY <1>1, <1>10, <1>11 DEF Chosen
<1>17. Sim(c, Last, Nothing, FpArithmetic(I, M), FpArithmetic(I, W))
  BY <1>3, <1>12, <1>13, <1>14, <1>15, <1>16, Either
<1> QED
  BY <1>17

\* CAS: the runs branch on what they compare.
LEMMA CasSim ==
  ASSUME NEW c, NEW M, NEW W, Sim(c, First, Nothing, M, W), NEW I, Coded(I),
         I.ea \in Ea(InMemory)
  PROVE  Sim(c, Last, Nothing, Cas(I, M), Cas(I, W))
<1> DEFINE M1 == Fetch(I, M, "y")
           W1 == Fetch(I, W, "y")
           M2 == ReadValue(I, M1, I.ea, I.n, "x")
           W2 == ReadValue(I, W1, I.ea, I.n, "x")
           v1 == M2.t["x"] - M2.r["d0"]
           w1 == W2.t["x"] - W2.r["d0"]
           M3 == Flags(M2, v1)
           W3 == Flags(W2, w1)
           M4 == Store(M3, I.n, M3.r["d1"])
           W4 == Store(W3, I.n, W3.r["d1"])
           M5 == SetReg(M3, "d0", M3.t["x"])
           W5 == SetReg(W3, "d0", W3.t["x"])
<1>1. /\ Cas(I, M) = IF M3.ccr = 0 THEN M4 ELSE M5
      /\ Cas(I, W) = IF W3.ccr = 0 THEN W4 ELSE W5
  BY DEF Cas
<1>2. "x" \in Temps /\ "y" \in Temps /\ "d0" \in Reg /\ "d1" \in Reg
  BY DEF Temps, Reg
<1> HIDE DEF M1, W1, M2, W2, v1, w1, M3, W3, M4, W4, M5, W5
<1>3. Sim(c, Second, {"y"}, M1, W1) /\ Onward(M, W, M1, W1)
  BY <1>2, Words, FetchSim DEF M1, W1, Coded
<1>4. I.ea \in Operand /\ I.ea.mode \in InMemory
  BY DEF Operand, Ea
<1>5. Sim(c, Third, {"ad", "x", "y"}, M2, W2) /\ Onward(M1, W1, M2, W2)
  BY <1>3, <1>4, <1>2, Words, ReadValueSim DEF M2, W2, Coded
<1>6. W2.t["x"] \in Int /\ (Same(c, M2, W2) => M2.t["x"] = W2.t["x"])
  BY <1>5, <1>2, TempAlike
<1>7. W2.r["d0"] \in Int /\ (Same(c, M2, W2) => M2.r["d0"] = W2.r["d0"])
  BY <1>5, <1>2, RegAlike
<1>8. w1 \in Int /\ (Same(c, M2, W2) => v1 = w1)
  BY <1>6, <1>7, <1>2 DEF v1, w1
<1>9. Sim(c, Third, {"ad", "x", "y"}, M3, W3) /\ Onward(M2, W2, M3, W3)
  BY <1>5, <1>8, <1>2, Words, FlagsSim DEF M3, W3
<1>10. W3.ccr \in Int /\ (Same(c, M3, W3) => M3.ccr = W3.ccr)
  BY <1>9, PartsAlike
<1>11. W3.r["d1"] \in Int /\ (Same(c, M3, W3) => M3.r["d1"] = W3.r["d1"])
  BY <1>9, <1>2, RegAlike
<1>12. Sim(c, Third, {"ad", "x", "y"}, M4, W4) /\ Onward(M3, W3, M4, W4)
  BY <1>9, <1>11, <1>2, Words, StoreSim DEF M4, W4, Coded
<1>13. W3.t["x"] \in Int /\ (Same(c, M3, W3) => M3.t["x"] = W3.t["x"])
  BY <1>9, <1>2, TempAlike
<1>14. Sim(c, Third, {"ad", "x", "y"}, M5, W5) /\ Onward(M3, W3, M5, W5)
  BY <1>9, <1>13, <1>2, Words, SetRegSim DEF M5, W5
<1>15. Sim(c, Last, Nothing, M4, W4)
  BY <1>12, Words, Ended
<1>16. Sim(c, Last, Nothing, M5, W5)
  BY <1>14, Words, Ended
<1>17. Chosen(c, M3, W3, M4, W4, M5, W5, Cas(I, M), Cas(I, W))
  BY <1>1, <1>10 DEF Chosen
<1>18. Sim(c, Last, Nothing, Cas(I, M), Cas(I, W))
  BY <1>9, <1>15, <1>16, <1>12, <1>14, <1>17, Either
<1> QED
  BY <1>18

\* CAS2: likewise.
LEMMA Cas2Sim ==
  ASSUME NEW c, NEW M, NEW W, Sim(c, First, Nothing, M, W), NEW I, Coded(I)
  PROVE  Sim(c, Last, Nothing, Cas2(I, M), Cas2(I, W))
<1> DEFINE M1  == Fetch(I, M, "y")
           W1  == Fetch(I, W, "y")
           M2  == Fetch(I, M1, "y")
           W2  == Fetch(I, W1, "y")
           M3  == At(M2, M2.r["a0"])
           W3  == At(W2, W2.r["a0"])
           M4  == Load(M3, I.n, "x")
           W4  == Load(W3, I.n, "x")
           M5  == At(M4, M4.r["a1"])
           W5  == At(W4, W4.r["a1"])
           M6  == Load(M5, I.n, "y")
           W6  == Load(W5, I.n, "y")
           M7  == At(M6, M6.r["a0"])
           W7  == At(W6, W6.r["a0"])
           M8  == Store(M7, I.n, M6.r["d1"])
           W8  == Store(W7, I.n, W6.r["d1"])
           M9  == At(M8, M6.r["a1"])
           W9  == At(W8, W6.r["a1"])
           M10 == Store(M9, I.n, M6.r["d1"])
           W10 == Store(W9, I.n, W6.r["d1"])
           v1  == 0
           w1  == 0
           M11 == Flags(M10, v1)
           W11 == Flags(W10, w1)
           M12 == SetReg(M6, "d0", M6.t["y"])
           W12 == SetReg(W6, "d0", W6.t["y"])
           v2  == 1
           w2  == 1
           M13 == Flags(M12, v2)
           W13 == Flags(W12, w2)
<1>1. /\ Cas2(I, M) = IF M6.t["x"] = M6.r["d0"] /\ M6.t["y"] = M6.r["d0"] THEN M11 ELSE M13
      /\ Cas2(I, W) = IF W6.t["x"] = W6.r["d0"] /\ W6.t["y"] = W6.r["d0"] THEN W11 ELSE W13
  BY DEF Cas2
<1>2. "x" \in Temps /\ "y" \in Temps /\ "a0" \in Reg /\ "a1" \in Reg /\ "d0" \in Reg
      /\ "d1" \in Reg
  BY DEF Temps, Reg
<1> HIDE DEF M1, W1, M2, W2, M3, W3, M4, W4, M5, W5, M6, W6, M7, W7, M8, W8, M9, W9, M10, W10,
    v1, w1, M11, W11, M12, W12, v2, w2, M13, W13
<1>3. Sim(c, Second, {"y"}, M1, W1) /\ Onward(M, W, M1, W1)
  BY <1>2, Words, FetchSim DEF M1, W1, Coded
<1>4. Sim(c, Third, {"y"}, M2, W2) /\ Onward(M1, W1, M2, W2)
  BY <1>3, <1>2, Words, FetchSim DEF M2, W2, Coded
<1>5. W2.r["a0"] \in Int /\ (Same(c, M2, W2) => M2.r["a0"] = W2.r["a0"])
  BY <1>4, <1>2, RegAlike
<1>6. Sim(c, Third, {"ad", "y"}, M3, W3) /\ Onward(M2, W2, M3, W3)
  BY <1>4, <1>5, <1>2, Words, AtSim DEF M3, W3, Coded
<1>7. Sim(c, Third, {"ad", "x", "y"}, M4, W4) /\ Onward(M3, W3, M4, W4)
  BY <1>6, <1>2, Words, LoadSim DEF M4, W4, Coded
<1>8. W4.r["a1"] \in Int /\ (Same(c, M4, W4) => M4.r["a1"] = W4.r["a1"])
  BY <1>7, <1>2, RegAlike
<1>9. Sim(c, Third, {"ad", "x", "y"}, M5, W5) /\ Onward(M4, W4, M5, W5)
  BY <1>7, <1>8, <1>2, Words, AtSim DEF M5, W5, Coded
<1>10. Sim(c, Third, {"ad", "x", "y"}, M6, W6) /\ Onward(M5, W5, M6, W6)
  BY <1>9, <1>2, Words, LoadSim DEF M6, W6, Coded
<1>11. W6.t["x"] \in Int /\ (Same(c, M6, W6) => M6.t["x"] = W6.t["x"])
  BY <1>10, <1>2, TempAlike
<1>12. W6.t["y"] \in Int /\ (Same(c, M6, W6) => M6.t["y"] = W6.t["y"])
  BY <1>10, <1>2, TempAlike
<1>13. W6.r["d0"] \in Int /\ (Same(c, M6, W6) => M6.r["d0"] = W6.r["d0"])
  BY <1>10, <1>2, RegAlike
<1>14. W6.r["d1"] \in Int /\ (Same(c, M6, W6) => M6.r["d1"] = W6.r["d1"])
  BY <1>10, <1>2, RegAlike
<1>15. W6.r["a1"] \in Int /\ (Same(c, M6, W6) => M6.r["a1"] = W6.r["a1"])
  BY <1>10, <1>2, RegAlike
<1>16. W6.r["a0"] \in Int /\ (Same(c, M6, W6) => M6.r["a0"] = W6.r["a0"])
  BY <1>10, <1>2, RegAlike
<1>17. Sim(c, Third, {"ad", "x", "y"}, M7, W7) /\ Onward(M6, W6, M7, W7)
  BY <1>10, <1>16, <1>2, Words, AtSim DEF M7, W7, Coded
<1>18. W6.r["d1"] \in Int /\ (Same(c, M7, W7) => M6.r["d1"] = W6.r["d1"])
  BY <1>14, <1>17, OnwardSame
<1>19. Sim(c, Third, {"ad", "x", "y"}, M8, W8) /\ Onward(M7, W7, M8, W8)
  BY <1>17, <1>18, <1>2, Words, StoreSim DEF M8, W8, Coded
<1>20. W6.r["a1"] \in Int /\ (Same(c, M8, W8) => M6.r["a1"] = W6.r["a1"])
  BY <1>15, <1>17, <1>19, OnwardSame
<1>21. Sim(c, Third, {"ad", "x", "y"}, M9, W9) /\ Onward(M8, W8, M9, W9)
  BY <1>19, <1>20, <1>2, Words, AtSim DEF M9, W9, Coded
<1>22. W6.r["d1"] \in Int /\ (Same(c, M9, W9) => M6.r["d1"] = W6.r["d1"])
  BY <1>14, <1>17, <1>19, <1>21, OnwardSame
<1>23. Sim(c, Third, {"ad", "x", "y"}, M10, W10) /\ Onward(M9, W9, M10, W10)
  BY <1>21, <1>22, <1>2, Words, StoreSim DEF M10, W10, Coded
<1>24. w1 \in Int /\ (Same(c, M, W) => v1 = w1)
  BY <1>2 DEF v1, w1
<1>25. w1 \in Int /\ (Same(c, M10, W10) => v1 = w1)
  BY <1>24, <1>3, <1>4, <1>6, <1>7, <1>9, <1>10, <1>17, <1>19, <1>21, <1>23, OnwardSame
<1>26. Sim(c, Third, {"ad", "x", "y"}, M11, W11) /\ Onward(M10, W10, M11, W11)
  BY <1>23, <1>25, <1>2, Words, FlagsSim DEF M11, W11
<1>27. Sim(c, Third, {"ad", "x", "y"}, M12, W12) /\ Onward(M6, W6, M12, W12)
  BY <1>10, <1>12, <1>2, Words, SetRegSim DEF M12, W12
<1>28. w2 \in Int /\ (Same(c, M, W) => v2 = w2)
  BY <1>2 DEF v2, w2
<1>29. w2 \in Int /\ (Same(c, M12, W12) => v2 = w2)
  BY <1>28, <1>3, <1>4, <1>6, <1>7, <1>9, <1>10, <1>27, OnwardSame
<1>30. Sim(c, Third, {"ad", "x", "y"}, M13, W13) /\ Onward(M12, W12, M13, W13)
  BY <1>27, <1>29, <1>2, Words, FlagsSim DEF M13, W13
<1>31. Sim(c, Last, Nothing, M11, W11)
  BY <1>26, Words, Ended
<1>32. Sim(c, Last, Nothing, M13, W13)
  BY <1>30, Words, Ended
<1>33. Onward(M6, W6, M8, W8)
  BY <1>17, <1>19, OnwardOn
<1>34. Onward(M6, W6, M9, W9)
  BY <1>33, <1>21, OnwardOn
<1>35. Onward(M6, W6, M10, W10)
  BY <1>34, <1>23, OnwardOn
<1>36. Onward(M6, W6, M11, W11)
  BY <1>35, <1>26, OnwardOn
<1>37. Onward(M6, W6, M13, W13)
  BY <1>27, <1>30, OnwardOn
<1>38. Chosen(c, M6, W6, M11, W11, M13, W13, Cas2(I, M), Cas2(I, W))
  BY <1>1, <1>11, <1>12, <1>13 DEF Chosen
<1>39. Sim(c, Last, Nothing, Cas2(I, M), Cas2(I, W))
  BY <1>10, <1>31, <1>32, <1>36, <1>37, <1>38, Either
<1> QED
  BY <1>39

-----------------------------------------------------------------------------
(* The dispatch, and the whole instruction.                                *)

\* What of M.kept the instruction may leave changed after a fault, and what of
\* that the restarted instruction writes again.
Rewritten(I) == IF I.op = "reload" THEN {I.alu} ELSE Nothing

Loose(I) == {"shadow"} \cup Rewritten(I) \cup (IF I.op \in Unsaved THEN Keys ELSE {})

\* The parts of an instruction.
LEMMA EncodedParts ==
  ASSUME NEW ops, NEW alus, NEW eas, NEW eas2, NEW I \in Encoded(ops, alus, eas, eas2)
  PROVE  Coded(I) /\ I.op \in ops /\ I.alu \in alus /\ I.ea \in eas /\ I.ea2 \in eas2
  BY DEF Encoded, Coded

\* Each operation has operands it can be coded with.
LEMMA InstrCoded ==
  ASSUME NEW I \in Instr
  PROVE  /\ Coded(I)
         /\ \/ I.op = "move" /\ I.ea \in Operand /\ I.ea2 \in Anywhere
            \/ I.op \in {"modify", "modifyImm"} /\ I.alu \in Alu /\ I.ea \in Anywhere
            \/ I.op \in {"toReg", "toRegs", "extended"} /\ I.alu \in Alu /\ I.ea \in Operand
            \/ I.op \in {"writeOnly", "movemIn", "movemOut"} /\ I.ea \in Anywhere
            \/ I.op = "bitField" /\ I.alu \in {"chg", "clr", "ins"} /\ I.ea \in Ea(InMemory)
            \/ I.op \in {"cas", "pea", "jsr"} /\ I.ea \in Ea(InMemory)
            \/ I.op = "reload" /\ I.alu \in Coprocessor /\ I.ea \in Operand
            \/ I.op = "unload" /\ I.alu \in Coprocessor /\ I.ea \in Anywhere
            \/ /\ I.op \in {"cmpm", "unpk", "movep", "cas2", "link", "unlk", "rts", "movec", "stop",
                            "moves", "fpArith", "frestore"}
               /\ I.ea \in Operand
<1> DEFINE any == Alu \cup {"none"}
<1>1. \/ I \in Encoded({"move"}, any, Operand, Anywhere)
      \/ I \in Encoded({"modify", "modifyImm"}, Alu, Anywhere, Operand)
      \/ I \in Encoded({"toReg", "toRegs", "extended"}, Alu, Operand, Operand)
      \/ I \in Encoded({"writeOnly", "movemIn", "movemOut"}, any, Anywhere, Operand)
      \/ I \in Encoded({"bitField"}, {"chg", "clr", "ins"}, Ea(InMemory), Operand)
      \/ I \in Encoded({"cas", "pea", "jsr"}, any, Ea(InMemory), Operand)
      \/ I \in Encoded({"reload"}, Coprocessor, Operand, Operand)
      \/ I \in Encoded({"unload"}, Coprocessor, Anywhere, Operand)
      \/ I \in Encoded({"cmpm", "unpk", "movep", "cas2", "link", "unlk", "rts", "movec", "stop",
                        "moves", "fpArith", "frestore"}, any, Operand, Operand)
  BY InstrAssumption, Zenon DEF Anywhere
<1> HIDE DEF any
<1>2. CASE I \in Encoded({"move"}, any, Operand, Anywhere)
  BY <1>2, EncodedParts
<1>3. CASE I \in Encoded({"modify", "modifyImm"}, Alu, Anywhere, Operand)
  BY <1>3, EncodedParts
<1>4. CASE I \in Encoded({"toReg", "toRegs", "extended"}, Alu, Operand, Operand)
  BY <1>4, EncodedParts
<1>5. CASE I \in Encoded({"writeOnly", "movemIn", "movemOut"}, any, Anywhere, Operand)
  BY <1>5, EncodedParts
<1>6. CASE I \in Encoded({"bitField"}, {"chg", "clr", "ins"}, Ea(InMemory), Operand)
  BY <1>6, EncodedParts
<1>7. CASE I \in Encoded({"cas", "pea", "jsr"}, any, Ea(InMemory), Operand)
  BY <1>7, EncodedParts
<1>8. CASE I \in Encoded({"reload"}, Coprocessor, Operand, Operand)
  BY <1>8, EncodedParts
<1>9. CASE I \in Encoded({"unload"}, Coprocessor, Anywhere, Operand)
  BY <1>9, EncodedParts
<1>10. CASE I \in Encoded({"cmpm", "unpk", "movep", "cas2", "link", "unlk", "rts", "movec", "stop",
                           "moves", "fpArith", "frestore"}, any, Operand, Operand)
  BY <1>10, EncodedParts
<1> QED
  BY <1>1, <1>2, <1>3, <1>4, <1>5, <1>6, <1>7, <1>8, <1>9, <1>10

\* What a destination can be, a source can be.
LEMMA OperandParts ==
  /\ Anywhere \subseteq Operand /\ Ea(InMemory) \subseteq Anywhere
  /\ \A ea \in Anywhere : ea.reg \in Reg
  BY DEF Anywhere, Operand, Ea

\* Every handler keeps the two runs together.
LEMMA HandlerSim ==
  ASSUME NEW c, NEW M, NEW W, NEW I \in Instr, c.loose = Loose(I), Sim(c, First, Nothing, M, W)
  PROVE  Sim(c, Last, Rewritten(I), Handler(I, M), Handler(I, W))
<1> DEFINE N == Handler(I, M)
           V == Handler(I, W)
<1>1. Coded(I)
  BY InstrCoded
<1>2. "shadow" \in c.loose /\ (I.op \in Unsaved => Keys \subseteq c.loose)
  BY DEF Loose
<1> DEFINE op == I.op
<1>3. CASE op = "move"
  <2>1. I.ea \in Operand /\ I.ea2 \in Anywhere
    BY <1>3, InstrCoded
  <2>2. Sim(c, Last, Nothing, Move(I, M), Move(I, W))
    BY <1>1, <2>1, MoveSim
  <2> QED
    BY <1>3, <2>2 DEF Handler, Rewritten
<1>4. CASE op = "writeOnly"
  <2>1. I.ea \in Anywhere
    BY <1>4, <1>2, InstrCoded, OperandParts
  <2>2. Sim(c, Last, Nothing, WriteOnly(I, M), WriteOnly(I, W))
    BY <1>1, <2>1, WriteOnlySim
  <2> QED
    BY <1>4, <2>2 DEF Handler, Rewritten
<1>5. CASE op = "modify"
  <2>1. I.ea \in Operand /\ I.ea \in Anywhere /\ I.alu \in Alu
    BY <1>5, <1>2, InstrCoded, OperandParts
  <2>2. Sim(c, Last, Nothing, Modify(I, M), Modify(I, W))
    BY <1>1, <2>1, ModifySim
  <2> QED
    BY <1>5, <2>2 DEF Handler, Rewritten
<1>6. CASE op = "modifyImm"
  <2>1. I.ea \in Operand /\ I.ea \in Anywhere /\ I.alu \in Alu
    BY <1>6, <1>2, InstrCoded, OperandParts
  <2>2. Sim(c, Last, Nothing, ModifyImmediate(I, M), ModifyImmediate(I, W))
    BY <1>1, <2>1, ModifyImmediateSim
  <2> QED
    BY <1>6, <2>2 DEF Handler, Rewritten
<1>7. CASE op = "toReg"
  <2>1. I.ea \in Operand /\ I.alu \in Alu
    BY <1>7, <1>2, InstrCoded, OperandParts
  <2>2. Sim(c, Last, Nothing, ToRegister(I, M), ToRegister(I, W))
    BY <1>1, <2>1, ToRegisterSim
  <2> QED
    BY <1>7, <2>2 DEF Handler, Rewritten
<1>8. CASE op = "toRegs"
  <2>1. I.ea \in Operand /\ I.alu \in Alu
    BY <1>8, <1>2, InstrCoded, OperandParts
  <2>2. Sim(c, Last, Nothing, ToRegisters(I, M), ToRegisters(I, W))
    BY <1>1, <2>1, ToRegistersSim
  <2> QED
    BY <1>8, <2>2 DEF Handler, Rewritten
<1>9. CASE op = "extended"
  <2>1. I.alu \in Alu
    BY <1>9, <1>2, InstrCoded, OperandParts
  <2>2. Sim(c, Last, Nothing, Extended(I, M), Extended(I, W))
    BY <1>1, <2>1, ExtendedSim
  <2> QED
    BY <1>9, <2>2 DEF Handler, Rewritten
<1>10. CASE op = "cmpm"
  <2>1. Sim(c, Last, Nothing, Cmpm(I, M), Cmpm(I, W))
    BY <1>1, CmpmSim
  <2> QED
    BY <1>10, <2>1 DEF Handler, Rewritten
<1>11. CASE op = "unpk"
  <2>1. Sim(c, Last, Nothing, Unpk(I, M), Unpk(I, W))
    BY <1>1, UnpkSim
  <2> QED
    BY <1>11, <2>1 DEF Handler, Rewritten
<1>12. CASE op = "movemIn"
  <2>1. I.ea.reg \in Reg
    BY <1>12, <1>2, InstrCoded, OperandParts
  <2>2. Sim(c, Last, Nothing, MovemIn(I, M), MovemIn(I, W))
    BY <1>1, <2>1, MovemInSim
  <2> QED
    BY <1>12, <2>2 DEF Handler, Rewritten
<1>13. CASE op = "movemOut"
  <2>1. I.ea.reg \in Reg
    BY <1>13, <1>2, InstrCoded, OperandParts
  <2>2. Sim(c, Last, Nothing, MovemOut(I, M), MovemOut(I, W))
    BY <1>1, <2>1, MovemOutSim
  <2> QED
    BY <1>13, <2>2 DEF Handler, Rewritten
<1>14. CASE op = "movep"
  <2>1. Sim(c, Last, Nothing, MovepOut(I, M), MovepOut(I, W))
    BY <1>1, MovepOutSim
  <2> QED
    BY <1>14, <2>1 DEF Handler, Rewritten
<1>15. CASE op = "cas"
  <2>1. I.ea \in Ea(InMemory)
    BY <1>15, <1>2, InstrCoded, OperandParts
  <2>2. Sim(c, Last, Nothing, Cas(I, M), Cas(I, W))
    BY <1>1, <2>1, CasSim
  <2> QED
    BY <1>15, <2>2 DEF Handler, Rewritten
<1>16. CASE op = "cas2"
  <2>1. Sim(c, Last, Nothing, Cas2(I, M), Cas2(I, W))
    BY <1>1, Cas2Sim
  <2> QED
    BY <1>16, <2>1 DEF Handler, Rewritten
<1>17. CASE op = "bitField"
  <2>1. I.ea \in Ea(InMemory) /\ I.alu \in {"chg", "clr", "ins"}
    BY <1>17, <1>2, InstrCoded, OperandParts
  <2>2. Sim(c, Last, Nothing, BitField(I, M), BitField(I, W))
    BY <1>1, <2>1, BitFieldSim
  <2> QED
    BY <1>17, <2>2 DEF Handler, Rewritten
<1>18. CASE op = "pea"
  <2>1. I.ea \in Ea(InMemory)
    BY <1>18, <1>2, InstrCoded, OperandParts
  <2>2. Sim(c, Last, Nothing, Pea(I, M), Pea(I, W))
    BY <1>1, <2>1, PeaSim
  <2> QED
    BY <1>18, <2>2 DEF Handler, Rewritten
<1>19. CASE op = "link"
  <2>1. Sim(c, Last, Nothing, Link(I, M), Link(I, W))
    BY <1>1, LinkSim
  <2> QED
    BY <1>19, <2>1 DEF Handler, Rewritten
<1>20. CASE op = "unlk"
  <2>1. Sim(c, Last, Nothing, Unlk(I, M), Unlk(I, W))
    BY <1>1, UnlkSim
  <2> QED
    BY <1>20, <2>1 DEF Handler, Rewritten
<1>21. CASE op = "jsr"
  <2>1. I.ea \in Ea(InMemory) /\ "shadow" \in c.loose
    BY <1>21, <1>2, InstrCoded, OperandParts
  <2>2. Sim(c, Last, Nothing, Jsr(I, M), Jsr(I, W))
    BY <1>1, <2>1, JsrSim
  <2> QED
    BY <1>21, <2>2 DEF Handler, Rewritten
<1>22. CASE op = "rts"
  <2>1. "shadow" \in c.loose
    BY <1>22, <1>2, InstrCoded, OperandParts
  <2>2. Sim(c, Last, Nothing, Rts(I, M), Rts(I, W))
    BY <1>1, <2>1, RtsSim
  <2> QED
    BY <1>22, <2>2 DEF Handler, Rewritten
<1>23. CASE op = "movec"
  <2>1. {"sfc", "dfc"} \subseteq c.loose
    BY <1>23, <1>2, InstrCoded, OperandParts DEF Unsaved, Keys
  <2>2. Sim(c, Last, Nothing, Movec(I, M), Movec(I, W))
    BY <1>1, <2>1, MovecSim
  <2> QED
    BY <1>23, <2>2 DEF Handler, Rewritten
<1>24. CASE op = "stop"
  <2>1. "stopped" \in c.loose
    BY <1>24, <1>2, InstrCoded, OperandParts DEF Unsaved, Keys
  <2>2. Sim(c, Last, Nothing, Stop(I, M), Stop(I, W))
    BY <1>1, <2>1, StopSim
  <2> QED
    BY <1>24, <2>2 DEF Handler, Rewritten
<1>25. CASE op = "moves"
  <2>1. I.ea \in Operand
    BY <1>25, <1>2, InstrCoded, OperandParts
  <2>2. Sim(c, Last, Nothing, Moves(I, M), Moves(I, W))
    BY <1>1, <2>1, MovesSim
  <2> QED
    BY <1>25, <2>2 DEF Handler, Rewritten
<1>26. CASE op = "reload"
  <2>1. I.ea \in Operand /\ I.alu \in Coprocessor /\ I.alu \in c.loose
    BY <1>26, <1>2, InstrCoded, OperandParts DEF Loose, Rewritten
  <2>2. Sim(c, Last, {I.alu}, Reload(I, M), Reload(I, W))
    BY <1>1, <2>1, ReloadSim
  <2> QED
    BY <1>26, <2>2 DEF Handler, Rewritten
<1>27. CASE op = "unload"
  <2>1. I.ea \in Anywhere /\ I.alu \in Coprocessor /\ I.alu \notin c.loose
    BY <1>27, <1>2, InstrCoded, OperandParts DEF Loose, Rewritten, Unsaved, Coprocessor, Nothing
  <2>2. Sim(c, Last, Nothing, Unload(I, M), Unload(I, W))
    BY <1>1, <2>1, UnloadSim
  <2> QED
    BY <1>27, <2>2 DEF Handler, Rewritten
<1>28. CASE op = "fpArith"
  <2>1. I.ea \in Operand /\ "fp" \in c.loose
    BY <1>28, <1>2, InstrCoded, OperandParts DEF Unsaved, Keys
  <2>2. Sim(c, Last, Nothing, FpArithmetic(I, M), FpArithmetic(I, W))
    BY <1>1, <2>1, FpArithmeticSim
  <2> QED
    BY <1>28, <2>2 DEF Handler, Rewritten
<1>29. CASE op = "frestore"
  <2>1. I.ea \in Operand /\ "fp" \in c.loose
    BY <1>29, <1>2, InstrCoded, OperandParts DEF Unsaved, Keys
  <2>2. Sim(c, Last, Nothing, Frestore(I, M), Frestore(I, W))
    BY <1>1, <2>1, FrestoreSim
  <2> QED
    BY <1>29, <2>2 DEF Handler, Rewritten
<1>30. op \in {"move", "writeOnly", "modify", "modifyImm", "toReg", "toRegs", "extended", "cmpm",
               "unpk", "movemIn", "movemOut", "movep", "cas", "cas2", "bitField", "pea", "link",
               "unlk", "jsr", "rts", "movec", "stop", "moves", "reload", "unload", "fpArith",
               "frestore"}
  BY InstrCoded
<1> HIDE DEF op
<1> QED
  BY <1>3, <1>4, <1>5, <1>6, <1>7, <1>8, <1>9, <1>10, <1>11, <1>12, <1>13, <1>14, <1>15, <1>16,
     <1>17, <1>18, <1>19, <1>20, <1>21, <1>22, <1>23, <1>24, <1>25, <1>26, <1>27, <1>28, <1>29, <1>30

\* A word fetched writes nothing.
LEMMA FetchWrites ==
  ASSUME NEW M, Shape(M), NEW I, NEW t
  PROVE  Fetch(I, M, t).writes = M.writes
<1> DEFINE p == IF M.pc >= I.split THEN 5 ELSE 4
           M1 == Touch(M, p, FALSE)
<1>1. Shape(M1) /\ M1.writes = M.writes
  <2> HIDE DEF p
  <2>1. TouchOnly(M, M1)
    BY TouchKeeps
  <2> HIDE DEF M1
  <2> QED
    BY <2>1 DEF TouchOnly
<1>2. Fetch(I, M, t) = IF Ok(M1) THEN [M1 EXCEPT !.t[t] = I.words[M.pc + 1], !.pc = @ + 1]
                       ELSE [M1 EXCEPT !.t[t] = 0]
  BY DEF Fetch
<1> HIDE DEF M1
<1> QED
  BY <1>1, <1>2 DEF Shape, Fields

\* The whole instruction, its first word included.
LEMMA ExecutedSim ==
  ASSUME NEW c, NEW M, NEW W, NEW I \in Instr, c.loose = Loose(I), M.writes = {},
         NEW k, k = 0, Sim(c, k, Nothing, M, W)
  PROVE  Sim(c, Last, Rewritten(I), Executed(I, M), Executed(I, W))
<1> DEFINE M1 == Fetch(I, M, "op")
           W1 == Fetch(I, W, "op")
           N == Executed(I, M)
           V == Executed(I, W)
           v == M1.r["d0"]
           w == W1.r["d0"]
<1>1. Coded(I) /\ "op" \in Temps /\ k \in 0..3 /\ k < First /\ "d0" \in Reg
  BY InstrCoded DEF First, Temps, Reg
<1>2. M1.writes = {}
  BY FetchWrites, SoundShape
<1>3. /\ N = IF Ok(M1) THEN Handler(I, M1) ELSE Flags(M1, v)
      /\ V = IF Ok(W1) THEN Handler(I, W1) ELSE Flags(W1, w)
  BY DEF Executed
<1> HIDE DEF M1, W1, N, V, v, w
<1>4. Sim(c, First, {"op"}, M1, W1)
  BY <1>1, Words, FetchSim DEF Coded, M1, W1
<1>5. Sim(c, First, Nothing, M1, W1)
  BY <1>4, Fewer DEF Nothing
<1>6. Sim(c, Last, Rewritten(I), Handler(I, M1), Handler(I, W1))
  BY <1>5, HandlerSim
<1>7. V = Handler(I, W1)
  BY <1>3, <1>5, SoundShape
<1>8. CASE Ok(M1)
  BY <1>3, <1>6, <1>7, <1>8 DEF N, V
<1>9. CASE ~Ok(M1)
  <2>1. N = Flags(M1, v)
    BY <1>3, <1>9
  <2>2. w \in Int /\ (Same(c, M1, W1) => v = w)
    BY <1>1, <1>5, RegAlike DEF v, w
  <2>3. Sim(c, First, Nothing, N, Flags(W1, w)) /\ Onward(M1, W1, N, Flags(W1, w))
    BY <1>5, <2>1, <2>2, FlagsSim
  <2>4. Sound(c, N) /\ ~Ok(N) /\ N.writes = {}
    BY <1>2, <1>9, <2>3 DEF Sim, Onward
  <2>5. Whole(Last, V)
    BY <1>6, <1>7 DEF Sim
  <2>6. Sim(c, Last, Rewritten(I), N, V)
    BY <2>4, <2>5 DEF Sim, Same
  <2> QED
    BY <2>6 DEF N, V
<1> QED
  BY <1>8, <1>9

-----------------------------------------------------------------------------
(* The loop.                                                               *)

\* The instruction's run with nothing missing.
Fresh == [start EXCEPT !.map = Everything]

Whither == Executed(i, Fresh)

\* Its operand may be half changed, but by no more than it writes and never reads.
Repeatable == halfDone => Whither.reads \cap Whither.writes = {}

\* The instruction as it was first found: of a coded form, with nothing done.
StartOK ==
    /\ i \in Instr /\ Shape(start) /\ Whole(0, Fresh)
    /\ start.reads = {} /\ start.writes = {}
    /\ saved = Registers(start)

\* What earlier attempts left in memory and of what no fault takes back.
LeftOK ==
    /\ ~halfDone => m.mem = start.mem
    /\ Repeatable => \A a \in Cell : m.mem[a] # start.mem[a] => a \in Whither.writes

\* The instruction has set only what it is there to set.
KeptOK == \A x \in Keys : x \notin Loose(i) => m.kept[x] = start.kept[x]

\* Before an attempt the machine is, but for that, as it was first found.
BeforeOK ==
    phase \in {"exec", "fault"} =>
        /\ m.fault = None /\ m.reads = {} /\ m.writes = {}
        /\ Registers(m) = Registers(start)
        /\ LeftOK

\* The fault is of an access the page does not allow.
FaultOK == phase = "check" /\ ~Ok(m) => ~Mapped(m, m.fault.page, m.fault.write) /\ LeftOK

\* An attempt without a fault has done what the run with nothing missing does.
DoneOK ==
    phase \in {"check", "done"} /\ Ok(m) /\ Repeatable =>
        /\ Registers(m) = Registers(Whither) /\ m.mem = Whither.mem
        /\ i.op \notin Unsaved => Kept(m) = Kept(Whither)

\* The inductive invariant.
IInv ==
    /\ phase \in {"exec", "check", "fault", "done"}
    /\ StartOK /\ Shape(m) /\ KeptOK /\ BeforeOK /\ FaultOK /\ DoneOK
    /\ phase = "done" => Ok(m) /\ ideal = Whither
    /\ TrapTellsCause

\* The first attempt.
LEMMA InitEstablishes == Init => IInv
<1> SUFFICES ASSUME Init PROVE IInv
  OBVIOUS
<1>1. PICK d \in Datas, a \in Bases, b \in Bases, map \in [Page -> {"none", "ro"}] :
        m = [Machine EXCEPT !.r = [d0 |-> d, d1 |-> 9, a0 |-> a, a1 |-> b, sp |-> b], !.map = map]
  BY DEF Init
<1> DEFINE regs == [d0 |-> d, d1 |-> 9, a0 |-> a, a1 |-> b, sp |-> b]
<1>2. d \in Nat /\ a \in Nat /\ b \in Nat
  BY ValueAssumption
<1>3. regs \in [Reg -> Int]
  BY <1>2 DEF Reg
<1> HIDE DEF regs
<1>4. /\ DOMAIN Machine = Fields /\ DOMAIN Machine.t = Temps
      /\ Machine.mem = [x \in Cell |-> (x % 3) + 1] /\ DOMAIN Machine.kept = Keys
      /\ Machine.fault = None /\ Machine.ad = 0 /\ Machine.ccr = 0 /\ Machine.pc = 0
      /\ Machine.reads = {} /\ Machine.writes = {}
  BY DEF Machine, Fields, Temps, Keys
<1>5. \A f \in Temps : Machine.t[f] = 0
  BY DEF Machine, Temps
<1>6. Machine.kept = [x \in Keys |-> Machine.kept[x]]
  BY DEF Machine, Keys
<1>7. \A x \in Coprocessor : Machine.kept[x] \in Int
  BY DEF Machine, Coprocessor
<1>8. \A x \in Cell : Machine.mem[x] \in Int
  BY <1>4 DEF Cell, Cells
<1>9. /\ DOMAIN m = Fields /\ m.r = regs /\ m.map = map /\ m.ccr = 0 /\ m.pc = 0 /\ m.ad = 0
      /\ m.mem = Machine.mem /\ m.kept = Machine.kept /\ m.t = Machine.t
      /\ m.fault = None /\ m.reads = {} /\ m.writes = {}
  BY <1>1, <1>4 DEF Fields, regs
<1>10. Shape(m)
  BY <1>4, <1>6, <1>9 DEF Shape
<1>11. start = m /\ saved = Registers(m) /\ phase = "exec" /\ ~halfDone /\ i \in Instr
  BY DEF Init
<1>12. /\ Shape(Fresh) /\ Fresh.r = regs /\ Fresh.map = Everything /\ Fresh.ccr = 0 /\ Fresh.pc = 0
       /\ Fresh.ad = 0 /\ Fresh.mem = Machine.mem /\ Fresh.kept = Machine.kept
       /\ Fresh.t = Machine.t /\ Fresh.fault = None
  BY <1>9, <1>10, <1>11 DEF Fresh, Shape, Fields
<1>13. Whole(0, Fresh)
  BY <1>3, <1>5, <1>7, <1>8, <1>12 DEF Whole
<1>14. StartOK
  BY <1>9, <1>10, <1>11, <1>13 DEF StartOK
<1>15. LeftOK /\ KeptOK
  BY <1>11 DEF LeftOK, KeptOK
<1> QED
  BY <1>9, <1>10, <1>11, <1>14, <1>15 DEF IInv, BeforeOK, FaultOK, DoneOK, TrapTellsCause

\* An attempt goes as the run with nothing missing does from the first start.
LEMMA ExecutePreserves ==
  ASSUME IInv, Execute
  PROVE  IInv'
<1> DEFINE half == {a \in Cell : m.mem[a] # start.mem[a]}
           c == [begin |-> m, half |-> half, loose |-> Loose(i)]
<1>1. /\ phase = "exec" /\ phase' = "check" /\ m' = Executed(i, m)
      /\ halfDone' = (halfDone \/ (~Ok(m') /\ m'.writes # {}))
      /\ saved' = Registers(m) /\ i' = i /\ start' = start
  BY DEF Execute
<1>2. /\ StartOK /\ Shape(m) /\ KeptOK /\ LeftOK /\ m.fault = None /\ m.reads = {} /\ m.writes = {}
      /\ Registers(m) = Registers(start)
  BY <1>1 DEF IInv, BeforeOK
<1>3. /\ Shape(Fresh) /\ Fresh.r = start.r /\ Fresh.ccr = start.ccr /\ Fresh.pc = start.pc
      /\ Fresh.mem = start.mem /\ Fresh.kept = start.kept /\ Fresh.reads = {} /\ Fresh.writes = {}
      /\ Whole(0, Fresh)
  BY <1>2 DEF StartOK, Fresh, Shape, Fields
<1>4. m.r = start.r /\ m.ccr = start.ccr /\ m.pc = start.pc
  BY <1>2 DEF Registers
<1>5. Whither' = Whither /\ Fresh' = Fresh
  BY <1>1 DEF Whither, Fresh
<1>6. c.begin = m /\ c.half = half /\ c.loose = Loose(i)
  OBVIOUS
<1> HIDE DEF c
<1>7. \A a \in Cell : a \in half \/ m.mem[a] = start.mem[a]
  OBVIOUS
<1> HIDE DEF half
<1>8. Sim(c, Last, Rewritten(i), m', Whither)
  <2>1. PICK k : k = 0
    OBVIOUS
  <2>2. Sound(c, m)
    BY <1>2, <1>6 DEF Sound
  <2>3. Alike(c, Nothing, m, Fresh)
    BY <1>2, <1>3, <1>4, <1>6, <1>7 DEF Alike, SameRegs, SameMem, SameKept, KeptOK, Nothing
  <2>4. Sim(c, k, Nothing, m, Fresh)
    BY <1>2, <1>3, <2>1, <2>2, <2>3 DEF Sim
  <2>5. i \in Instr
    BY <1>2 DEF StartOK
  <2> QED
    BY <1>1, <1>2, <1>6, <2>1, <2>4, <2>5, ExecutedSim DEF Whither
<1>9. /\ Shape(m') /\ (Ok(m') \/ ~Mapped(m', m'.fault.page, m'.fault.write))
      /\ \A a \in Cell : a \in m'.writes \/ m'.mem[a] = m.mem[a]
      /\ \A x \in Keys : x \in Loose(i) \/ m'.kept[x] = m.kept[x]
      /\ Whither.reads \cap half = {} => m'.writes \subseteq Whither.writes
      /\ Ok(m') /\ Whither.reads \cap half = {} => Alike(c, Rewritten(i), m', Whither)
      /\ Shape(Whither)
  BY <1>6, <1>8 DEF Sim, Sound, Same, Whole, Ok
<1>10. KeptOK'
  BY <1>1, <1>2, <1>9 DEF KeptOK
<1>11. (halfDone => Whither.reads \cap Whither.writes = {}) => half \subseteq Whither.writes
  BY <1>2 DEF LeftOK, Repeatable, half
<1>12. ~halfDone => half = {}
  BY <1>2 DEF LeftOK, half
<1>13. (halfDone => Whither.reads \cap Whither.writes = {}) => Whither.reads \cap half = {}
  BY <1>11, <1>12
<1>14. ASSUME ~Ok(m') PROVE LeftOK'
  <2>1. ASSUME ~halfDone' PROVE m'.mem = start.mem
    <3>1. ~halfDone /\ m'.writes = {}
      BY <1>1, <1>14, <2>1
    <3>2. m.mem = start.mem
      BY <1>2, <3>1 DEF LeftOK
    <3>3. \A a \in Cell : m'.mem[a] = m.mem[a]
      BY <1>9, <3>1
    <3> QED
      BY <1>2, <1>9, <3>2, <3>3 DEF Shape
  <2>2. ASSUME Repeatable', NEW a \in Cell, m'.mem[a] # start.mem[a] PROVE a \in Whither.writes
    <3>1. halfDone'
      BY <2>1, <2>2
    <3>2. Whither.reads \cap Whither.writes = {}
      BY <1>5, <2>2, <3>1 DEF Repeatable
    <3>3. half \subseteq Whither.writes /\ m'.writes \subseteq Whither.writes
      BY <1>9, <1>11, <1>13, <3>2
    <3>4. CASE m'.mem[a] = m.mem[a]
      BY <1>7, <2>2, <3>3, <3>4
    <3>5. CASE m'.mem[a] # m.mem[a]
      BY <1>9, <3>3, <3>5
    <3> QED
      BY <3>4, <3>5
  <2> QED
    BY <1>1, <1>5, <2>1, <2>2 DEF LeftOK
<1>15. DoneOK'
  <2> SUFFICES ASSUME Ok(m'), Repeatable'
               PROVE  /\ Registers(m') = Registers(Whither) /\ m'.mem = Whither.mem
                      /\ i.op \notin Unsaved => Kept(m') = Kept(Whither)
    BY <1>1, <1>5 DEF DoneOK
  <2>1. halfDone => Whither.reads \cap Whither.writes = {}
    BY <1>1, <1>5 DEF Repeatable
  <2>2. Alike(c, Rewritten(i), m', Whither)
    BY <1>9, <1>13, <2>1
  <2>3. half \subseteq Whither.writes
    BY <1>11, <2>1
  <2>4. Registers(m') = Registers(Whither)
    BY <2>2 DEF Alike, SameRegs, Registers
  <2>5. \A a \in Cell : m'.mem[a] = Whither.mem[a]
    BY <1>6, <2>2, <2>3 DEF Alike, SameMem
  <2>6. m'.mem = Whither.mem
    BY <1>9, <2>5 DEF Shape
  <2>7. ASSUME i.op \notin Unsaved PROVE Kept(m') = Kept(Whither)
    <3>1. \A x \in Keys : x # "shadow" => x \notin Loose(i) \/ x \in Rewritten(i)
      BY <2>7 DEF Loose
    <3>2. \A x \in Keys : x # "shadow" => m'.kept[x] = Whither.kept[x]
      BY <1>6, <2>2, <3>1 DEF Alike, SameKept
    <3> QED
      BY <1>9, <3>2 DEF Kept, Shape
  <2> QED
    BY <2>4, <2>6, <2>7
<1>16. StartOK' /\ BeforeOK' /\ FaultOK' /\ TrapTellsCause'
  <2>1. StartOK'
    BY <1>1, <1>2, <1>5 DEF StartOK, Registers
  <2>2. BeforeOK' /\ TrapTellsCause'
    BY <1>1 DEF BeforeOK, TrapTellsCause
  <2>3. FaultOK'
    BY <1>9, <1>14 DEF FaultOK
  <2> QED
    BY <2>1, <2>2, <2>3
<1> QED
  BY <1>1, <1>9, <1>10, <1>15, <1>16 DEF IInv

\* The end.
LEMMA CompletePreserves ==
  ASSUME IInv, Complete
  PROVE  IInv'
<1>1. /\ phase = "check" /\ Ok(m) /\ phase' = "done" /\ ideal' = Whither
      /\ m' = m /\ i' = i /\ start' = start /\ saved' = saved /\ halfDone' = halfDone
  BY DEF Complete, Whither, Fresh, Everything
<1>2. Whither' = Whither /\ Fresh' = Fresh
  BY <1>1 DEF Whither, Fresh
<1>3. StartOK' /\ KeptOK' /\ Shape(m')
  BY <1>1, <1>2 DEF IInv, StartOK, KeptOK
<1>4. BeforeOK' /\ FaultOK' /\ TrapTellsCause'
  BY <1>1 DEF BeforeOK, FaultOK, TrapTellsCause
<1>5. DoneOK'
  BY <1>1, <1>2 DEF IInv, DoneOK, Repeatable
<1> QED
  BY <1>1, <1>2, <1>3, <1>4, <1>5 DEF IInv

\* What is taken back is what the attempt began with.
LEMMA HandleBusErrorPreserves ==
  ASSUME IInv, HandleBusError
  PROVE  IInv'
<1>1. /\ phase = "check" /\ ~Ok(m) /\ phase' = "fault" /\ trap' = m.fault
      /\ m' = [TakenBack(m) EXCEPT !.fault = None, !.reads = {}, !.writes = {}]
      /\ i' = i /\ start' = start /\ saved' = saved /\ halfDone' = halfDone
  BY DEF HandleBusError
<1>2. StartOK /\ Shape(m) /\ KeptOK /\ FaultOK
  BY DEF IInv
<1>3. /\ Shape(m') /\ m'.map = m.map /\ m'.mem = m.mem /\ m'.kept = m.kept
      /\ m'.fault = None /\ m'.reads = {} /\ m'.writes = {}
      /\ m'.r = saved.r /\ m'.ccr = saved.ccr /\ m'.pc = saved.pc
  BY <1>1, <1>2 DEF TakenBack, Shape, Fields
<1>4. Whither' = Whither /\ Fresh' = Fresh
  BY <1>1 DEF Whither, Fresh
<1>5. Registers(m') = Registers(start)
  BY <1>2, <1>3 DEF StartOK, Registers
<1>6. StartOK' /\ KeptOK'
  BY <1>1, <1>2, <1>3, <1>4 DEF StartOK, KeptOK
<1>7. LeftOK'
  BY <1>1, <1>2, <1>3, <1>4 DEF FaultOK, LeftOK, Repeatable
<1>8. TrapTellsCause'
  BY <1>1, <1>2, <1>3 DEF FaultOK, TrapTellsCause, Mapped
<1>9. FaultOK' /\ DoneOK' /\ BeforeOK'
  BY <1>1, <1>3, <1>5, <1>7 DEF FaultOK, DoneOK, BeforeOK
<1> QED
  BY <1>1, <1>3, <1>6, <1>8, <1>9 DEF IInv

\* Only the map changes.
LEMMA PageInPreserves ==
  ASSUME IInv, PageIn
  PROVE  IInv'
<1>1. PICK mode \in (IF trap.write THEN {"rw"} ELSE {"ro", "rw"}), victim \in Page :
        m' = [m EXCEPT !.map[victim] = "none", !.map[trap.page] = mode]
  BY DEF PageIn
<1>2. /\ phase = "fault" /\ phase' = "exec"
      /\ i' = i /\ start' = start /\ saved' = saved /\ halfDone' = halfDone
  BY DEF PageIn
<1>3. StartOK /\ Shape(m) /\ KeptOK /\ BeforeOK
  BY DEF IInv
<1>4. /\ Shape(m') /\ m'.mem = m.mem /\ m'.kept = m.kept /\ m'.r = m.r /\ m'.ccr = m.ccr
      /\ m'.pc = m.pc /\ m'.fault = m.fault /\ m'.reads = m.reads /\ m'.writes = m.writes
  BY <1>1, <1>3 DEF Shape, Fields
<1>5. Whither' = Whither /\ Fresh' = Fresh
  BY <1>2 DEF Whither, Fresh
<1>6. StartOK' /\ KeptOK'
  BY <1>2, <1>3, <1>4, <1>5 DEF StartOK, KeptOK
<1>7. LeftOK'
  BY <1>2, <1>3, <1>4, <1>5 DEF BeforeOK, LeftOK, Repeatable
<1>8. BeforeOK'
  BY <1>2, <1>3, <1>4, <1>7 DEF BeforeOK, Registers
<1>9. FaultOK' /\ DoneOK' /\ TrapTellsCause'
  BY <1>2 DEF FaultOK, DoneOK, TrapTellsCause
<1> QED
  BY <1>2, <1>4, <1>6, <1>8, <1>9 DEF IInv

\* Every step of the loop keeps the invariant.
LEMMA NextPreserves == IInv /\ [Next]_vars => IInv'
<1> SUFFICES ASSUME IInv, [Next]_vars PROVE IInv'
  OBVIOUS
<1>1. CASE Execute
  BY <1>1, ExecutePreserves
<1>2. CASE Complete
  BY <1>2, CompletePreserves
<1>3. CASE HandleBusError
  BY <1>3, HandleBusErrorPreserves
<1>4. CASE PageIn
  BY <1>4, PageInPreserves
<1>5. CASE UNCHANGED vars
  BY <1>5 DEF vars, IInv, StartOK, KeptOK, BeforeOK, LeftOK, FaultOK, DoneOK, Repeatable,
     TrapTellsCause, Whither, Fresh, Shape
<1> QED
  BY <1>1, <1>2, <1>3, <1>4, <1>5 DEF Next

\* At the end the invariant is the property.
LEMMA DoneIsExact == IInv => RestartExact
<1> SUFFICES ASSUME IInv, phase = "done", halfDone => ideal.reads \cap ideal.writes = {}
             PROVE  /\ Registers(m) = Registers(ideal) /\ m.mem = ideal.mem
                    /\ i.op \notin Unsaved => Kept(m) = Kept(ideal)
  BY DEF RestartExact
<1>1. Ok(m) /\ ideal = Whither /\ DoneOK
  BY DEF IInv
<1> QED
  BY <1>1 DEF DoneOK, Repeatable

\* The machine keeps its invariant through every fault, restart and page taken away.
THEOREM RestartInvariant == Spec => []IInv
  BY InitEstablishes, NextPreserves, PTL DEF Spec

\* Whatever the instruction, the pages that are missing, the access each fault stops
\* and however often the system takes another page: the instruction restarted after
\* HandleBusError leaves the registers and the memory it leaves when nothing is missing
\* (unless it finds its own operand half written), and the coprocessors too but for
\* those instructions that change what HandleBusError does not take back.
THEOREM RestartIsExact == Spec => []RestartExact
  BY RestartInvariant, DoneIsExact, PTL

\* The page and the kind of access the frame tells are always of an access the page
\* does not allow, though the handler goes on with other accesses after the fault.
THEOREM TrapIsTrue == Spec => []TrapTellsCause
<1>1. IInv => TrapTellsCause
  BY DEF IInv
<1> QED
  BY <1>1, RestartInvariant, PTL
=============================================================================
