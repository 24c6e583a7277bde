---------------------------- MODULE LanceProofs -----------------------------
(***************************************************************************)
(* What is proved of the LANCE, its driver and the TAP adapter's reader,   *)
(* for rings of any length and any frames.                                 *)
(*                                                                         *)
(* The inductive invariant says where the slots in use begin and end: a    *)
(* receive ring, seen from the driver's index on, holds c filled slots,    *)
(* then those the chip owns, and the chip's index is behind the filled     *)
(* ones; a transmit ring, seen from the slot the driver cleans next, holds *)
(* the slots sent, then the r the chip has yet to send, then the free      *)
(* ones. From the elements of the two channels, which are computed from c  *)
(* and r, each action is a step of Fifo; from c > 0 and r < used, the work *)
(* to be announced is known. Arithmetic modulo the length of a ring is     *)
(* confined to the lemmas about At.                                        *)
(***************************************************************************)
EXTENDS MCLance, SequenceTheorems, WellFoundedInduction, TLAPS

-----------------------------------------------------------------------------
(* Slots of a ring.                                                        *)

\* Quotient and remainder, and that there are no others.
LEMMA Split ==
  ASSUME NEW a \in Nat, NEW b \in Nat \ {0}
  PROVE  /\ a \div b \in Nat /\ a % b \in 0..(b - 1)
         /\ a = (a \div b) * b + (a % b)
<1>1. a \div b \in Int
  OBVIOUS
<1>2. a \div b >= 0
  OBVIOUS
<1>3. a % b \in 0..(b - 1)
  OBVIOUS
<1>4. a % b = a - b * (a \div b)
  BY SMTT(60)
<1>5. b * (a \div b) = (a \div b) * b /\ (a \div b) * b \in Int
  BY <1>1
<1>6. a = (a \div b) * b + (a % b)
  <2> DEFINE d == a \div b
             r == a % b
             m == d * b
  <2>1. r = a - m /\ m \in Int
    BY <1>4, <1>5
  <2> HIDE DEF m, r
  <2>2. a = m + r
    BY <2>1
  <2> QED
    BY <2>2 DEF m, r
<1> QED
  BY <1>1, <1>2, <1>3, <1>6

\* A number below twice the length wraps around once.
LEMMA WrapsOnce ==
  ASSUME NEW n \in Nat \ {0}, NEW a \in 0..(2 * n - 1)
  PROVE  a % n = IF a < n THEN a ELSE a - n
<1> DEFINE d == a \div n
           r == a % n
<1>0. a \in Nat
  OBVIOUS
<1>1. d \in Nat /\ r \in 0..(n - 1) /\ a = d * n + r
  BY <1>0, Split, Zenon
<1> HIDE DEF d, r
<1>2. d < 2
  <2> SUFFICES ASSUME d >= 2 PROVE FALSE
    BY <1>1
  <2>1. d = 2 + (d - 2) /\ d - 2 \in Nat
    BY <1>1
  <2>2. (2 + (d - 2)) * n = 2 * n + (d - 2) * n /\ (d - 2) * n \in Nat
    BY <2>1
  <2>3. d * n >= 2 * n /\ d * n \in Nat
    BY <2>1, <2>2
  <2> QED
    BY <1>1, <2>3
<1>3. CASE d = 0
  <2>1. d * n = 0
    BY <1>3
  <2> QED
    BY <1>1, <2>1 DEF r
<1>4. CASE d = 1
  <2>1. d * n = n
    BY <1>4
  <2> QED
    BY <1>1, <2>1 DEF r
<1> QED
  BY <1>1, <1>2, <1>3, <1>4

\* Once around the ring, and one more.
LEMMA AtIs ==
  ASSUME NEW n \in Nat \ {0}, NEW i \in 0..n - 1, NEW k \in 1..n + 1
  PROVE  /\ At(i, n, k) = IF i + k - 1 < n THEN i + k - 1 ELSE i + k - 1 - n
         /\ At(i, n, k) \in 0..n - 1
<1> DEFINE a == i + k - 1
<1>1. a \in 0..(2 * n - 1)
  OBVIOUS
<1>2. At(i, n, k) = a % n
  BY DEF At
<1>3. a = i + k - 1
  OBVIOUS
<1> HIDE DEF a
<1>4. a % n = IF a < n THEN a ELSE a - n
  BY <1>1, WrapsOnce
<1> QED
  BY <1>1, <1>2, <1>3, <1>4

\* From a slot of the ring on, k slots: as many from the first one.
LEMMA AtAt ==
  ASSUME NEW n \in Nat \ {0}, NEW i \in 0..n - 1, NEW c \in 0..n, NEW k \in 1..n + 1,
         c + k <= n + 1
  PROVE  At(At(i, n, c + 1), n, k) = At(i, n, c + k)
<1>1. At(i, n, c + 1) \in 0..n - 1
      /\ At(i, n, c + 1) = IF i + c < n THEN i + c ELSE i + c - n
  BY AtIs
<1>2. /\ At(i, n, c + k) = IF i + (c + k) - 1 < n THEN i + (c + k) - 1 ELSE i + (c + k) - 1 - n
  BY AtIs
<1> DEFINE j == At(i, n, c + 1)
<1> HIDE DEF j
<1>3. At(j, n, k) = IF j + k - 1 < n THEN j + k - 1 ELSE j + k - 1 - n
  BY <1>1, AtIs DEF j
<1> QED
  BY <1>1, <1>2, <1>3 DEF j

\* Each slot is at one place.
LEMMA AtUnique ==
  ASSUME NEW n \in Nat \ {0}, NEW i \in 0..n - 1, NEW j \in 1..n, NEW k \in 1..n,
         At(i, n, j) = At(i, n, k)
  PROVE  j = k
<1>1. /\ At(i, n, j) = IF i + j - 1 < n THEN i + j - 1 ELSE i + j - 1 - n
      /\ At(i, n, k) = IF i + k - 1 < n THEN i + k - 1 ELSE i + k - 1 - n
  BY AtIs
<1>2. (IF i + j - 1 < n THEN i + j - 1 ELSE i + j - 1 - n)
        = (IF i + k - 1 < n THEN i + k - 1 ELSE i + k - 1 - n)
  BY <1>1, Zenon
<1> QED
  BY <1>2

\* The place of a slot.
LEMMA PlaceOf ==
  ASSUME NEW n \in Nat \ {0}, NEW i \in 0..n - 1, NEW s \in 0..n - 1
  PROVE  /\ (s + n - i) % n \in 0..n - 1
         /\ At(i, n, ((s + n - i) % n) + 1) = s
<1>1. s + n - i \in 0..(2 * n - 1)
  OBVIOUS
<1> DEFINE a == s + n - i
           p == a % n
<1>a. a = s + n - i /\ a \in 0..(2 * n - 1)
  BY <1>1
<1> HIDE DEF a
<1>b. p = IF a < n THEN a ELSE a - n
  BY <1>a, WrapsOnce
<1> HIDE DEF p
<1>2. p = IF s + n - i < n THEN s + n - i ELSE s - i
  BY <1>a, <1>b
<1>3. p \in 0..n - 1
  BY <1>2
<1>4. At(i, n, p + 1) = s
  BY <1>2, <1>3, AtIs
<1> QED
  BY <1>3, <1>4 DEF p, a

\* What Min is.
LEMMA MinIs ==
  ASSUME NEW S \in SUBSET Int, NEW c \in S, \A y \in S : c <= y
  PROVE  Min(S) = c
<1> DEFINE P(x) == x \in S /\ \A y \in S : x <= y
<1>1. P(c)
  OBVIOUS
<1>0. Min(S) = CHOOSE x : P(x)
  BY Zenon DEF Min
<1>2. P(Min(S))
  BY <1>0, <1>1, Zenon
<1> HIDE DEF P
<1>3. Min(S) \in Int /\ c \in Int /\ Min(S) <= c /\ c <= Min(S)
  BY <1>2 DEF P
<1> QED
  BY <1>2, <1>3

\* The length of a run that is known.
LEMMA RunIs ==
  ASSUME NEW n \in Nat \ {0}, NEW i, NEW S, NEW c \in 0..n,
         \A k \in 1..c : At(i, n, k) \in S,
         c < n => At(i, n, c + 1) \notin S
  PROVE  Run(i, n, S) = c
<1> DEFINE T == {n} \cup {k \in 0..n - 1 : At(i, n, k + 1) \notin S}
<1>1. T \in SUBSET Int /\ c \in T
  OBVIOUS
<1>2. \A y \in T : c <= y
  <2> SUFFICES ASSUME NEW y \in T, y < c PROVE FALSE
    BY <1>1
  <2>1. y \in 0..n - 1 /\ At(i, n, y + 1) \notin S /\ y + 1 \in 1..c
    OBVIOUS
  <2> QED
    BY <2>1
<1> HIDE DEF T
<1>3. Min(T) = c
  BY <1>1, <1>2, MinIs
<1> QED
  BY <1>3 DEF Run, T

-----------------------------------------------------------------------------
(* Sequences.                                                              *)

\* Sequences of the same elements are the same.
LEMMA SameSequence ==
  ASSUME NEW S, NEW s \in Seq(S), NEW t \in Seq(S), Len(s) = Len(t),
         \A k \in 1..Len(s) : s[k] = t[k]
  PROVE  s = t
  BY SeqEqual

\* What is longer and begins alike is an extension.
LEMMA Extends ==
  ASSUME NEW S, NEW s \in Seq(S), NEW t \in Seq(S), Len(s) < Len(t),
         \A k \in 1..Len(s) : s[k] = t[k]
  PROVE  SubSeq(s, 1, Len(s)) = SubSeq(t, 1, Len(s)) /\ s # t /\ Len(s) <= Len(t)
<1>1. Len(s) \in Nat /\ Len(t) \in Nat
  OBVIOUS
<1>2. SubSeq(s, 1, Len(s)) \in Seq(S) /\ SubSeq(t, 1, Len(s)) \in Seq(S)
  BY <1>1
<1>3. /\ Len(SubSeq(s, 1, Len(s))) = Len(s) /\ Len(SubSeq(t, 1, Len(s))) = Len(s)
      /\ \A k \in 1..Len(s) : SubSeq(s, 1, Len(s))[k] = s[k] /\ SubSeq(t, 1, Len(s))[k] = t[k]
  BY <1>1
<1> DEFINE a == SubSeq(s, 1, Len(s))
           b == SubSeq(t, 1, Len(s))
<1> HIDE DEF a, b
<1>4. a = b
  BY <1>1, <1>2, <1>3, SameSequence DEF a, b
<1> QED
  BY <1>1, <1>4 DEF a, b

\* u is t without its first element.
Rest(t, u) == Len(t) = Len(u) + 1 /\ \A k \in 1..Len(u) : u[k] = t[k + 1]

\* One element moves from the front of t to the end of s.
LEMMA MovesOne ==
  ASSUME NEW S, NEW s \in Seq(S), NEW t \in Seq(S), NEW u \in Seq(S), Rest(t, u)
  PROVE  s \o t = Append(s, t[1]) \o u
<1> USE DEF Rest
<1>1. t[1] \in S
  OBVIOUS
<1>2. Append(s, t[1]) \in Seq(S) /\ s \o t \in Seq(S)
  BY <1>1
<1>3. Append(s, t[1]) \o u \in Seq(S)
  BY <1>2
<1>4. Len(Append(s, t[1]) \o u) = Len(s \o t)
  <2>1. Len(Append(s, t[1]) \o u) = (Len(s) + 1) + Len(u)
    BY <1>2
  <2>2. Len(s \o t) = Len(s) + Len(t)
    OBVIOUS
  <2> QED
    BY <2>1, <2>2
<1>5. ASSUME NEW k \in 1..Len(s \o t) PROVE (s \o t)[k] = (Append(s, t[1]) \o u)[k]
  <2>1. CASE k <= Len(s)
    BY <1>2, <2>1
  <2>2. CASE k = Len(s) + 1
    BY <1>2, <2>2
  <2>3. CASE k > Len(s) + 1
    <3>1. k - Len(s) - 1 \in 1..Len(u)
      BY <1>2, <2>3
    <3>2. (s \o t)[k] = t[k - Len(s)]
      BY <1>2, <2>3
    <3>3. (Append(s, t[1]) \o u)[k] = u[k - Len(s) - 1]
      BY <1>2, <2>3
    <3> QED
      <4>1. u[k - Len(s) - 1] = t[(k - Len(s) - 1) + 1] /\ (k - Len(s) - 1) + 1 = k - Len(s)
        BY <1>2, <3>1 DEF Rest
      <4> QED
        BY <3>2, <3>3, <4>1
  <2> QED
    BY <2>1, <2>2, <2>3
<1> DEFINE a == s \o t
           b == Append(s, t[1]) \o u
<1> HIDE DEF a, b
<1> QED
  BY <1>2, <1>3, <1>4, <1>5, SameSequence DEF a, b
-----------------------------------------------------------------------------
(* The inductive invariant.                                                *)

Pcs == {"down", "init", "run", "demand", "ack", "serve"}

FrameSet == {Frames[k] : k \in DOMAIN Frames}

RxRings == [RxSlot -> [own : BOOLEAN, frame : RxItem \cup {None}]]

TxRings == [TxSlot -> [own : BOOLEAN, frame : Kind \cup {None}]]

Types ==
  /\ running \in BOOLEAN /\ initialized \in BOOLEAN /\ txPending \in BOOLEAN
  /\ rxIndex \in RxSlot /\ txIndex \in TxSlot
  /\ rx \in RxRings /\ tx \in TxRings
  /\ rxq \in Seq(Queued) /\ sent \in Seq(Kind)
  /\ drv \in [pc : Pcs, rx : RxSlot, tx : TxSlot, clean : TxSlot, used : 0..TxLen,
              causes : SUBSET W1C, made : Nat, got : Seq(RxItem)]

FilledIn(ring) == {i \in RxSlot : ~ring[i].own /\ ring[i].frame # None}

\* In a receive ring the driver empties from slot d on, the first c slots are
\* filled and no other is.
RingOK(ring, d, c) ==
  /\ c \in 0..RxLen
  /\ \A k \in 1..RxLen : At(d, RxLen, k) \in FilledIn(ring) <=> k <= c

\* They are followed by the slot the chip fills next. While the driver works,
\* the chip owns all slots that are not filled.
RxRing(c) ==
  /\ RingOK(rx, drv.rx, c)
  /\ drv.pc # "down" => \A k \in c + 1..RxLen : rx[At(drv.rx, RxLen, k)].own
  /\ rxIndex = At(drv.rx, RxLen, c + 1)

OwnedIn(ring) == {i \in TxSlot : ring[i].own}

\* In a transmit ring the driver cleans from slot d on, with u slots in use, the
\* chip has yet to send the last r of these and owns no other.
SendingOK(ring, d, u, r) ==
  /\ r \in 0..u
  /\ \A k \in 1..TxLen :
       /\ At(d, TxLen, k) \in OwnedIn(ring) <=> u - r < k /\ k <= u
       /\ u - r < k /\ k <= u => ring[At(d, TxLen, k)].frame \in Kind

TxRing(r) ==
  /\ SendingOK(tx, drv.clean, drv.used, r)
  /\ txIndex = At(drv.clean, TxLen, drv.used - r + 1)
  /\ drv.tx = At(drv.clean, TxLen, drv.used + 1)

\* The driver's state, the chip's, and the causes of interrupts, which are
\* pending or being served while there is work.
Signals ==
  /\ line = Interrupt(csr0)
  /\ drv.pc \in {"down", "init"} => ~running
  /\ drv.pc = "init" => drv.used = 0 /\ drv.rx \notin FilledIn(rx)
  /\ drv.pc \notin {"down", "init"} => "INEA" \in csr0
  /\ drv.pc \notin {"ack", "serve"} => drv.causes = {}
  /\ drv.pc \notin {"down", "init"} =>
       /\ drv.rx \in FilledIn(rx) => "RINT" \in csr0 \cup drv.causes
       /\ drv.used > 0 /\ drv.clean \notin OwnedIn(tx) => "TINT" \in csr0 \cup drv.causes

\* The frames of the adapter.
Reading ==
  /\ pc \in {"reset", "issue", "wait"} /\ reads \in Nat /\ event \in BOOLEAN
  /\ wire \in Seq(FrameSet) /\ queued \in Seq(FrameSet)
  /\ event => buffer \in FrameSet
  /\ ~abandoned =>
       \/ pc = "reset" /\ reads = 0 /\ queued \o wire = Frames
       \/ pc = "issue" /\ reads = 0 /\ ~event /\ queued \o wire = Frames
       \/ pc = "wait" /\ reads = 1 /\ ~event /\ queued \o wire = Frames
       \/ pc = "wait" /\ reads = 0 /\ event /\ Append(queued, buffer) \o wire = Frames

RxInv == \E c \in 0..RxLen : RxRing(c)

TxInv == \E r \in 0..drv.used : TxRing(r)

IInv == Types /\ RxInv /\ TxInv /\ Signals /\ Reading

-----------------------------------------------------------------------------
(* The channels, as sequences with known elements.                         *)

\* Concatenation, element by element.
LEMMA Joined ==
  ASSUME NEW S, NEW s \in Seq(S), NEW t \in Seq(S)
  PROVE  /\ s \o t \in Seq(S) /\ Len(s \o t) = Len(s) + Len(t)
         /\ \A k \in 1..Len(s) : (s \o t)[k] = s[k]
         /\ \A k \in Len(s) + 1..Len(s) + Len(t) : (s \o t)[k] = t[k - Len(s)]
<1>1. Len(s) \in Nat /\ Len(t) \in Nat
  OBVIOUS
<1>2. ASSUME NEW k \in 1..Len(s) PROVE (s \o t)[k] = s[k]
  BY <1>1
<1>3. ASSUME NEW k \in Len(s) + 1..Len(s) + Len(t) PROVE (s \o t)[k] = t[k - Len(s)]
  BY <1>1
<1>4. s \o t \in Seq(S) /\ Len(s \o t) = Len(s) + Len(t)
  OBVIOUS
<1> QED
  BY <1>2, <1>3, <1>4

UnderWay(ring, d, q) ==
  [k \in 1..Run(d, RxLen, FilledIn(ring)) |-> ring[At(d, RxLen, k)].frame]
  \o [k \in 1..Len(q) |-> Stored(q[k])]

\* A frame stored is one of those that travel.
LEMMA StoredIs ==
  ASSUME NEW f \in Queued PROVE Stored(f) \in RxItem
BY Zenon DEF RxItem

\* No frame that travels looks like an empty descriptor.
LEMMA NotNone == None \notin RxItem
<1>1. ASSUME NEW k \in DOMAIN Reply PROVE Reply[k] # "none"
  BY DEF Reply
<1>2. ASSUME NEW k \in DOMAIN Frames PROVE Frames[k] # None
  <2>1. Frames[k] \in {Frames[m] : m \in DOMAIN Frames} \ {None}
    BY FramesAssumption, <1>2
  <2> QED
    BY <2>1
<1>3. \A f \in Queued : f # None
  BY <1>1, <1>2 DEF Queued, None
<1>4. \A f \in Queued : Stored(f) # None
  BY <1>3 DEF Stored, None
<1> QED
  BY <1>4 DEF RxItem

\* The receive channel.
LEMMA UnderWayIs ==
  ASSUME NEW ring \in RxRings, NEW d \in RxSlot, NEW q \in Seq(Queued), NEW c, RingOK(ring, d, c)
  PROVE  /\ UnderWay(ring, d, q) \in Seq(RxItem)
         /\ Len(UnderWay(ring, d, q)) = c + Len(q)
         /\ \A k \in 1..c : UnderWay(ring, d, q)[k] = ring[At(d, RxLen, k)].frame
         /\ \A k \in c + 1..c + Len(q) : UnderWay(ring, d, q)[k] = Stored(q[k - c])
<1>0. RxLen \in Nat \ {0} /\ d \in 0..RxLen - 1 /\ c \in 0..RxLen
  BY RingAssumption DEF RxSlot, RingOK
<1>1. Run(d, RxLen, FilledIn(ring)) = c
  <2>1. \A k \in 1..c : At(d, RxLen, k) \in FilledIn(ring)
    BY <1>0 DEF RingOK
  <2>2. c < RxLen => At(d, RxLen, c + 1) \notin FilledIn(ring)
    BY <1>0 DEF RingOK
  <2> QED
    BY <1>0, <2>1, <2>2, RunIs
<1> DEFINE s == [k \in 1..c |-> ring[At(d, RxLen, k)].frame]
           t == [k \in 1..Len(q) |-> Stored(q[k])]
<1>2. UnderWay(ring, d, q) = s \o t
  BY <1>1 DEF UnderWay
<1>3. ASSUME NEW k \in 1..c PROVE ring[At(d, RxLen, k)].frame \in RxItem
  <2>1. At(d, RxLen, k) \in FilledIn(ring)
    BY <1>0 DEF RingOK
  <2>2. At(d, RxLen, k) \in RxSlot /\ ring[At(d, RxLen, k)].frame # None
    BY <2>1 DEF FilledIn
  <2> QED
    BY <2>2 DEF RxRings
<1>4. s \in Seq(RxItem) /\ Len(s) = c /\ \A k \in 1..c : s[k] = ring[At(d, RxLen, k)].frame
  BY <1>0, <1>3
<1>5. \A k \in 1..Len(q) : Stored(q[k]) \in RxItem
  BY StoredIs
<1>6. t \in Seq(RxItem) /\ Len(t) = Len(q) /\ \A k \in 1..Len(q) : t[k] = Stored(q[k])
  BY <1>5
<1> HIDE DEF s, t
<1>a. /\ s \o t \in Seq(RxItem) /\ Len(s \o t) = Len(s) + Len(t)
      /\ \A k \in 1..Len(s) : (s \o t)[k] = s[k]
      /\ \A k \in Len(s) + 1..Len(s) + Len(t) : (s \o t)[k] = t[k - Len(s)]
  <2>1. s \in Seq(RxItem) /\ t \in Seq(RxItem)
    BY <1>4, <1>6
  <2> QED
    BY <2>1, Joined, Zenon
<1>b. \A k \in c + 1..c + Len(q) : k - c \in 1..Len(q)
  BY <1>0
<1>7. /\ s \o t \in Seq(RxItem) /\ Len(s \o t) = c + Len(q)
      /\ \A k \in 1..c : (s \o t)[k] = s[k]
      /\ \A k \in c + 1..c + Len(q) : (s \o t)[k] = t[k - c] /\ k - c \in 1..Len(q)
  BY <1>a, <1>b, <1>4, <1>6, Zenon
<1>8. \A k \in c + 1..c + Len(q) : (s \o t)[k] = Stored(q[k - c])
  <2> SUFFICES ASSUME NEW k \in c + 1..c + Len(q) PROVE (s \o t)[k] = Stored(q[k - c])
    OBVIOUS
  <2>1. (s \o t)[k] = t[k - c] /\ k - c \in 1..Len(q)
    BY <1>7
  <2>2. t[k - c] = Stored(q[k - c])
    BY <1>6, <2>1, Zenon
  <2> QED
    BY <2>1, <2>2, Zenon
<1>9. \A k \in 1..c : (s \o t)[k] = ring[At(d, RxLen, k)].frame
  BY <1>4, <1>7, Zenon
<1> QED
  BY <1>2, <1>7, <1>8, <1>9, Zenon

Sending(ring, d, u) ==
  LET done == Min({u, Run(d, TxLen, TxSlot \ OwnedIn(ring))})
  IN  [k \in 1..u - done |-> ring[At(d, TxLen, done + k)].frame]

\* The transmit channel.
LEMMA SendingIs ==
  ASSUME NEW ring \in TxRings, NEW d \in TxSlot, NEW u \in 0..TxLen, NEW r,
         SendingOK(ring, d, u, r)
  PROVE  /\ Min({u, Run(d, TxLen, TxSlot \ OwnedIn(ring))}) = u - r
         /\ Sending(ring, d, u) \in Seq(Kind)
         /\ Len(Sending(ring, d, u)) = r
         /\ \A k \in 1..r : Sending(ring, d, u)[k] = ring[At(d, TxLen, u - r + k)].frame
<1>0. TxLen \in Nat \ {0} /\ d \in 0..TxLen - 1 /\ r \in 0..u
  BY RingAssumption DEF TxSlot, SendingOK
<1>1. \A k \in 1..TxLen : At(d, TxLen, k) \in OwnedIn(ring) <=> u - r < k /\ k <= u
  BY DEF SendingOK
<1> DEFINE T == TxSlot \ OwnedIn(ring)
<1>a. \A k \in 1..TxLen : At(d, TxLen, k) \in T <=> ~ (u - r < k /\ k <= u)
  <2> SUFFICES ASSUME NEW k \in 1..TxLen
               PROVE  At(d, TxLen, k) \in T <=> At(d, TxLen, k) \notin OwnedIn(ring)
    BY <1>1
  <2>1. At(d, TxLen, k) \in 0..TxLen - 1
    BY <1>0, AtIs
  <2> QED
    BY <2>1 DEF TxSlot
<1> HIDE DEF T
<1>2. Run(d, TxLen, T) = IF r = 0 THEN TxLen ELSE u - r
  <2>1. CASE r = 0
    <3>1. \A k \in 1..TxLen : At(d, TxLen, k) \in T
      BY <1>0, <1>a, <2>1
    <3> QED
      BY <1>0, <2>1, <3>1, RunIs
  <2>2. CASE r # 0
    <3>1. u - r \in 0..TxLen /\ u - r + 1 \in 1..TxLen /\ u - r < TxLen
      BY <1>0, <2>2
    <3>2. \A k \in 1..u - r : At(d, TxLen, k) \in T
      BY <1>0, <1>a
    <3>3. At(d, TxLen, u - r + 1) \notin T
      BY <1>0, <1>a, <2>2, <3>1
    <3>4. Run(d, TxLen, T) = u - r
      BY <1>0, <3>1, <3>2, <3>3, RunIs
    <3> QED
      BY <2>2, <3>4
  <2> QED
    BY <2>1, <2>2
<1>3. Min({u, Run(d, TxLen, T)}) = u - r
  <2> DEFINE M == {u, Run(d, TxLen, T)}
  <2>1. M \in SUBSET Int /\ u - r \in M /\ \A y \in M : u - r <= y
    BY <1>0, <1>2
  <2> HIDE DEF M
  <2>2. Min(M) = u - r
    BY <2>1, MinIs
  <2> QED
    BY <2>2 DEF M
<1>4. Sending(ring, d, u) = [k \in 1..u - (u - r) |-> ring[At(d, TxLen, (u - r) + k)].frame]
  BY <1>3 DEF Sending, T
<1>5. 1..u - (u - r) = 1..r
  BY <1>0
<1>6. \A k \in 1..r : ring[At(d, TxLen, (u - r) + k)].frame \in Kind
  <2>1. \A k \in 1..r : (u - r) + k \in 1..TxLen /\ u - r < (u - r) + k /\ (u - r) + k <= u
    BY <1>0
  <2> QED
    BY <2>1 DEF SendingOK
<1>7. Sending(ring, d, u) = [k \in 1..r |-> ring[At(d, TxLen, (u - r) + k)].frame]
  BY <1>4, <1>5
<1> QED
  BY <1>0, <1>3, <1>6, <1>7 DEF T

\* The same of the frames alone.
HasSending(ring, d, u, r) ==
  /\ Sending(ring, d, u) \in Seq(Kind)
  /\ Len(Sending(ring, d, u)) = r
  /\ \A k \in 1..r : Sending(ring, d, u)[k] = ring[At(d, TxLen, u - r + k)].frame

LEMMA SendingHas ==
  ASSUME NEW ring \in TxRings, NEW d \in TxSlot, NEW u \in 0..TxLen, NEW r,
         SendingOK(ring, d, u, r)
  PROVE  HasSending(ring, d, u, r)
BY SendingIs DEF HasSending

\* What the properties call these channels.
LEMMA ChannelsAre ==
  /\ RxUnderWay = UnderWay(rx, drv.rx, rxq) /\ Filled = FilledIn(rx)
  /\ TxUnderWay = Sending(tx, drv.clean, drv.used) /\ TxOwned = OwnedIn(tx)
  /\ Done = Min({drv.used, Run(drv.clean, TxLen, TxSlot \ OwnedIn(tx))})
BY Zenon DEF RxUnderWay, UnderWay, Filled, FilledIn, TxUnderWay, Sending, TxOwned, OwnedIn, Done

-----------------------------------------------------------------------------
(* What the actions do to the rings.                                       *)

\* Past the end of the ring it goes on from the start.
LEMMA AtAround ==
  ASSUME NEW n \in Nat \ {0}, NEW d \in 0..n - 1, NEW c \in 0..n - 1, NEW k \in 1..n, c + k > n
  PROVE  At(At(d, n, c + 1), n, k) = At(d, n, c + k - n)
<1>1. At(d, n, c + 1) \in 0..n - 1
      /\ At(d, n, c + 1) = IF d + c < n THEN d + c ELSE d + c - n
  BY AtIs
<1> DEFINE j == At(d, n, c + 1)
           m == c + k - n
<1>m. m \in 1..n /\ m = c + k - n
  OBVIOUS
<1> HIDE DEF j, m
<1>b. j \in 0..n - 1 /\ k \in 1..n + 1 /\ m \in 1..n + 1
  BY <1>1, <1>m DEF j
<1>2. At(j, n, k) = IF j + k - 1 < n THEN j + k - 1 ELSE j + k - 1 - n
  BY <1>b, AtIs
<1>3. At(d, n, m) = IF d + m - 1 < n THEN d + m - 1 ELSE d + m - 1 - n
  BY <1>b, AtIs
<1>4. At(j, n, k) = At(d, n, m)
  BY <1>1, <1>2, <1>3, <1>m DEF j
<1> QED
  BY <1>4 DEF j, m

\* The place of the k-th slot from d on, seen from the slot after the first c.
LEMMA PlaceFrom ==
  ASSUME NEW n \in Nat \ {0}, NEW d \in 0..n - 1, NEW c \in 0..n, NEW k \in 1..n
  PROVE  LET p == ((At(d, n, k) + n - At(d, n, c + 1)) % n) + 1
         IN  p \in 1..n /\ (k > c => p = k - c) /\ (k <= c => p > n - c)
<1> DEFINE i == At(d, n, c + 1)
           s == At(d, n, k)
           p == ((s + n - i) % n) + 1
<1>1. i \in 0..n - 1 /\ s \in 0..n - 1
  BY AtIs
<1>a. \A m \in 1..n + 1 : c + m <= n + 1 => At(i, n, m) = At(d, n, c + m)
  BY AtAt
<1>b. s = At(d, n, k)
  OBVIOUS
<1> HIDE DEF i, s
<1>2. (s + n - i) % n \in 0..n - 1 /\ At(i, n, ((s + n - i) % n) + 1) = s
  BY <1>1, PlaceOf
<1>3. p \in 1..n /\ At(i, n, p) = s
  BY <1>2
<1> HIDE DEF p
<1>4. CASE k > c
  <2>1. k - c \in 1..n /\ c + (k - c) = k
    BY <1>4
  <2>2. At(i, n, k - c) = s
    BY <1>a, <1>b, <2>1
  <2>3. p = k - c
    BY <1>1, <1>3, <2>1, <2>2, AtUnique
  <2> QED
    BY <1>3, <1>4, <2>3 DEF p, i, s
<1>5. CASE k <= c
  <2>1. ASSUME p <= n - c PROVE FALSE
    <3>1. c + p \in 1..n /\ p \in 1..n + 1 /\ c + p <= n + 1
      BY <1>3, <2>1
    <3>2. At(d, n, c + p) = At(d, n, k)
      BY <1>a, <1>b, <1>3, <3>1
    <3>3. c + p = k
      BY <3>1, <3>2, AtUnique
    <3> QED
      BY <1>3, <1>5, <3>3
  <2>2. p > n - c
    BY <1>3, <2>1
  <2> QED
    BY <1>3, <1>5, <2>2 DEF p, i, s
<1> QED
  BY <1>4, <1>5

\* ProcessRxRing: the chip stores the first n frames of the queue.
FilledUp(ring, i, q, n) ==
  [s \in RxSlot |->
     IF ((s + RxLen - i) % RxLen) + 1 <= n
       THEN [own |-> FALSE, frame |-> Stored(q[((s + RxLen - i) % RxLen) + 1])] ELSE ring[s]]

\* What it makes of a ring with c slots filled from d on.
FillsUp(ring, new, d, c, q, n) ==
  /\ new \in RxRings /\ RingOK(new, d, c + n)
  /\ \A k \in 1..RxLen :
       new[At(d, RxLen, k)] = IF c < k /\ k <= c + n
                                THEN [own |-> FALSE, frame |-> Stored(q[k - c])]
                                ELSE ring[At(d, RxLen, k)]

\* It fills the slots behind the filled ones, and touches no other.
LEMMA Fills ==
  ASSUME NEW ring \in RxRings, NEW d \in RxSlot, NEW c, RingOK(ring, d, c), NEW q \in Seq(Queued),
         NEW n \in 0..Len(q), c + n <= RxLen
  PROVE  FillsUp(ring, FilledUp(ring, At(d, RxLen, c + 1), q, n), d, c, q, n)
<1> DEFINE i == At(d, RxLen, c + 1)
           new == FilledUp(ring, i, q, n)
           P(s) == ((s + RxLen - i) % RxLen) + 1
<1>0. RxLen \in Nat \ {0} /\ d \in 0..RxLen - 1 /\ c \in 0..RxLen /\ RxSlot = 0..RxLen - 1
      /\ Len(q) \in Nat /\ n \in Nat
  BY RingAssumption DEF RxSlot, RingOK
<1>1. i \in 0..RxLen - 1
  BY <1>0, AtIs
<1>2. \A k \in 1..RxLen : /\ At(d, RxLen, k) \in RxSlot
                          /\ P(At(d, RxLen, k)) \in 1..RxLen
                          /\ k > c => P(At(d, RxLen, k)) = k - c
                          /\ k <= c => P(At(d, RxLen, k)) > RxLen - c
  <2> SUFFICES ASSUME NEW k \in 1..RxLen
               PROVE  /\ At(d, RxLen, k) \in RxSlot
                      /\ P(At(d, RxLen, k)) \in 1..RxLen
                      /\ k > c => P(At(d, RxLen, k)) = k - c
                      /\ k <= c => P(At(d, RxLen, k)) > RxLen - c
    OBVIOUS
  <2>1. k \in 1..RxLen + 1
    BY <1>0
  <2>2. At(d, RxLen, k) \in RxSlot
    BY <1>0, <2>1, AtIs
  <2> QED
    BY <1>0, <2>2, PlaceFrom, Zenon
<1>3. \A s \in RxSlot : P(s) \in 1..RxLen
  <2> HIDE DEF i
  <2>1. \A s \in RxSlot : (s + RxLen - i) % RxLen \in 0..RxLen - 1
    <3> SUFFICES ASSUME NEW s \in RxSlot PROVE (s + RxLen - i) % RxLen \in 0..RxLen - 1
      OBVIOUS
    <3> QED
      BY <1>0, <1>1, PlaceOf, Zenon
  <2>2. \A x \in 0..RxLen - 1 : x + 1 \in 1..RxLen
    BY <1>0
  <2> QED
    BY <2>1, <2>2, Zenon
<1>4. new = [s \in RxSlot |-> IF P(s) <= n THEN [own |-> FALSE, frame |-> Stored(q[P(s)])]
                              ELSE ring[s]]
  BY DEF FilledUp
<1> HIDE DEF new, P, i
<1>5. ASSUME NEW m \in 1..n PROVE Stored(q[m]) \in RxItem
  <2>1. q[m] \in Queued
    BY <1>0
  <2> QED
    BY <2>1, StoredIs
<1>6. new \in RxRings
  <2>1. ASSUME NEW s \in RxSlot PROVE new[s] \in [own : BOOLEAN, frame : RxItem \cup {None}]
    <3>1. CASE P(s) <= n
      <4>1. P(s) \in 1..n
        BY <1>0, <1>3, <3>1
      <4>2. Stored(q[P(s)]) \in RxItem
        BY <1>5, <4>1
      <4> QED
        BY <1>4, <3>1, <4>2
    <3>2. CASE ~ (P(s) <= n)
      <4>1. new[s] = ring[s]
        BY <1>4, <3>2
      <4> QED
        BY <4>1 DEF RxRings
    <3> QED
      BY <3>1, <3>2
  <2> QED
    BY <1>4, <2>1 DEF RxRings
<1>7. ASSUME NEW k \in 1..RxLen
      PROVE  new[At(d, RxLen, k)] = IF c < k /\ k <= c + n
                                      THEN [own |-> FALSE, frame |-> Stored(q[k - c])]
                                      ELSE ring[At(d, RxLen, k)]
  <2> DEFINE s == At(d, RxLen, k)
  <2>1. s \in RxSlot /\ P(s) \in 1..RxLen /\ (k > c => P(s) = k - c) /\ (k <= c => P(s) > RxLen - c)
    BY <1>2
  <2> HIDE DEF s
  <2>2. new[s] = IF P(s) <= n THEN [own |-> FALSE, frame |-> Stored(q[P(s)])] ELSE ring[s]
    BY <1>4, <2>1
  <2>3. CASE c < k /\ k <= c + n
    <3>1. P(s) = k - c /\ P(s) <= n
      BY <1>0, <2>1, <2>3
    <3> QED
      BY <2>2, <2>3, <3>1 DEF s
  <2>4. CASE ~ (c < k /\ k <= c + n)
    <3>1. ~ (P(s) <= n)
      BY <1>0, <2>1, <2>4
    <3> QED
      BY <2>2, <2>4, <3>1 DEF s
  <2> QED
    BY <2>3, <2>4
<1>8. RingOK(new, d, c + n)
  <2>1. ASSUME NEW k \in 1..RxLen PROVE At(d, RxLen, k) \in FilledIn(new) <=> k <= c + n
    <3> DEFINE s == At(d, RxLen, k)
    <3>1. s \in RxSlot
      BY <1>2
    <3>2. s \in FilledIn(ring) <=> k <= c
      BY DEF RingOK
    <3>3. /\ c < k /\ k <= c + n => new[s] = [own |-> FALSE, frame |-> Stored(q[k - c])]
          /\ ~ (c < k /\ k <= c + n) => new[s] = ring[s]
      BY <1>7
    <3> HIDE DEF s
    <3>4. CASE c < k /\ k <= c + n
      <4>1. k - c \in 1..n
        BY <1>0, <3>4
      <4>2. Stored(q[k - c]) # None
        BY <1>5, <4>1, NotNone
      <4>3. ~ new[s].own /\ new[s].frame # None
        BY <3>3, <3>4, <4>2
      <4> QED
        BY <3>1, <3>4, <4>3 DEF FilledIn, s
    <3>5. CASE ~ (c < k /\ k <= c + n)
      <4>1. s \in FilledIn(new) <=> s \in FilledIn(ring)
        BY <3>1, <3>3, <3>5 DEF FilledIn
      <4>2. k <= c <=> k <= c + n
        BY <1>0, <3>5
      <4> QED
        BY <3>2, <4>1, <4>2 DEF s
    <3> QED
      BY <3>4, <3>5
  <2> QED
    BY <1>0, <2>1 DEF RingOK
<1> QED
  BY <1>6, <1>7, <1>8 DEF new, i, FillsUp

\* In ring new, emptied from slot e on, the first frame of ring is gone.
GivenBack(ring, d, c, new, e) ==
  /\ new \in RxRings /\ e \in RxSlot /\ RingOK(new, e, c - 1)
  /\ \A k \in 1..RxLen - 1 : new[At(e, RxLen, k)] = ring[At(d, RxLen, k + 1)]
  /\ new[At(e, RxLen, RxLen)] = [own |-> TRUE, frame |-> None]
  /\ At(e, RxLen, (c - 1) + 1) = At(d, RxLen, c + 1)

\* The driver empties the first slot and gives it back.
LEMMA GivesBack ==
  ASSUME NEW ring \in RxRings, NEW d \in RxSlot, NEW c, RingOK(ring, d, c), c > 0
  PROVE  GivenBack(ring, d, c, [ring EXCEPT ![d] = [own |-> TRUE, frame |-> None]], At(d, RxLen, 2))
<1> DEFINE back == [own |-> TRUE, frame |-> None]
           new  == [ring EXCEPT ![d] = back]
           e    == At(d, RxLen, 2)
<1>0. RxLen \in Nat \ {0} /\ d \in 0..RxLen - 1 /\ c \in 1..RxLen /\ RxSlot = 0..RxLen - 1
  BY RingAssumption DEF RxSlot, RingOK
<1>1. e \in RxSlot
  BY <1>0, AtIs
<1>2. At(d, RxLen, 1) = d /\ At(d, RxLen, RxLen + 1) = d
  <2>1. 1 \in 1..RxLen + 1 /\ RxLen + 1 \in 1..RxLen + 1
    BY <1>0
  <2>2. At(d, RxLen, 1) = IF d + 1 - 1 < RxLen THEN d + 1 - 1 ELSE d + 1 - 1 - RxLen
    BY <1>0, <2>1, AtIs
  <2>3. At(d, RxLen, RxLen + 1) = IF d + (RxLen + 1) - 1 < RxLen THEN d + (RxLen + 1) - 1
                                  ELSE d + (RxLen + 1) - 1 - RxLen
    BY <1>0, <2>1, AtIs
  <2> QED
    BY <1>0, <2>2, <2>3
<1>3. \A k \in 1..RxLen : At(e, RxLen, k) = At(d, RxLen, 1 + k)
  <2> SUFFICES ASSUME NEW k \in 1..RxLen PROVE At(e, RxLen, k) = At(d, RxLen, 1 + k)
    OBVIOUS
  <2>1. 1 \in 0..RxLen /\ k \in 1..RxLen + 1 /\ 1 + k <= RxLen + 1
    BY <1>0
  <2>2. At(At(d, RxLen, 1 + 1), RxLen, k) = At(d, RxLen, 1 + k)
    BY <1>0, <2>1, AtAt
  <2> QED
    BY <2>2
<1>4. \A k \in 1..RxLen : At(d, RxLen, k) \in RxSlot /\ (At(d, RxLen, k) = d => k = 1)
  <2> SUFFICES ASSUME NEW k \in 1..RxLen
               PROVE  At(d, RxLen, k) \in RxSlot /\ (At(d, RxLen, k) = d => k = 1)
    OBVIOUS
  <2>1. 1 \in 1..RxLen /\ k \in 1..RxLen + 1
    BY <1>0
  <2> QED
    <3>1. At(d, RxLen, k) \in 0..RxLen - 1
      BY <1>0, <2>1, AtIs
    <3>2. At(d, RxLen, k) = At(d, RxLen, 1) => k = 1
      BY <1>0, <2>1, AtUnique
    <3> QED
      BY <1>0, <1>2, <3>1, <3>2
<1> HIDE DEF e
<1>5. new \in RxRings
  BY DEF RxRings
<1>6. new[d] = back /\ \A s \in RxSlot : s # d => new[s] = ring[s]
  BY DEF RxRings
<1> HIDE DEF new
<1>7. ASSUME NEW k \in 1..RxLen - 1
      PROVE  At(e, RxLen, k) \in RxSlot /\ new[At(e, RxLen, k)] = ring[At(d, RxLen, k + 1)]
  <2>1. k \in 1..RxLen /\ k + 1 \in 1..RxLen /\ k + 1 # 1 /\ 1 + k = k + 1
    BY <1>0
  <2>2. At(d, RxLen, k + 1) \in RxSlot /\ At(d, RxLen, k + 1) # d
    BY <1>4, <2>1
  <2>3. At(e, RxLen, k) = At(d, RxLen, k + 1)
    BY <1>3, <2>1
  <2> QED
    BY <1>6, <2>2, <2>3
<1>8. At(e, RxLen, RxLen) = d
  <2>1. RxLen \in 1..RxLen /\ 1 + RxLen = RxLen + 1
    BY <1>0
  <2> QED
    BY <1>2, <1>3, <2>1
<1>9. RingOK(new, e, c - 1)
  <2>1. ASSUME NEW k \in 1..RxLen PROVE At(e, RxLen, k) \in FilledIn(new) <=> k <= c - 1
    <3>1. CASE k = RxLen
      <4>1. At(e, RxLen, k) \notin FilledIn(new)
        BY <1>6, <1>8, <3>1 DEF FilledIn
      <4> QED
        BY <1>0, <3>1, <4>1
    <3>2. CASE k # RxLen
      <4>1. k \in 1..RxLen - 1 /\ k + 1 \in 1..RxLen
        BY <1>0, <3>2
      <4>2. At(e, RxLen, k) = At(d, RxLen, k + 1) /\ At(e, RxLen, k) \in RxSlot
            /\ new[At(e, RxLen, k)] = ring[At(d, RxLen, k + 1)]
        <5>1. 1 + k = k + 1
          BY <4>1
        <5> QED
          BY <1>3, <1>7, <4>1, <5>1
      <4>3. At(d, RxLen, k + 1) \in FilledIn(ring) <=> k + 1 <= c
        BY <4>1 DEF RingOK
      <4>4. At(e, RxLen, k) \in FilledIn(new) <=> At(d, RxLen, k + 1) \in FilledIn(ring)
        BY <4>2 DEF FilledIn
      <4> QED
        BY <1>0, <4>3, <4>4
    <3> QED
      BY <3>1, <3>2
  <2> QED
    BY <1>0, <2>1 DEF RingOK
<1>10. At(e, RxLen, (c - 1) + 1) = At(d, RxLen, c + 1)
  <2>1. (c - 1) + 1 = c /\ 1 + c = c + 1 /\ c \in 1..RxLen
    BY <1>0
  <2> QED
    BY <1>3, <2>1
<1> QED
  BY <1>1, <1>5, <1>6, <1>7, <1>8, <1>9, <1>10 DEF new, e, GivenBack

\* ProcessTxRing: the chip is done with n slots.
SentFrom(ring, i, n) ==
  [s \in TxSlot |->
     IF (s + TxLen - i) % TxLen < n THEN [ring[s] EXCEPT !.own = FALSE] ELSE ring[s]]

\* It leaves the slots to the driver, and none to itself.
LEMMA Sends ==
  ASSUME NEW ring \in TxRings, NEW d \in TxSlot, NEW u \in 0..TxLen, NEW r,
         SendingOK(ring, d, u, r)
  PROVE  LET new == SentFrom(ring, At(d, TxLen, u - r + 1), r)
         IN  new \in TxRings /\ SendingOK(new, d, u, 0)
<1> DEFINE i == At(d, TxLen, u - r + 1)
           new == SentFrom(ring, i, r)
           P(s) == (s + TxLen - i) % TxLen
<1>0. TxLen \in Nat \ {0} /\ d \in 0..TxLen - 1 /\ r \in 0..u /\ TxSlot = 0..TxLen - 1
  BY RingAssumption DEF TxSlot, SendingOK
<1>1. \A k \in 1..TxLen : /\ At(d, TxLen, k) \in TxSlot
                          /\ P(At(d, TxLen, k)) + 1 \in 1..TxLen
                          /\ k > u - r => P(At(d, TxLen, k)) + 1 = k - (u - r)
                          /\ k <= u - r => P(At(d, TxLen, k)) + 1 > TxLen - (u - r)
  <2> SUFFICES ASSUME NEW k \in 1..TxLen
               PROVE  /\ At(d, TxLen, k) \in TxSlot
                      /\ P(At(d, TxLen, k)) + 1 \in 1..TxLen
                      /\ k > u - r => P(At(d, TxLen, k)) + 1 = k - (u - r)
                      /\ k <= u - r => P(At(d, TxLen, k)) + 1 > TxLen - (u - r)
    OBVIOUS
  <2>1. k \in 1..TxLen + 1 /\ u - r \in 0..TxLen
    BY <1>0
  <2>2. At(d, TxLen, k) \in TxSlot
    BY <1>0, <2>1, AtIs
  <2>3. LET p == ((At(d, TxLen, k) + TxLen - At(d, TxLen, u - r + 1)) % TxLen) + 1
        IN  p \in 1..TxLen /\ (k > u - r => p = k - (u - r)) /\ (k <= u - r => p > TxLen - (u - r))
    BY <1>0, <2>1, PlaceFrom, Zenon
  <2> QED
    BY <2>2, <2>3, Zenon
<1>2. \A s \in TxSlot : P(s) \in 0..TxLen - 1
  <2>1. u - r + 1 \in 1..TxLen + 1
    BY <1>0
  <2>2. i \in 0..TxLen - 1
    BY <1>0, <2>1, AtIs
  <2> HIDE DEF i
  <2> SUFFICES ASSUME NEW s \in TxSlot PROVE (s + TxLen - i) % TxLen \in 0..TxLen - 1
    OBVIOUS
  <2> QED
    BY <1>0, <2>2, PlaceOf, Zenon
<1>3. new = [s \in TxSlot |-> IF P(s) < r THEN [ring[s] EXCEPT !.own = FALSE] ELSE ring[s]]
  BY DEF SentFrom
<1> HIDE DEF new, P, i
<1>4. new \in TxRings
  <2>1. \A s \in TxSlot : ring[s] \in [own : BOOLEAN, frame : Kind \cup {None}]
    BY DEF TxRings
  <2>2. \A s \in TxSlot :
          [ring[s] EXCEPT !.own = FALSE] \in [own : BOOLEAN, frame : Kind \cup {None}]
    BY <2>1
  <2>3. \A s \in TxSlot : new[s] \in [own : BOOLEAN, frame : Kind \cup {None}]
    BY <1>3, <2>1, <2>2
  <2> QED
    BY <1>3, <2>3 DEF TxRings
<1>5. ASSUME NEW k \in 1..TxLen PROVE At(d, TxLen, k) \notin OwnedIn(new)
  <2> DEFINE s == At(d, TxLen, k)
  <2>1. s \in TxSlot /\ P(s) + 1 \in 1..TxLen /\ (k > u - r => P(s) + 1 = k - (u - r))
        /\ P(s) \in 0..TxLen - 1
    BY <1>1, <1>2
  <2>2. s \in OwnedIn(ring) => u - r < k /\ k <= u
    BY DEF SendingOK
  <2> HIDE DEF s
  <2>3. new[s] = IF P(s) < r THEN [ring[s] EXCEPT !.own = FALSE] ELSE ring[s]
    BY <1>3, <2>1
  <2>4. ring[s] \in [own : BOOLEAN, frame : Kind \cup {None}]
    BY <2>1 DEF TxRings
  <2>5. CASE P(s) < r
    <3>1. ~ new[s].own
      BY <2>3, <2>4, <2>5
    <3> QED
      BY <3>1 DEF OwnedIn, s
  <2>6. CASE ~ (P(s) < r)
    <3>1. ~ (u - r < k /\ k <= u)
      BY <1>0, <2>1, <2>6
    <3>2. new[s] = ring[s] /\ s \notin OwnedIn(ring)
      BY <2>2, <2>3, <2>6, <3>1
    <3> QED
      BY <2>1, <3>2 DEF OwnedIn, s
  <2> QED
    BY <2>5, <2>6
<1>6. SendingOK(new, d, u, 0)
  <2>1. \A k \in 1..TxLen : ~ (u - 0 < k /\ k <= u)
    BY <1>0
  <2>2. 0 \in 0..u
    BY <1>0
  <2> QED
    BY <1>5, <2>1, <2>2 DEF SendingOK
<1> QED
  BY <1>4, <1>6 DEF new, i

\* The driver hands over one more frame.
LEMMA HandsOver ==
  ASSUME NEW ring \in TxRings, NEW d \in TxSlot, NEW u \in 0..TxLen, NEW r, u < TxLen,
         SendingOK(ring, d, u, r), NEW f \in Kind
  PROVE  LET t   == At(d, TxLen, u + 1)
             new == [ring EXCEPT ![t] = [own |-> TRUE, frame |-> f]]
         IN  /\ t \in TxSlot /\ At(t, TxLen, 2) = At(d, TxLen, u + 2) /\ At(t, TxLen, 2) \in TxSlot
             /\ new \in TxRings /\ SendingOK(new, d, u + 1, r + 1)
             /\ new[t] = [own |-> TRUE, frame |-> f]
             /\ \A k \in 1..u : new[At(d, TxLen, k)] = ring[At(d, TxLen, k)]
<1> DEFINE t   == At(d, TxLen, u + 1)
           new == [ring EXCEPT ![t] = [own |-> TRUE, frame |-> f]]
<1>0. TxLen \in Nat \ {0} /\ d \in 0..TxLen - 1 /\ r \in 0..u /\ TxSlot = 0..TxLen - 1
      /\ u + 1 \in 1..TxLen /\ u + 2 \in 1..TxLen + 1
  BY RingAssumption DEF TxSlot, SendingOK
<1>1. ASSUME NEW k \in 1..TxLen
      PROVE  At(d, TxLen, k) \in TxSlot /\ (At(d, TxLen, k) = t => k = u + 1)
  <2>1. k \in 1..TxLen + 1
    BY <1>0
  <2> QED
    BY <1>0, <2>1, AtIs, AtUnique
<1>2. t \in TxSlot
  BY <1>0, <1>1
<1>3. At(t, TxLen, 2) = At(d, TxLen, u + 2) /\ At(t, TxLen, 2) \in TxSlot
  <2>1. 2 \in 1..TxLen + 1 /\ u \in 0..TxLen /\ u + 2 <= TxLen + 1
    BY <1>0
  <2>2. At(t, TxLen, 2) = At(d, TxLen, u + 2)
    BY <1>0, <2>1, AtAt
  <2>3. At(t, TxLen, 2) \in 0..TxLen - 1
    BY <1>0, <1>2, <2>1, AtIs
  <2> QED
    BY <1>0, <2>2, <2>3
<1>t. t = At(d, TxLen, u + 1)
  OBVIOUS
<1> HIDE DEF t
<1>4. new \in TxRings
  BY DEF TxRings
<1>5. new[t] = [own |-> TRUE, frame |-> f] /\ \A s \in TxSlot : s # t => new[s] = ring[s]
  BY <1>2 DEF TxRings
<1> HIDE DEF new
<1>6. ASSUME NEW k \in 1..TxLen, k # u + 1 PROVE new[At(d, TxLen, k)] = ring[At(d, TxLen, k)]
  <2>1. At(d, TxLen, k) \in TxSlot /\ At(d, TxLen, k) # t
    BY <1>1, <1>6
  <2> QED
    BY <1>5, <2>1
<1>7. ASSUME NEW k \in 1..TxLen
      PROVE  /\ At(d, TxLen, k) \in OwnedIn(new) <=> (u + 1) - (r + 1) < k /\ k <= u + 1
             /\ (u + 1) - (r + 1) < k /\ k <= u + 1 => new[At(d, TxLen, k)].frame \in Kind
  <2>1. CASE k = u + 1
    <3>1. At(d, TxLen, k) \in OwnedIn(new) /\ new[At(d, TxLen, k)].frame \in Kind
      BY <1>2, <1>5, <1>t, <2>1 DEF OwnedIn
    <3>2. (u + 1) - (r + 1) < k /\ k <= u + 1
      BY <1>0, <2>1
    <3> QED
      BY <3>1, <3>2
  <2>2. CASE k # u + 1
    <3>1. new[At(d, TxLen, k)] = ring[At(d, TxLen, k)]
      BY <1>6, <2>2
    <3>2. At(d, TxLen, k) \in OwnedIn(new) <=> At(d, TxLen, k) \in OwnedIn(ring)
      BY <3>1 DEF OwnedIn
    <3>3. /\ At(d, TxLen, k) \in OwnedIn(ring) <=> u - r < k /\ k <= u
          /\ u - r < k /\ k <= u => ring[At(d, TxLen, k)].frame \in Kind
      BY DEF SendingOK
    <3>4. ((u + 1) - (r + 1) < k /\ k <= u + 1) <=> (u - r < k /\ k <= u)
      BY <1>0, <2>2
    <3> QED
      BY <3>1, <3>2, <3>3, <3>4
  <2> QED
    BY <2>1, <2>2
<1>8. SendingOK(new, d, u + 1, r + 1)
  <2>1. r + 1 \in 0..u + 1
    BY <1>0
  <2> QED
    BY <1>7, <2>1 DEF SendingOK
<1>9. \A k \in 1..u : new[At(d, TxLen, k)] = ring[At(d, TxLen, k)]
  <2>1. \A k \in 1..u : k \in 1..TxLen /\ k # u + 1
    BY <1>0
  <2> QED
    BY <1>6, <2>1
<1> QED
  BY <1>2, <1>3, <1>4, <1>5, <1>8, <1>9 DEF t, new

\* The driver cleans all slots the chip is done with.
LEMMA Cleans ==
  ASSUME NEW ring \in TxRings, NEW d \in TxSlot, NEW u \in 0..TxLen, NEW r,
         SendingOK(ring, d, u, r)
  PROVE  LET e == At(d, TxLen, u - r + 1)
         IN  /\ e \in TxSlot /\ SendingOK(ring, e, r, r)
             /\ \A k \in 1..r : At(e, TxLen, k) = At(d, TxLen, u - r + k)
             /\ At(e, TxLen, r - r + 1) = e
             /\ At(e, TxLen, r + 1) = At(d, TxLen, u + 1)
<1> DEFINE e == At(d, TxLen, u - r + 1)
           c == u - r
<1>0. TxLen \in Nat \ {0} /\ d \in 0..TxLen - 1 /\ r \in 0..u /\ TxSlot = 0..TxLen - 1
      /\ c \in 0..TxLen /\ c + 1 \in 1..TxLen + 1 /\ c + r = u
  BY RingAssumption DEF TxSlot, SendingOK
<1>1. e \in TxSlot
  BY <1>0, AtIs
<1>2. ASSUME NEW k \in 1..TxLen + 1, c + k <= TxLen + 1 PROVE At(e, TxLen, k) = At(d, TxLen, c + k)
  BY <1>0, <1>2, AtAt
<1>3. ASSUME NEW k \in 1..TxLen, c + k > TxLen
      PROVE  At(e, TxLen, k) = At(d, TxLen, c + k - TxLen) \/ c = TxLen
  <2>1. c # TxLen => c \in 0..TxLen - 1
    BY <1>0
  <2> QED
    BY <1>0, <1>3, <2>1, AtAround
<1>4. \A k \in 1..r : At(e, TxLen, k) = At(d, TxLen, c + k)
  <2> SUFFICES ASSUME NEW k \in 1..r PROVE At(e, TxLen, k) = At(d, TxLen, c + k)
    OBVIOUS
  <2>1. k \in 1..TxLen + 1 /\ c + k <= TxLen + 1
    BY <1>0
  <2> QED
    BY <1>2, <2>1
<1>5. At(e, TxLen, r + 1) = At(d, TxLen, u + 1)
  <2>1. r + 1 \in 1..TxLen + 1 /\ c + (r + 1) <= TxLen + 1 /\ c + (r + 1) = u + 1
    BY <1>0
  <2> QED
    BY <1>2, <2>1
<1>6. At(e, TxLen, r - r + 1) = e
  <2>1. r - r + 1 = 1 /\ 1 \in 1..TxLen + 1 /\ c + 1 <= TxLen + 1
    BY <1>0
  <2> QED
    BY <1>2, <2>1
<1>x. e = At(d, TxLen, c + 1) /\ c = u - r
  OBVIOUS
<1> HIDE DEF e, c
<1>7. ASSUME NEW k \in 1..TxLen
      PROVE  /\ At(e, TxLen, k) \in OwnedIn(ring) <=> r - r < k /\ k <= r
             /\ r - r < k /\ k <= r => ring[At(e, TxLen, k)].frame \in Kind
  <2>1. CASE k <= r
    <3>1. c + k \in 1..TxLen /\ u - r < c + k /\ c + k <= u /\ k \in 1..r
      BY <1>0, <1>x, <2>1
    <3>2. At(d, TxLen, c + k) \in OwnedIn(ring) /\ ring[At(d, TxLen, c + k)].frame \in Kind
      BY <3>1 DEF SendingOK
    <3> QED
      BY <1>0, <1>4, <2>1, <3>1, <3>2
  <2>2. CASE k > r /\ c + k <= TxLen
    <3>1. c + k \in 1..TxLen /\ ~ (u - r < c + k /\ c + k <= u)
          /\ k \in 1..TxLen + 1 /\ c + k <= TxLen + 1
      BY <1>0, <1>x, <2>2
    <3>2. At(d, TxLen, c + k) \notin OwnedIn(ring)
      BY <3>1 DEF SendingOK
    <3> QED
      BY <1>0, <1>2, <2>2, <3>1, <3>2
  <2>3. CASE k > r /\ c + k > TxLen /\ c # TxLen
    <3>1. c + k - TxLen \in 1..TxLen /\ ~ (u - r < c + k - TxLen /\ c + k - TxLen <= u)
      BY <1>0, <1>x, <2>3
    <3>2. At(d, TxLen, c + k - TxLen) \notin OwnedIn(ring)
      BY <3>1 DEF SendingOK
    <3> QED
      BY <1>0, <1>3, <2>3, <3>2
  <2>4. CASE k > r /\ c = TxLen
    <3>1. \A m \in 1..TxLen : ~ (u - r < m /\ m <= u)
      BY <1>0, <1>x, <2>4
    <3>2. \A m \in 1..TxLen : At(d, TxLen, m) \notin OwnedIn(ring)
      BY <3>1 DEF SendingOK
    <3>3. At(e, TxLen, k) \notin OwnedIn(ring)
      <4>1. At(e, TxLen, k) \in TxSlot
        <5>1. k \in 1..TxLen + 1
          BY <1>0
        <5> QED
          BY <1>0, <1>1, <5>1, AtIs
      <4> DEFINE s == At(e, TxLen, k)
                 m == ((s + TxLen - d) % TxLen) + 1
      <4>s. s \in 0..TxLen - 1
        BY <1>0, <4>1
      <4>t. s = At(e, TxLen, k)
        OBVIOUS
      <4> HIDE DEF s
      <4>2. (s + TxLen - d) % TxLen \in 0..TxLen - 1 /\ At(d, TxLen, m) = s
        BY <1>0, <4>s, PlaceOf
      <4>3. m \in 1..TxLen
        BY <1>0, <4>2
      <4> HIDE DEF m
      <4> QED
        BY <3>2, <4>2, <4>3, <4>t
    <3> QED
      BY <1>0, <2>4, <3>3
  <2> QED
    BY <1>0, <2>1, <2>2, <2>3, <2>4
<1>8. SendingOK(ring, e, r, r)
  <2>1. r \in 0..r
    BY <1>0
  <2> QED
    BY <1>7, <2>1 DEF SendingOK
<1> QED
  BY <1>1, <1>4, <1>5, <1>6, <1>8 DEF e, c

-----------------------------------------------------------------------------
(* The network's answers.                                                  *)

\* From zero upwards, one step after the other.
LEMMA Climbs ==
  ASSUME NEW n \in Nat, NEW S, 0 \in S, \A m \in 0..n - 1 : m \in S => m + 1 \in S
  PROVE  \A m \in 0..n : m \in S
<1> DEFINE T == {m \in 0..n : m \notin S}
           R == OpToRel(<, Nat)
<1> SUFFICES ASSUME T # {} PROVE FALSE
  OBVIOUS
<1>1. T \in SUBSET Nat
  OBVIOUS
<1>2. IsWellFoundedOn(R, Nat)
  BY NatLessThanWellFounded
<1>3. \A x, y \in Nat : y < x => <<y, x>> \in R
  <2> SUFFICES ASSUME NEW x \in Nat, NEW y \in Nat, y < x PROVE <<y, x>> \in R
    OBVIOUS
  <2> DEFINE ss == <<y, x>>
  <2>1. ss \in Nat \X Nat /\ ss[1] = y /\ ss[2] = x
    OBVIOUS
  <2> HIDE DEF ss
  <2>2. ss \in R
    BY <2>1 DEF OpToRel
  <2> QED
    BY <2>2 DEF ss
<1> HIDE DEF R
<1>4. \E x \in T : \A y \in T : ~ (<<y, x>> \in R)
  <2> HIDE DEF T
  <2> QED
    BY <1>1, <1>2, WFMin
<1>5. PICK x \in T : \A y \in T : ~ (<<y, x>> \in R)
  BY <1>4
<1>6. x \in 1..n /\ x - 1 \in 0..n - 1 /\ (x - 1) + 1 = x /\ x \notin S
  OBVIOUS
<1>7. x - 1 \in T
  BY <1>6
<1>8. <<x - 1, x>> \in R
  BY <1>1, <1>3, <1>6, <1>7
<1> QED
  BY <1>5, <1>7, <1>8

Turn(F, f, k) == IF k = 0 THEN [q |-> rxq, echo |-> echo] ELSE Handled(f[k - 1], F[k])

\* The recursion of Processed has a solution.
LEMMA ProcessedUnfolds ==
  ASSUME NEW F \in Seq(Kind)
  PROVE  \E f : \E m \in 0..Len(F) :
           Processed(F) = f[m] /\ \A k \in 0..Len(F) : f[k] = Turn(F, f, k)
<1> DEFINE n == Len(F)
           Upto(m) == \E f : \A k \in 0..m : f[k] = Turn(F, f, k)
           S == {m \in 0..n : Upto(m)}
           after == CHOOSE f : f = [k \in 0..n |-> Turn(F, f, k)]
<1>1. n \in Nat
  OBVIOUS
<1>2. Processed(F) = after[IF handler = "virtual" THEN n ELSE 0]
  BY DEF Processed, Turn
<1> HIDE DEF n
<1>3. Upto(0)
  <2> DEFINE f == [k \in {0} |-> [q |-> rxq, echo |-> echo]]
  <2>1. \A k \in 0..0 : f[k] = Turn(F, f, k)
    BY DEF Turn
  <2> QED
    BY <2>1
<1>4. ASSUME NEW m \in 0..n - 1, Upto(m) PROVE Upto(m + 1)
  <2>1. PICK f : \A k \in 0..m : f[k] = Turn(F, f, k)
    BY <1>4
  <2> DEFINE g == [k \in 0..n |-> IF k = m + 1 THEN Turn(F, f, k) ELSE f[k]]
  <2>2. ASSUME NEW k \in 0..m + 1 PROVE g[k] = Turn(F, g, k)
    <3>1. k \in 0..n /\ (k # 0 => k - 1 \in 0..n /\ k - 1 # m + 1)
      BY <1>1
    <3>2. k # 0 => g[k - 1] = f[k - 1]
      BY <3>1
    <3>3. Turn(F, g, k) = Turn(F, f, k)
      BY <3>2 DEF Turn
    <3>4. g[k] = IF k = m + 1 THEN Turn(F, f, k) ELSE f[k]
      BY <3>1
    <3> HIDE DEF g
    <3>5. k = m + 1 \/ k \in 0..m
      BY <1>1
    <3> QED
      BY <2>1, <3>3, <3>4, <3>5
  <2> QED
    BY <2>2
<1>5. Upto(n)
  <2> HIDE DEF Upto
  <2>1. 0 \in S /\ \A m \in 0..n - 1 : m \in S => m + 1 \in S
    BY <1>1, <1>3, <1>4
  <2> HIDE DEF S
  <2>2. \A m \in 0..n : m \in S
    BY <1>1, <2>1, Climbs
  <2>3. n \in S
    BY <1>1, <2>2
  <2> QED
    BY <2>3 DEF S
<1>6. \E g : g = [k \in 0..n |-> Turn(F, g, k)]
  <2>1. PICK f : \A k \in 0..n : f[k] = Turn(F, f, k)
    BY <1>5
  <2> DEFINE g == [k \in 0..n |-> f[k]]
  <2>2. ASSUME NEW k \in 0..n PROVE g[k] = Turn(F, g, k)
    <3>1. f[k] = Turn(F, f, k)
      BY <2>1
    <3>2. k # 0 => g[k - 1] = f[k - 1]
      BY <1>1
    <3>3. Turn(F, g, k) = Turn(F, f, k)
      BY <3>2 DEF Turn
    <3> QED
      BY <3>1, <3>3
  <2>3. g = [k \in 0..n |-> Turn(F, g, k)]
    BY <2>2
  <2> QED
    BY <2>3
<1>7. after = [k \in 0..n |-> Turn(F, after, k)]
  BY <1>6
<1> HIDE DEF after
<1>8. \A k \in 0..n : after[k] = Turn(F, after, k)
  BY <1>7
<1>9. (IF handler = "virtual" THEN n ELSE 0) \in 0..n
  BY <1>1
<1> QED
  BY <1>2, <1>8, <1>9 DEF n

\* The queue only grows, by frames for the guest.
Grown(q) ==
  q \in Seq(Queued) /\ Len(rxq) <= Len(q) /\ \A k \in 1..Len(rxq) : q[k] = rxq[k]

KeepsQueue(a) == \E q, e : a = [q |-> q, echo |-> e] /\ Grown(q)

\* The built-in network's answer to one frame is put behind the queue, if there
\* is one.
LEMMA HandledGrows ==
  ASSUME NEW a, KeepsQueue(a), NEW f \in Kind, rxq \in Seq(Queued)
  PROVE  KeepsQueue(Handled(a, f))
<1>0. PICK q, e : a = [q |-> q, echo |-> e] /\ Grown(q)
  BY DEF KeepsQueue
<1>1. CASE f \in Unanswered \/ (f \in OfConnection /\ a.echo = None)
  <2> DEFINE c == IF f = "rstEcho" THEN None ELSE e
  <2>1. Handled(a, f) = [q |-> q, echo |-> c]
    BY <1>0, <1>1 DEF Handled
  <2> QED
    BY <1>0, <2>1 DEF KeepsQueue
<1>2. CASE ~ (f \in Unanswered \/ (f \in OfConnection /\ a.echo = None))
  <2>1. f \in DOMAIN Reply
    BY <1>2, KindAssumption
  <2>2. Reply[f] \in Queued
    BY <2>1 DEF Queued
  <2>3. Grown(Append(q, Reply[f]))
    <3> DEFINE x == Reply[f]
    <3>1. x \in Queued /\ q \in Seq(Queued) /\ Len(q) \in Nat /\ Len(rxq) \in Nat
      BY <1>0, <2>2 DEF Grown
    <3> HIDE DEF x
    <3>2. Append(q, x) \in Seq(Queued) /\ Len(Append(q, x)) = Len(q) + 1
          /\ \A k \in 1..Len(q) : Append(q, x)[k] = q[k]
      BY <3>1
    <3>3. Grown(Append(q, x))
      BY <1>0, <3>1, <3>2 DEF Grown
    <3> QED
      BY <3>3 DEF x
  <2>4. \E c : Handled(a, f) = [q |-> Append(q, Reply[f]), echo |-> c]
    BY <1>0, <1>2 DEF Handled
  <2> QED
    BY <2>3, <2>4 DEF KeepsQueue
<1> QED
  BY <1>1, <1>2

\* ProcessPacket, called for one frame after the other, only adds to the queue.
LEMMA ProcessedGrows ==
  ASSUME NEW F \in Seq(Kind), rxq \in Seq(Queued)
  PROVE  Grown(Processed(F).q)
<1>1. PICK f : \E m \in 0..Len(F) : Processed(F) = f[m] /\ \A k \in 0..Len(F) : f[k] = Turn(F, f, k)
  BY ProcessedUnfolds
<1>2. PICK m \in 0..Len(F) : Processed(F) = f[m] /\ \A k \in 0..Len(F) : f[k] = Turn(F, f, k)
  BY <1>1
<1> DEFINE n == Len(F)
           S == {k \in 0..n : KeepsQueue(f[k])}
<1>3. n \in Nat /\ \A k \in 0..n : f[k] = Turn(F, f, k)
  BY <1>2
<1>x. m \in 0..n
  OBVIOUS
<1>y. \A k \in 1..n : F[k] \in Kind
  OBVIOUS
<1> HIDE DEF n
<1>4. KeepsQueue(f[0])
  <2>1. f[0] = [q |-> rxq, echo |-> echo]
    BY <1>3 DEF Turn
  <2>2. Grown(rxq)
    BY DEF Grown
  <2> QED
    BY <2>1, <2>2 DEF KeepsQueue
<1>5. ASSUME NEW k \in 0..n - 1, KeepsQueue(f[k]) PROVE KeepsQueue(f[k + 1])
  <2>1. k + 1 \in 1..n /\ k + 1 # 0 /\ (k + 1) - 1 = k
    BY <1>3
  <2>2. f[k + 1] = Handled(f[k], F[k + 1])
    BY <1>3, <2>1 DEF Turn
  <2>3. F[k + 1] \in Kind
    BY <1>y, <2>1
  <2> QED
    BY <1>5, <2>2, <2>3, HandledGrows
<1>6. 0 \in S /\ \A k \in 0..n - 1 : k \in S => k + 1 \in S
  BY <1>3, <1>4, <1>5
<1> HIDE DEF S
<1>7. \A k \in 0..n : k \in S
  BY <1>3, <1>6, Climbs
<1>8. KeepsQueue(f[m])
  BY <1>x, <1>7 DEF S
<1> QED
  BY <1>2, <1>8 DEF KeepsQueue

-----------------------------------------------------------------------------
(* The adapter.                                                            *)

\* A frame in front of a sequence, and what is left of it.
LEMMA FrontMoves ==
  ASSUME NEW S, NEW s \in Seq(S), NEW t \in Seq(S), t # <<>>
  PROVE  Append(s, Head(t)) \o Tail(t) = s \o t /\ Head(t) \in S /\ Tail(t) \in Seq(S)
<1>1. Tail(t) \in Seq(S) /\ Len(t) = Len(Tail(t)) + 1 /\ t[1] = Head(t) /\ Head(t) \in S
  BY HeadTailProperties
<1>2. \A k \in 1..Len(Tail(t)) : Tail(t)[k] = t[k + 1]
  BY HeadTailProperties
<1> DEFINE u == Tail(t)
<1> HIDE DEF u
<1>a. Rest(t, u)
  BY <1>1, <1>2 DEF Rest, u
<1>3. s \o t = Append(s, t[1]) \o u
  BY <1>1, <1>a, MovesOne DEF u
<1> QED
  BY <1>1, <1>3 DEF u

\* At the start all frames are on the wire.
LEMMA ReadingStarts == TapInit => Reading
<1> SUFFICES ASSUME TapInit PROVE Reading
  OBVIOUS
<1>1. Frames \in Seq(FrameSet)
  <2>1. {Frames[k] : k \in DOMAIN Frames} \ {None} \subseteq FrameSet
    BY DEF FrameSet
  <2> QED
    BY <2>1, FramesAssumption
<1>2. <<>> \o Frames = Frames
  BY <1>1
<1>3. /\ wire = Frames /\ reads = 0 /\ event = FALSE /\ pc = "reset" /\ queued = <<>>
  BY DEF TapInit
<1>4. wire \in Seq(FrameSet) /\ queued \in Seq(FrameSet) /\ reads \in Nat
  BY <1>1, <1>3
<1>5. queued \o wire = Frames
  BY <1>2, <1>3, Zenon
<1> QED
  BY <1>3, <1>4, <1>5, Zenon DEF Reading

\* ReadLoop loses no frame until it gives up a wait.
LEMMA ReadingKept ==
  ASSUME Reading, [MCNext]_vars
  PROVE  Reading'
<1>0. wire \in Seq(FrameSet) /\ queued \in Seq(FrameSet) /\ reads \in Nat
  BY DEF Reading
<1>1. CASE Reset
  <2>1. /\ pc = "reset" /\ pc' = "issue" /\ event' = FALSE /\ wire' = wire /\ reads' = reads
        /\ buffer' = buffer /\ queued' = queued /\ abandoned' = abandoned
    BY <1>1 DEF Reset
  <2>2. ~ abandoned => reads = 0 /\ queued \o wire = Frames
    BY <2>1 DEF Reading
  <2> QED
    BY <1>0, <2>1, <2>2, Zenon DEF Reading
<1>2. CASE Issue
  <2>1. /\ pc = "issue" /\ pc' = "wait" /\ event' = FALSE /\ wire' = wire /\ reads' = reads + 1
        /\ buffer' = buffer /\ queued' = queued /\ abandoned' = abandoned
    BY <1>2 DEF Issue
  <2>2. ~ abandoned => reads = 0 /\ queued \o wire = Frames
    BY <2>1 DEF Reading
  <2>3. reads' \in Nat /\ (reads = 0 => reads' = 1)
    BY <1>0, <2>1
  <2> QED
    BY <1>0, <2>1, <2>2, <2>3, Zenon DEF Reading
<1>3. CASE Complete
  <2>1. Append(queued, Head(wire)) \o Tail(wire) = queued \o wire
        /\ Head(wire) \in FrameSet /\ Tail(wire) \in Seq(FrameSet)
    BY <1>0, <1>3, FrontMoves DEF Complete
  <2>2. /\ wire' = Tail(wire) /\ buffer' = Head(wire) /\ reads' = reads - 1 /\ event' = TRUE
        /\ pc' = pc /\ queued' = queued /\ abandoned' = abandoned /\ reads > 0
    BY <1>3 DEF Complete
  <2>3. Append(queued', buffer') \o wire' = queued \o wire
    BY <2>1, <2>2
  <2>4. reads' \in Nat
    BY <1>0, <2>2
  <2>5. ~ abandoned => pc = "wait" /\ reads = 1 /\ queued \o wire = Frames
    BY <2>2 DEF Reading
  <2>a. reads = 1 => reads' = 0
    BY <2>2
  <2>6. ~ abandoned' => /\ pc' = "wait" /\ reads' = 0 /\ event'
                        /\ Append(queued', buffer') \o wire' = Frames
    BY <2>2, <2>3, <2>5, <2>a, Zenon
  <2>7. pc' \in {"reset", "issue", "wait"} /\ event' \in BOOLEAN
        /\ wire' \in Seq(FrameSet) /\ queued' \in Seq(FrameSet) /\ buffer' \in FrameSet
    BY <1>0, <2>1, <2>2 DEF Reading
  <2> QED
    BY <2>4, <2>6, <2>7 DEF Reading
<1>4. CASE WaitTimesOut
  BY <1>4 DEF WaitTimesOut, Reading
<1>5. CASE Queue
  <2>1. /\ pc = "wait" /\ event /\ pc' = "reset" /\ queued' = Append(queued, buffer)
        /\ wire' = wire /\ reads' = reads /\ buffer' = buffer /\ event' = event
        /\ abandoned' = abandoned
    BY <1>5 DEF Queue, Ready
  <2>2. buffer \in FrameSet
    BY <2>1 DEF Reading
  <2>3. queued' \in Seq(FrameSet)
    BY <1>0, <2>1, <2>2
  <2>4. ~ abandoned => reads = 0 /\ Append(queued, buffer) \o wire = Frames
    BY <2>1 DEF Reading
  <2>5. ~ abandoned' => pc' = "reset" /\ reads' = 0 /\ queued' \o wire' = Frames
    BY <2>1, <2>4
  <2> QED
    BY <1>0, <2>1, <2>2, <2>3, <2>5 DEF Reading
<1>6. CASE UNCHANGED tapVars
  BY <1>6 DEF tapVars, Reading
<1> QED
  BY <1>1, <1>2, <1>3, <1>4, <1>5, <1>6
     DEF MCNext, Ticks, Drives, TapQueues, TapRuns, TapStep, vars

-----------------------------------------------------------------------------
(* Steps of the channels.                                                  *)

RxStep == [RxFifo!Next]_<<RxUnderWay, drv.got, running>>

TxStep == [TxFifo!Next]_<<TxUnderWay, sent, running>>

\* Frames are put in at the end, or none.
LEMMA RxPuts ==
  ASSUME RxUnderWay \in Seq(RxItem), RxUnderWay' \in Seq(RxItem),
         Len(RxUnderWay) <= Len(RxUnderWay'),
         \A k \in 1..Len(RxUnderWay) : RxUnderWay[k] = RxUnderWay'[k],
         drv'.got = drv.got, running' = running
  PROVE  RxStep
<1> DEFINE s == RxUnderWay
           t == RxUnderWay'
<1>1. s \in Seq(RxItem) /\ t \in Seq(RxItem) /\ Len(s) <= Len(t) /\ \A k \in 1..Len(s) : s[k] = t[k]
  OBVIOUS
<1> HIDE DEF s, t
<1>2. Len(s) \in Nat /\ Len(t) \in Nat
  BY <1>1
<1>3. CASE Len(s) = Len(t)
  <2>1. s = t
    BY <1>1, <1>3, SameSequence
  <2> QED
    BY <2>1, Zenon DEF RxStep, s, t
<1>4. CASE Len(s) # Len(t)
  <2>1. Len(s) < Len(t)
    BY <1>1, <1>2, <1>4
  <2>2. SubSeq(s, 1, Len(s)) = SubSeq(t, 1, Len(s)) /\ s # t
    BY <1>1, <2>1, Extends
  <2>3. \A k \in Len(s) + 1..Len(t) : t[k] \in RxItem
    BY <1>1, <1>2
  <2>4. RxFifo!Put
    BY <1>1, <2>2, <2>3, Zenon DEF RxFifo!Put, RxFifo!IsStrictPrefix, RxFifo!IsPrefix, s, t
  <2> QED
    BY <2>4, Zenon DEF RxStep, RxFifo!Next
<1> QED
  BY <1>3, <1>4

\* The first element of s is taken to the end of o.
LEMMA TakesOne ==
  ASSUME NEW S, NEW o \in Seq(S), NEW s \in Seq(S), NEW t \in Seq(S), Rest(s, t)
  PROVE  LET p == Append(o, s[1])
         IN  /\ p \in Seq(S) /\ o \o s = p \o t
             /\ SubSeq(o, 1, Len(o)) = SubSeq(p, 1, Len(o)) /\ o # p /\ Len(o) <= Len(p)
<1> DEFINE p == Append(o, s[1])
<1>2. Len(s) \in Nat /\ Len(t) \in Nat /\ Len(o) \in Nat /\ Len(s) = Len(t) + 1
  BY DEF Rest
<1>3. s[1] \in S
  BY <1>2
<1>4. p \in Seq(S) /\ Len(p) = Len(o) + 1 /\ \A k \in 1..Len(o) : p[k] = o[k]
  BY <1>3
<1>5. o \o s = Append(o, s[1]) \o t
  BY MovesOne
<1>6. Len(o) < Len(p)
  BY <1>2, <1>4
<1>7. SubSeq(o, 1, Len(o)) = SubSeq(p, 1, Len(o)) /\ o # p /\ Len(o) <= Len(p)
  BY <1>4, <1>6, Extends
<1> QED
  BY <1>4, <1>5, <1>7

\* The oldest comes out.
LEMMA RxGets ==
  ASSUME RxUnderWay \in Seq(RxItem), RxUnderWay' \in Seq(RxItem),
         Rest(RxUnderWay, RxUnderWay'),
         drv.got \in Seq(RxItem), drv'.got = Append(drv.got, RxUnderWay[1]), running' = running
  PROVE  RxStep /\ drv'.got \in Seq(RxItem)
<1> DEFINE s == RxUnderWay
           t == RxUnderWay'
           o == drv.got
           p == drv'.got
<1>1. /\ s \in Seq(RxItem) /\ t \in Seq(RxItem) /\ Rest(s, t)
      /\ o \in Seq(RxItem) /\ p = Append(o, s[1])
  OBVIOUS
<1> HIDE DEF s, t, o, p
<1>2. /\ p \in Seq(RxItem) /\ o \o s = p \o t
      /\ SubSeq(o, 1, Len(o)) = SubSeq(p, 1, Len(o)) /\ o # p /\ Len(o) <= Len(p)
  <2>1. s \in Seq(RxItem) /\ t \in Seq(RxItem) /\ Rest(s, t) /\ o \in Seq(RxItem)
    BY <1>1
  <2>2. /\ Append(o, s[1]) \in Seq(RxItem) /\ o \o s = Append(o, s[1]) \o t
        /\ SubSeq(o, 1, Len(o)) = SubSeq(Append(o, s[1]), 1, Len(o)) /\ o # Append(o, s[1])
        /\ Len(o) <= Len(Append(o, s[1]))
    BY <2>1, TakesOne
  <2> QED
    BY <1>1, <2>2, Zenon
<1>3. RxFifo!Get
  BY <1>2, Zenon DEF RxFifo!Get, RxFifo!IsStrictPrefix, RxFifo!IsPrefix, s, t, o, p
<1> QED
  BY <1>2, <1>3, Zenon DEF RxStep, RxFifo!Next, p

\* Frames are lost at either end, when the chip goes off or is off.
LEMMA RxLoses ==
  ASSUME ~ running', drv'.got = drv.got,
         NEW i \in 1..Len(RxUnderWay) + 1, NEW j \in 0..Len(RxUnderWay),
         RxUnderWay' = SubSeq(RxUnderWay, i, j)
  PROVE  RxStep
<1>1. RxFifo!Lose
  BY Zenon DEF RxFifo!Lose
<1> QED
  BY <1>1, Zenon DEF RxStep, RxFifo!Next

\* The chip goes on, or nothing happens.
LEMMA RxStarts ==
  ASSUME RxUnderWay' = RxUnderWay, drv'.got = drv.got,
         running' = running \/ (~ running /\ running' = TRUE)
  PROVE  RxStep
<1>1. CASE running' = running
  BY <1>1, Zenon DEF RxStep
<1>2. CASE ~ running /\ running' = TRUE
  <2>1. RxFifo!Start
    BY <1>2, Zenon DEF RxFifo!Start
  <2> QED
    BY <2>1, Zenon DEF RxStep, RxFifo!Next
<1> QED
  BY <1>1, <1>2

\* A frame is handed over to the chip.
LEMMA TxPuts ==
  ASSUME TxUnderWay \in Seq(Kind), TxUnderWay' \in Seq(Kind),
         Len(TxUnderWay) < Len(TxUnderWay'),
         \A k \in 1..Len(TxUnderWay) : TxUnderWay[k] = TxUnderWay'[k],
         sent' = sent, running' = running
  PROVE  TxStep
<1> DEFINE s == TxUnderWay
           t == TxUnderWay'
<1>1. s \in Seq(Kind) /\ t \in Seq(Kind) /\ Len(s) < Len(t) /\ \A k \in 1..Len(s) : s[k] = t[k]
  OBVIOUS
<1> HIDE DEF s, t
<1>2. Len(s) \in Nat /\ Len(t) \in Nat
  BY <1>1
<1>3. SubSeq(s, 1, Len(s)) = SubSeq(t, 1, Len(s)) /\ s # t /\ Len(s) <= Len(t)
  BY <1>1, Extends
<1>4. \A k \in Len(s) + 1..Len(t) : t[k] \in Kind
  BY <1>1, <1>2
<1>5. TxFifo!Put
  BY <1>1, <1>3, <1>4, Zenon DEF TxFifo!Put, TxFifo!IsStrictPrefix, TxFifo!IsPrefix, s, t
<1> QED
  BY <1>5, Zenon DEF TxStep, TxFifo!Next

\* All come out at once.
LEMMA TxGets ==
  ASSUME TxUnderWay \in Seq(Kind), sent \in Seq(Kind), TxUnderWay' = <<>>,
         sent' = sent \o TxUnderWay, running' = running
  PROVE  TxStep /\ sent' \in Seq(Kind)
<1> DEFINE s == TxUnderWay
           o == sent
           p == sent'
<1>1. s \in Seq(Kind) /\ o \in Seq(Kind) /\ p = o \o s
  OBVIOUS
<1> HIDE DEF s, o, p
<1>2. p \in Seq(Kind) /\ Len(p) = Len(o) + Len(s) /\ Len(o) \in Nat /\ Len(s) \in Nat
      /\ \A k \in 1..Len(o) : p[k] = o[k]
  BY <1>1, Joined
<1>3. CASE Len(s) = 0
  <2>1. s = <<>>
    BY <1>1, <1>3
  <2>2. p = o
    BY <1>1, <2>1
  <2> QED
    BY <1>2, <2>1, <2>2, Zenon DEF TxStep, s, o, p
<1>4. CASE Len(s) # 0
  <2>1. Len(o) < Len(p)
    BY <1>2, <1>4
  <2>2. SubSeq(o, 1, Len(o)) = SubSeq(p, 1, Len(o)) /\ o # p /\ Len(o) <= Len(p)
    BY <1>1, <1>2, <2>1, Extends
  <2>3. o \o s = p \o <<>>
    BY <1>1, <1>2
  <2>4. TxFifo!Get
    BY <2>2, <2>3, Zenon DEF TxFifo!Get, TxFifo!IsStrictPrefix, TxFifo!IsPrefix, s, o, p
  <2> QED
    BY <1>2, <2>4, Zenon DEF TxStep, TxFifo!Next, p
<1> QED
  BY <1>3, <1>4

\* The chip goes off, or is off, and the rings are laid out anew.
LEMMA TxLoses ==
  ASSUME ~ running', sent' = sent,
         NEW i \in 1..Len(TxUnderWay) + 1, NEW j \in 0..Len(TxUnderWay),
         TxUnderWay' = SubSeq(TxUnderWay, i, j)
  PROVE  TxStep
<1>1. TxFifo!Lose
  BY Zenon DEF TxFifo!Lose
<1> QED
  BY <1>1, Zenon DEF TxStep, TxFifo!Next

\* Nothing happens to the frames, but the chip may have been started.
LEMMA TxStarts ==
  ASSUME TxUnderWay' = TxUnderWay, sent' = sent,
         running' = running \/ (~ running /\ running' = TRUE)
  PROVE  TxStep
<1>1. CASE running' = running
  BY <1>1, Zenon DEF TxStep
<1>2. CASE ~ running /\ running' = TRUE
  <2>1. TxFifo!Start
    BY <1>2, Zenon DEF TxFifo!Start
  <2> QED
    BY <2>1, Zenon DEF TxStep, TxFifo!Next
<1> QED
  BY <1>1, <1>2

-----------------------------------------------------------------------------
(* Tick.                                                                   *)

\* The first slot, and once around the ring.
LEMMA AtEnds ==
  ASSUME NEW n \in Nat \ {0}, NEW d \in 0..n - 1
  PROVE  At(d, n, 1) = d /\ At(d, n, n + 1) = d
<1>1. 1 \in 1..n + 1 /\ n + 1 \in 1..n + 1
  OBVIOUS
<1>2. At(d, n, 1) = IF d + 1 - 1 < n THEN d + 1 - 1 ELSE d + 1 - 1 - n
  BY <1>1, AtIs
<1>3. At(d, n, n + 1) = IF d + (n + 1) - 1 < n THEN d + (n + 1) - 1 ELSE d + (n + 1) - 1 - n
  BY <1>1, AtIs
<1> QED
  BY <1>2, <1>3

\* The descriptors the chip finds at its receive index.
LEMMA RxRunIs ==
  ASSUME Types, NEW c, RxRing(c), drv.pc # "down"
  PROVE  Run(rxIndex, RxLen, RxOwned) = RxLen - c
<1> DEFINE d == drv.rx
<1>1. d \in RxSlot /\ rx \in RxRings /\ RingOK(rx, d, c) /\ rxIndex = At(d, RxLen, c + 1)
  BY DEF Types, RxRing
<1>2. \A k \in c + 1..RxLen : rx[At(d, RxLen, k)].own
  BY DEF RxRing
<1> HIDE DEF d
<1>3. RxLen \in Nat \ {0} /\ RxSlot = 0..RxLen - 1 /\ c \in 0..RxLen
  BY <1>1, RingAssumption DEF RxSlot, RingOK
<1>4. ASSUME NEW k \in 1..RxLen - c PROVE At(rxIndex, RxLen, k) \in RxOwned
  <2>1. k \in 1..RxLen + 1 /\ c + k <= RxLen + 1 /\ c + k \in c + 1..RxLen /\ c + k \in 1..RxLen + 1
    BY <1>3
  <2>2. At(rxIndex, RxLen, k) = At(d, RxLen, c + k)
    BY <1>1, <1>3, <2>1, AtAt
  <2>3. At(d, RxLen, c + k) \in RxSlot
    BY <1>1, <1>3, <2>1, AtIs
  <2> QED
    BY <1>2, <2>1, <2>2, <2>3 DEF RxOwned
<1>5. ASSUME RxLen - c < RxLen PROVE At(rxIndex, RxLen, (RxLen - c) + 1) \notin RxOwned
  <2> DEFINE k == (RxLen - c) + 1
  <2>1. k \in 1..RxLen + 1 /\ c + k <= RxLen + 1 /\ c + k = RxLen + 1 /\ 1 \in 1..RxLen /\ 1 <= c
    BY <1>3, <1>5
  <2> HIDE DEF k
  <2>2. At(rxIndex, RxLen, k) = At(d, RxLen, c + k)
    BY <1>1, <1>3, <2>1, AtAt
  <2>3. At(d, RxLen, RxLen + 1) = d /\ At(d, RxLen, 1) = d
    BY <1>1, <1>3, AtEnds
  <2>4. d \in FilledIn(rx)
    BY <1>1, <2>1, <2>3 DEF RingOK
  <2> QED
    BY <2>1, <2>2, <2>3, <2>4 DEF FilledIn, RxOwned, k
<1>6. RxLen - c \in 0..RxLen
  BY <1>3
<1>7. rxIndex \in RxSlot
  BY DEF Types
<1> QED
  BY <1>3, <1>4, <1>5, <1>6, RunIs

\* The frames the chip sends are those under way.
LEMMA ToSendIs ==
  ASSUME Types, NEW r, TxRing(r)
  PROVE  /\ ToSend = IF txPending /\ running THEN Sending(tx, drv.clean, drv.used) ELSE <<>>
         /\ ToSend \in Seq(Kind)
         /\ Len(ToSend) = IF txPending /\ running THEN r ELSE 0
         /\ Len(Sending(tx, drv.clean, drv.used)) = r
         /\ Sending(tx, drv.clean, drv.used) \in Seq(Kind)
<1> DEFINE d == drv.clean
           u == drv.used
<1>1. d \in TxSlot /\ tx \in TxRings /\ u \in 0..TxLen /\ SendingOK(tx, d, u, r)
      /\ txIndex = At(d, TxLen, u - r + 1)
  BY DEF Types, TxRing
<1> HIDE DEF d, u
<1>2. TxLen \in Nat \ {0} /\ TxSlot = 0..TxLen - 1 /\ r \in 0..u
  BY <1>1, RingAssumption DEF TxSlot, SendingOK
<1>3. txIndex \in TxSlot /\ SendingOK(tx, txIndex, r, r)
      /\ \A k \in 1..r : At(txIndex, TxLen, k) = At(d, TxLen, u - r + k)
  BY <1>1, Cleans
<1>4. Run(txIndex, TxLen, TxOwned) = r
  <2>1. r \in 0..TxLen
    BY <1>1, <1>2
  <2>2. \A k \in 1..r : At(txIndex, TxLen, k) \in OwnedIn(tx)
    BY <1>2, <1>3, <2>1 DEF SendingOK
  <2>3. r < TxLen => At(txIndex, TxLen, r + 1) \notin OwnedIn(tx)
    BY <1>2, <1>3, <2>1 DEF SendingOK
  <2>4. Run(txIndex, TxLen, OwnedIn(tx)) = r
    BY <1>2, <2>1, <2>2, <2>3, RunIs
  <2> QED
    BY <2>4, ChannelsAre
<1>5. /\ Sending(tx, d, u) \in Seq(Kind) /\ Len(Sending(tx, d, u)) = r
      /\ \A k \in 1..r : Sending(tx, d, u)[k] = tx[At(d, TxLen, u - r + k)].frame
  BY <1>1, SendingIs
<1>6. Sending(tx, d, u) = [k \in 1..r |-> tx[At(txIndex, TxLen, k)].frame]
  <2> DEFINE s == [k \in 1..r |-> tx[At(txIndex, TxLen, k)].frame]
  <2>1. \A k \in 1..r : Sending(tx, d, u)[k] = s[k]
    BY <1>3, <1>5
  <2>2. \A k \in 1..r : Sending(tx, d, u)[k] \in Kind
    BY <1>5
  <2>3. s \in Seq(Kind) /\ Len(s) = r
    BY <1>2, <2>1, <2>2
  <2> HIDE DEF s
  <2>4. Sending(tx, d, u) = s
    BY <1>5, <2>1, <2>3, SameSequence
  <2> QED
    BY <2>4 DEF s
<1>7. ToSend = IF txPending /\ running THEN Sending(tx, d, u) ELSE <<>>
  BY <1>4, <1>6 DEF ToSend
<1>8. CASE txPending /\ running
  BY <1>5, <1>7, <1>8 DEF d, u
<1>9. CASE ~ (txPending /\ running)
  BY <1>5, <1>7, <1>9 DEF d, u
<1> QED
  BY <1>8, <1>9

\* What Tick does: it sends all or nothing, and stores n frames of the queue q.
LEMMA TickIs ==
  ASSUME Types, Signals, NEW c, RxRing(c), NEW r, TxRing(r), Tick
  PROVE  /\ \E q : \E n \in 0..Len(q) :
              /\ Grown(q) /\ c + n <= RxLen
              /\ rx' = FilledUp(rx, rxIndex, q, n) /\ rxq' = SubSeq(q, n + 1, Len(q))
              /\ rxIndex' = At(rxIndex, RxLen, n + 1)
              /\ n > 0 => "RINT" \in csr0' /\ running
         /\ IF txPending /\ running
              THEN /\ sent' = sent \o Sending(tx, drv.clean, drv.used)
                   /\ tx' = SentFrom(tx, txIndex, r)
                   /\ txIndex' = At(txIndex, TxLen, r + 1)
                   /\ r > 0 => "TINT" \in csr0'
              ELSE sent' = sent /\ tx' = tx /\ txIndex' = txIndex
         /\ csr0 \subseteq csr0' /\ line' = Interrupt(csr0')
         /\ running' = running /\ initialized' = initialized /\ drv' = drv
         /\ txPending' = (txPending /\ ~running)
<1> DEFINE F == ToSend
           q == Processed(F).q
           m == Run(rxIndex, RxLen, RxOwned)
           n == IF running THEN Min({Len(q), m}) ELSE 0
           new == csr0 \cup (IF F # <<>> THEN {"TINT"} ELSE {})
                       \cup (IF n > 0 THEN {"RINT"} ELSE {})
                       \cup (IF running /\ Len(q) > n THEN {"MISS"} ELSE {})
           Pos(i) == ((i + RxLen - rxIndex) % RxLen) + 1
<1>1. /\ sent' = sent \o F
      /\ tx' = [i \in TxSlot |->
                  IF (i + TxLen - txIndex) % TxLen < Len(F) THEN [tx[i] EXCEPT !.own = FALSE]
                  ELSE tx[i]]
      /\ txIndex' = (txIndex + Len(F)) % TxLen
      /\ txPending' = (txPending /\ ~running)
      /\ rxq' = SubSeq(q, n + 1, Len(q))
      /\ rx' = [i \in RxSlot |->
                  IF Pos(i) <= n THEN [own |-> FALSE, frame |-> Stored(q[Pos(i)])] ELSE rx[i]]
      /\ rxIndex' = (rxIndex + n) % RxLen
      /\ csr0' = new
      /\ line' = IF F # <<>> \/ n > 0 \/ (running /\ Len(q) > n) THEN Interrupt(new) ELSE line
      /\ running' = running /\ initialized' = initialized /\ drv' = drv
  BY DEF Tick, TxAdvance, LineAfter
<1>2. rx' = FilledUp(rx, rxIndex, q, n)
  BY <1>1 DEF FilledUp
<1> HIDE DEF Pos
<1>3. /\ F = IF txPending /\ running THEN Sending(tx, drv.clean, drv.used) ELSE <<>>
      /\ F \in Seq(Kind) /\ Len(F) = IF txPending /\ running THEN r ELSE 0
  BY ToSendIs
<1> HIDE DEF F
<1>4. Grown(q)
  BY <1>3, ProcessedGrows DEF Types
<1>5. Len(q) \in Nat
  BY <1>4 DEF Grown
<1> HIDE DEF q
<1>6. c \in 0..RxLen /\ RxLen \in Nat \ {0} /\ r \in Nat /\ r \in 0..drv.used
  BY RingAssumption DEF RxRing, RingOK, TxRing, SendingOK, Types
<1>7. running => drv.pc # "down" /\ m = RxLen - c
  BY RxRunIs DEF Signals
<1> HIDE DEF m
<1>8. n \in 0..Len(q) /\ c + n <= RxLen /\ (n > 0 => running)
  <2>1. CASE running
    <3> DEFINE M == {Len(q), m}
               a == IF Len(q) <= m THEN Len(q) ELSE m
    <3>1. m \in Nat /\ m = RxLen - c
      BY <1>6, <1>7, <2>1
    <3>2. M \in SUBSET Int /\ a \in M /\ \A y \in M : a <= y
      BY <1>5, <3>1
    <3> HIDE DEF M
    <3>3. Min(M) = a
      BY <3>2, MinIs
    <3>4. n = a
      BY <2>1, <3>3 DEF M
    <3> HIDE DEF n
    <3> QED
      BY <1>5, <1>6, <2>1, <3>1, <3>4
  <2>2. CASE ~ running
    BY <1>5, <1>6, <2>2
  <2> QED
    BY <2>1, <2>2
<1> HIDE DEF n
<1>9. rxIndex' = At(rxIndex, RxLen, n + 1)
  <2>1. rxIndex \in Int
    BY DEF Types, RxSlot
  <2>2. rxIndex + (n + 1) - 1 = rxIndex + n
    BY <1>5, <1>8, <2>1
  <2> QED
    BY <1>1, <2>2, Zenon DEF At
<1>10. n > 0 => "RINT" \in csr0' /\ running
  BY <1>1, <1>7, <1>8
<1>11. csr0 \subseteq csr0'
  BY <1>1
<1>12. line' = Interrupt(csr0')
  <2>1. CASE F # <<>> \/ n > 0 \/ (running /\ Len(q) > n)
    BY <1>1, <2>1
  <2>2. CASE ~ (F # <<>> \/ n > 0 \/ (running /\ Len(q) > n))
    <3>1. new = csr0
      BY <2>2
    <3> HIDE DEF new
    <3>2. line' = line
      BY <1>1, <2>2
    <3> QED
      BY <1>1, <3>1, <3>2 DEF Signals
  <2> QED
    BY <2>1, <2>2
<1>13. IF txPending /\ running
         THEN /\ sent' = sent \o Sending(tx, drv.clean, drv.used)
              /\ tx' = SentFrom(tx, txIndex, r)
              /\ txIndex' = At(txIndex, TxLen, r + 1)
              /\ r > 0 => "TINT" \in csr0'
         ELSE sent' = sent /\ tx' = tx /\ txIndex' = txIndex
  <2>0. TxLen \in Nat \ {0} /\ txIndex \in 0..TxLen - 1 /\ TxSlot = 0..TxLen - 1
    BY RingAssumption DEF Types, TxSlot
  <2>1. CASE txPending /\ running
    <3>1. F = Sending(tx, drv.clean, drv.used) /\ Len(F) = r
      BY <1>3, <2>1
    <3>2. tx' = SentFrom(tx, txIndex, r)
      BY <1>1, <3>1 DEF SentFrom
    <3>3. txIndex + (r + 1) - 1 = txIndex + r
      BY <1>6, <2>0
    <3>4. txIndex' = At(txIndex, TxLen, r + 1)
      BY <1>1, <3>1, <3>3, Zenon DEF At
    <3>5. r > 0 => F # <<>>
      BY <1>6, <3>1
    <3>6. r > 0 => "TINT" \in csr0'
      BY <1>1, <3>5
    <3> QED
      BY <1>1, <2>1, <3>1, <3>2, <3>4, <3>6
  <2>2. CASE ~ (txPending /\ running)
    <3>1. F = <<>> /\ Len(F) = 0
      BY <1>3, <2>2
    <3>2. sent' = sent
      BY <1>1, <3>1 DEF Types
    <3>3. tx' = tx
      <4>1. \A i \in TxSlot : (i + TxLen - txIndex) % TxLen \in 0..TxLen - 1
        <5> SUFFICES ASSUME NEW i \in TxSlot PROVE (i + TxLen - txIndex) % TxLen \in 0..TxLen - 1
          OBVIOUS
        <5> QED
          BY <2>0, PlaceOf, Zenon
      <4>2. \A x \in 0..TxLen - 1 : ~ (x < 0)
        BY <2>0
      <4>3. \A i \in TxSlot : ~ ((i + TxLen - txIndex) % TxLen < Len(F))
        BY <3>1, <4>1, <4>2, Zenon
      <4>4. tx' = [i \in TxSlot |-> tx[i]]
        BY <1>1, <4>3, Zenon
      <4> QED
        BY <4>4 DEF Types, TxRings
    <3>4. txIndex' = txIndex
      <4>1. txIndex + Len(F) = txIndex + 1 - 1
        BY <2>0, <3>1
      <4>2. txIndex' = At(txIndex, TxLen, 1)
        BY <1>1, <4>1, Zenon DEF At
      <4> QED
        BY <2>0, <4>2, AtEnds
    <3> QED
      BY <2>2, <3>2, <3>3, <3>4
  <2> QED
    BY <2>1, <2>2
<1>14. \E x : \E y \in 0..Len(x) :
          /\ Grown(x) /\ c + y <= RxLen
          /\ rx' = FilledUp(rx, rxIndex, x, y) /\ rxq' = SubSeq(x, y + 1, Len(x))
          /\ rxIndex' = At(rxIndex, RxLen, y + 1)
          /\ y > 0 => "RINT" \in csr0' /\ running
  BY <1>1, <1>2, <1>4, <1>8, <1>9, <1>10, Zenon
<1> QED
  BY <1>1, <1>11, <1>12, <1>13, <1>14

\* A sequence without its first n elements.
LEMMA DropIs ==
  ASSUME NEW S, NEW q \in Seq(S), NEW n \in 0..Len(q)
  PROVE  LET rest == SubSeq(q, n + 1, Len(q))
         IN  /\ rest \in Seq(S) /\ Len(rest) = Len(q) - n
             /\ \A k \in 1..Len(q) - n : rest[k] = q[n + k]
<1> DEFINE rest == SubSeq(q, n + 1, Len(q))
<1>1. Len(q) \in Nat
  OBVIOUS
<1>2. rest \in Seq(S)
  BY <1>1
<1>3. Len(rest) = Len(q) - n
  BY <1>1
<1>4. ASSUME NEW k \in 1..Len(q) - n PROVE rest[k] = q[n + k]
  <2>1. k \in 1..Len(rest) /\ (n + 1) + k - 1 = n + k
    BY <1>1, <1>3
  <2>2. rest[k] = q[(n + 1) + k - 1]
    BY <1>1, <2>1
  <2> QED
    BY <2>1, <2>2
<1> QED
  BY <1>2, <1>3, <1>4

\* What is stored in the ring leaves the queue: the channel stays as it was, and
\* goes on with what was added to the queue.
LEMMA FillsWay ==
  ASSUME NEW ring \in RxRings, NEW d \in RxSlot, NEW c, RingOK(ring, d, c),
         rxq \in Seq(Queued), NEW q, Grown(q), NEW n \in 0..Len(q), c + n <= RxLen
  PROVE  LET old == UnderWay(ring, d, rxq)
             rest == SubSeq(q, n + 1, Len(q))
             way == UnderWay(FilledUp(ring, At(d, RxLen, c + 1), q, n), d, rest)
         IN  /\ rest \in Seq(Queued)
             /\ old \in Seq(RxItem) /\ way \in Seq(RxItem) /\ Len(old) <= Len(way)
             /\ \A k \in 1..Len(old) : old[k] = way[k]
<1> DEFINE old == UnderWay(ring, d, rxq)
           rest == SubSeq(q, n + 1, Len(q))
           new == FilledUp(ring, At(d, RxLen, c + 1), q, n)
           way == UnderWay(new, d, rest)
<1>1. q \in Seq(Queued) /\ Len(rxq) <= Len(q) /\ \A k \in 1..Len(rxq) : q[k] = rxq[k]
  BY DEF Grown
<1>2. Len(q) \in Nat /\ Len(rxq) \in Nat /\ n \in 0..Len(q) /\ c \in 0..RxLen /\ c \in Nat
      /\ RxLen \in Nat \ {0}
  BY <1>1, RingAssumption DEF RingOK
<1>3. /\ new \in RxRings /\ RingOK(new, d, c + n)
      /\ \A k \in 1..RxLen :
           new[At(d, RxLen, k)] = IF c < k /\ k <= c + n
                                    THEN [own |-> FALSE, frame |-> Stored(q[k - c])]
                                    ELSE ring[At(d, RxLen, k)]
  BY <1>1, Fills DEF FillsUp
<1> HIDE DEF new
<1>4. rest \in Seq(Queued) /\ Len(rest) = Len(q) - n /\ \A k \in 1..Len(q) - n : rest[k] = q[n + k]
  BY <1>1, DropIs
<1> HIDE DEF rest
<1>5. /\ old \in Seq(RxItem) /\ Len(old) = c + Len(rxq)
      /\ \A k \in 1..c : old[k] = ring[At(d, RxLen, k)].frame
      /\ \A k \in c + 1..c + Len(rxq) : old[k] = Stored(rxq[k - c])
  BY UnderWayIs
<1> DEFINE e == c + n
<1>e. e = c + n /\ RingOK(new, d, e)
  BY <1>3
<1> HIDE DEF e
<1>6. /\ way \in Seq(RxItem) /\ Len(way) = e + Len(rest)
      /\ \A k \in 1..e : way[k] = new[At(d, RxLen, k)].frame
      /\ \A k \in e + 1..e + Len(rest) : way[k] = Stored(rest[k - e])
  <2>1. new \in RxRings /\ d \in RxSlot /\ rest \in Seq(Queued) /\ RingOK(new, d, e)
    BY <1>3, <1>4, <1>e
  <2> QED
    BY <2>1, UnderWayIs
<1> HIDE DEF old, way
<1>7. Len(way) = c + Len(q)
  BY <1>2, <1>4, <1>6, <1>e
<1>8. ASSUME NEW k \in 1..Len(old) PROVE old[k] = way[k]
  <2>1. CASE k <= c
    <3>1. k \in 1..c /\ k \in 1..e /\ k \in 1..RxLen /\ ~ (c < k /\ k <= c + n)
      BY <1>2, <1>e, <2>1
    <3>2. new[At(d, RxLen, k)] = ring[At(d, RxLen, k)]
      BY <1>3, <3>1
    <3> QED
      BY <1>5, <1>6, <3>1, <3>2
  <2>2. CASE c < k /\ k <= c + n
    <3>1. k \in 1..RxLen /\ k \in 1..e /\ k \in c + 1..c + Len(rxq) /\ k - c \in 1..Len(rxq)
      BY <1>2, <1>5, <1>e, <2>2
    <3>a. new[At(d, RxLen, k)] = [own |-> FALSE, frame |-> Stored(q[k - c])]
      BY <1>3, <2>2, <3>1
    <3>2. new[At(d, RxLen, k)].frame = Stored(q[k - c])
      BY <3>a
    <3>3. q[k - c] = rxq[k - c]
      BY <1>1, <3>1
    <3> QED
      BY <1>5, <1>6, <3>1, <3>2, <3>3
  <2>3. CASE k > c + n
    <3>1. /\ k \in c + 1..c + Len(rxq) /\ k - c \in 1..Len(rxq)
          /\ k \in e + 1..e + Len(rest)
          /\ k - e \in 1..Len(q) - n /\ n + (k - e) = k - c
      BY <1>1, <1>2, <1>4, <1>5, <1>e, <2>3
    <3>2. rest[k - e] = q[k - c]
      BY <1>4, <3>1
    <3>3. q[k - c] = rxq[k - c]
      BY <1>1, <3>1
    <3>4. way[k] = Stored(rest[k - e]) /\ old[k] = Stored(rxq[k - c])
      BY <1>5, <1>6, <3>1
    <3> QED
      BY <3>2, <3>3, <3>4
  <2> QED
    BY <1>2, <1>5, <2>1, <2>2, <2>3
<1>9. Len(old) <= Len(way)
  BY <1>1, <1>2, <1>5, <1>7
<1> QED
  BY <1>4, <1>5, <1>6, <1>8, <1>9 DEF old, way, rest, new

\* There is something for the driver if the first slot has it.
LEMMA FirstFilled ==
  ASSUME NEW ring, NEW d \in RxSlot, NEW c, RingOK(ring, d, c)
  PROVE  d \in FilledIn(ring) <=> c > 0
<1>1. RxLen \in Nat \ {0} /\ d \in 0..RxLen - 1 /\ c \in 0..RxLen
  BY RingAssumption DEF RxSlot, RingOK
<1>2. 1 \in 1..RxLen /\ At(d, RxLen, 1) = d /\ (1 <= c <=> c > 0)
  BY <1>1, AtEnds
<1> QED
  BY <1>2 DEF RingOK

\* The first slot in use is the chip's when it has yet to send all of them.
LEMMA FirstOwned ==
  ASSUME NEW ring, NEW d \in TxSlot, NEW u \in 0..TxLen, NEW r, SendingOK(ring, d, u, r), u > 0
  PROVE  d \in OwnedIn(ring) <=> r = u
<1>1. TxLen \in Nat \ {0} /\ d \in 0..TxLen - 1 /\ r \in 0..u
  BY RingAssumption DEF TxSlot, SendingOK
<1>2. 1 \in 1..TxLen /\ At(d, TxLen, 1) = d /\ (u - r < 1 /\ 1 <= u <=> r = u)
  BY <1>1, AtEnds
<1> QED
  BY <1>2 DEF SendingOK

\* The frames received stay in the ring and the queue; new ones are behind them.
LEMMA TickReceives ==
  ASSUME Types, Signals, NEW c \in 0..RxLen, RxRing(c), TxInv, Tick
  PROVE  /\ \E n \in 0..RxLen :
              /\ c + n \in 0..RxLen /\ RxRing(c + n)'
              /\ n > 0 => "RINT" \in csr0' /\ running
         /\ rx' \in RxRings /\ rxIndex' \in RxSlot /\ rxq' \in Seq(Queued)
         /\ RxStep
<1>0. RxLen \in Nat \ {0} /\ RxSlot = 0..RxLen - 1
  BY RingAssumption DEF RxSlot
<1> DEFINE d == drv.rx
<1>1. d \in RxSlot /\ rx \in RxRings /\ RingOK(rx, d, c) /\ rxIndex = At(d, RxLen, c + 1)
      /\ rxq \in Seq(Queued)
  BY DEF Types, RxRing
<1>2. drv.pc # "down" => \A k \in c + 1..RxLen : rx[At(d, RxLen, k)].own
  BY DEF RxRing
<1>3. PICK q : \E n \in 0..Len(q) :
         /\ Grown(q) /\ c + n <= RxLen
         /\ rx' = FilledUp(rx, rxIndex, q, n) /\ rxq' = SubSeq(q, n + 1, Len(q))
         /\ rxIndex' = At(rxIndex, RxLen, n + 1)
         /\ n > 0 => "RINT" \in csr0' /\ running
  <2>1. PICK r : TxRing(r)
    BY DEF TxInv
  <2> QED
    BY <2>1, TickIs
<1>4. PICK n \in 0..Len(q) :
         /\ Grown(q) /\ c + n <= RxLen
         /\ rx' = FilledUp(rx, rxIndex, q, n) /\ rxq' = SubSeq(q, n + 1, Len(q))
         /\ rxIndex' = At(rxIndex, RxLen, n + 1)
         /\ n > 0 => "RINT" \in csr0' /\ running
  BY <1>3
<1>5. running' = running /\ drv' = drv
  BY DEF Tick
<1> DEFINE e == c + n
<1>6. q \in Seq(Queued) /\ Len(q) \in Nat /\ n \in Nat /\ e \in 0..RxLen /\ n \in 0..RxLen
  BY <1>0, <1>4 DEF Grown
<1>e. e = c + n
  OBVIOUS
<1>7. /\ rx' \in RxRings /\ RingOK(rx', d, c + n)
      /\ \A k \in 1..RxLen :
           rx'[At(d, RxLen, k)] = IF c < k /\ k <= c + n
                                    THEN [own |-> FALSE, frame |-> Stored(q[k - c])]
                                    ELSE rx[At(d, RxLen, k)]
  <2> HIDE DEF d
  <2>1. rx \in RxRings /\ d \in RxSlot /\ RingOK(rx, d, c) /\ q \in Seq(Queued)
        /\ n \in 0..Len(q) /\ c + n <= RxLen
    BY <1>1, <1>4, <1>6
  <2>2. FillsUp(rx, FilledUp(rx, At(d, RxLen, c + 1), q, n), d, c, q, n)
    BY <2>1, Fills
  <2>3. rx' = FilledUp(rx, At(d, RxLen, c + 1), q, n)
    BY <1>1, <1>4
  <2> QED
    BY <2>2, <2>3 DEF FillsUp
<1>8. /\ rxq' \in Seq(Queued)
      /\ UnderWay(rx, d, rxq) \in Seq(RxItem) /\ UnderWay(rx', d, rxq') \in Seq(RxItem)
      /\ Len(UnderWay(rx, d, rxq)) <= Len(UnderWay(rx', d, rxq'))
      /\ \A k \in 1..Len(UnderWay(rx, d, rxq)) : UnderWay(rx, d, rxq)[k] = UnderWay(rx', d, rxq')[k]
  BY <1>1, <1>4, FillsWay
<1>9. RxStep
  <2>1. RxUnderWay = UnderWay(rx, d, rxq) /\ RxUnderWay' = UnderWay(rx', d, rxq')
    BY <1>5, ChannelsAre, Zenon DEF RxUnderWay, UnderWay, Filled, FilledIn
  <2> HIDE DEF d
  <2> QED
    BY <1>5, <1>8, <2>1, RxPuts
<1>10. rxIndex' = At(d, RxLen, e + 1) /\ rxIndex' \in RxSlot
  <2>1. c \in 0..RxLen /\ n + 1 \in 1..RxLen + 1 /\ c + (n + 1) <= RxLen + 1 /\ c + (n + 1) = e + 1
        /\ e + 1 \in 1..RxLen + 1
    BY <1>0, <1>6
  <2> HIDE DEF d, e
  <2>2. At(At(d, RxLen, c + 1), RxLen, n + 1) = At(d, RxLen, c + (n + 1))
    BY <1>0, <1>1, <2>1, AtAt
  <2>3. At(d, RxLen, e + 1) \in 0..RxLen - 1
    BY <1>0, <1>1, <2>1, AtIs
  <2> QED
    BY <1>0, <1>1, <1>4, <2>1, <2>2, <2>3
<1>11. drv.pc # "down" => \A k \in e + 1..RxLen : rx'[At(d, RxLen, k)].own
  <2> SUFFICES ASSUME drv.pc # "down", NEW k \in e + 1..RxLen PROVE rx'[At(d, RxLen, k)].own
    OBVIOUS
  <2>1. k \in 1..RxLen /\ k \in c + 1..RxLen /\ ~ (c < k /\ k <= c + n)
    BY <1>0, <1>6
  <2>2. rx'[At(d, RxLen, k)] = rx[At(d, RxLen, k)]
    BY <1>7, <2>1
  <2> QED
    BY <1>2, <2>1, <2>2
<1> HIDE DEF e
<1>12. RxRing(e)'
  BY <1>5, <1>7, <1>10, <1>11, <1>e DEF RxRing
<1> QED
  BY <1>4, <1>6, <1>7, <1>8, <1>9, <1>10, <1>12, <1>e

\* What is under way to the handler is sent, or waits.
LEMMA TickSends ==
  ASSUME Types, Signals, RxInv, NEW r \in 0..drv.used, TxRing(r), Tick
  PROVE  /\ \E s \in 0..drv.used : TxRing(s)' /\ (s = r \/ (s = 0 /\ "TINT" \in csr0'))
         /\ tx' \in TxRings /\ txIndex' \in TxSlot /\ sent' \in Seq(Kind)
         /\ TxStep
<1> DEFINE d == drv.clean
           u == drv.used
<1>0. TxLen \in Nat \ {0} /\ TxSlot = 0..TxLen - 1
  BY RingAssumption DEF TxSlot
<1>1. /\ d \in TxSlot /\ tx \in TxRings /\ u \in 0..TxLen /\ SendingOK(tx, d, u, r)
      /\ txIndex = At(d, TxLen, u - r + 1) /\ txIndex \in TxSlot
      /\ drv.tx = At(d, TxLen, u + 1) /\ sent \in Seq(Kind) /\ r \in 0..u
  BY DEF Types, TxRing
<1>2. /\ IF txPending /\ running
           THEN /\ sent' = sent \o Sending(tx, d, u)
                /\ tx' = SentFrom(tx, txIndex, r)
                /\ txIndex' = At(txIndex, TxLen, r + 1)
                /\ r > 0 => "TINT" \in csr0'
           ELSE sent' = sent /\ tx' = tx /\ txIndex' = txIndex
      /\ running' = running /\ drv' = drv
  BY TickIs DEF RxInv
<1>3. TxUnderWay = Sending(tx, d, u) /\ TxUnderWay' = Sending(tx', d, u)
  BY <1>2, ChannelsAre, Zenon DEF TxUnderWay, Sending, Done, TxOwned, OwnedIn
<1>d. drv'.clean = d /\ drv'.used = u /\ drv'.tx = drv.tx
  BY <1>2
<1> HIDE DEF d, u
<1>4. CASE txPending /\ running
  <2>1. tx' \in TxRings /\ SendingOK(tx', d, u, 0)
    BY <1>1, <1>2, <1>4, Sends
  <2>2. Sending(tx', d, u) = <<>>
    <3>1. Sending(tx', d, u) \in Seq(Kind) /\ Len(Sending(tx', d, u)) = 0
      BY <1>1, <2>1, SendingIs
    <3> QED
      BY <3>1
  <2>3. Sending(tx, d, u) \in Seq(Kind)
    BY <1>1, SendingIs
  <2>4. TxStep /\ sent' \in Seq(Kind)
    BY <1>1, <1>2, <1>3, <1>4, <2>2, <2>3, TxGets
  <2>5. txIndex' = At(d, TxLen, u - 0 + 1) /\ txIndex' \in TxSlot
    <3>1. u - r \in 0..TxLen /\ r + 1 \in 1..TxLen + 1 /\ (u - r) + (r + 1) <= TxLen + 1
          /\ (u - r) + (r + 1) = u - 0 + 1 /\ u - 0 + 1 \in 1..TxLen + 1
      BY <1>0, <1>1
    <3>2. At(At(d, TxLen, (u - r) + 1), TxLen, r + 1) = At(d, TxLen, (u - r) + (r + 1))
      BY <1>0, <1>1, <3>1, AtAt
    <3>3. At(d, TxLen, u - 0 + 1) \in 0..TxLen - 1
      BY <1>0, <1>1, <3>1, AtIs
    <3> QED
      BY <1>0, <1>1, <1>2, <1>4, <3>1, <3>2, <3>3
  <2>6. TxRing(0)'
    BY <1>1, <1>d, <2>1, <2>5 DEF TxRing
  <2>7. r = 0 \/ "TINT" \in csr0'
    BY <1>1, <1>2, <1>4
  <2>8. 0 \in 0..drv.used
    BY <1>1 DEF u
  <2> QED
    BY <2>1, <2>4, <2>5, <2>6, <2>7, <2>8
<1>5. CASE ~ (txPending /\ running)
  <2>1. sent' = sent /\ tx' = tx /\ txIndex' = txIndex /\ TxUnderWay' = TxUnderWay
    BY <1>2, <1>3, <1>5
  <2>2. TxStep
    BY <1>2, <2>1, TxStarts
  <2>3. TxRing(r)'
    BY <1>1, <1>d, <2>1 DEF TxRing
  <2> QED
    BY <1>1, <2>1, <2>2, <2>3
<1> QED
  BY <1>4, <1>5

\* Tick as a whole: what it does to the rings it also announces in CSR0.
LEMMA TickKeeps ==
  ASSUME Types, RxInv, TxInv, Signals, Tick
  PROVE  Types' /\ RxInv' /\ TxInv' /\ Signals' /\ RxStep /\ TxStep
<1>1. PICK c \in 0..RxLen : RxRing(c)
  BY DEF RxInv
<1>2. PICK r \in 0..drv.used : TxRing(r)
  BY DEF TxInv
<1>3. /\ csr0 \subseteq csr0' /\ line' = Interrupt(csr0')
      /\ running' = running /\ initialized' = initialized /\ drv' = drv
      /\ txPending' = (txPending /\ ~running)
  BY <1>1, <1>2, TickIs
<1>4. /\ \E n \in 0..RxLen : /\ c + n \in 0..RxLen /\ RxRing(c + n)'
                             /\ n > 0 => "RINT" \in csr0' /\ running
      /\ rx' \in RxRings /\ rxIndex' \in RxSlot /\ rxq' \in Seq(Queued)
      /\ RxStep
  BY <1>1, TickReceives
<1>5. /\ \E s \in 0..drv.used : TxRing(s)' /\ (s = r \/ (s = 0 /\ "TINT" \in csr0'))
      /\ tx' \in TxRings /\ txIndex' \in TxSlot /\ sent' \in Seq(Kind)
      /\ TxStep
  BY <1>2, TickSends
<1>6. PICK n \in 0..RxLen : /\ c + n \in 0..RxLen /\ RxRing(c + n)'
                            /\ n > 0 => "RINT" \in csr0' /\ running
  BY <1>4
<1>7. PICK s \in 0..drv.used : TxRing(s)' /\ (s = r \/ (s = 0 /\ "TINT" \in csr0'))
  BY <1>5
<1>8. RxInv'
  BY <1>6 DEF RxInv
<1>9. TxInv'
  BY <1>3, <1>7 DEF TxInv
<1>10. Types'
  <2>1. txPending' \in BOOLEAN
    BY <1>3
  <2> QED
    BY <1>3, <1>4, <1>5, <2>1 DEF Types
<1>11. drv.rx \in FilledIn(rx') => drv.rx \in FilledIn(rx) \/ ("RINT" \in csr0' /\ running)
  <2>1. drv.rx \in RxSlot /\ RingOK(rx, drv.rx, c) /\ RingOK(rx', drv.rx, c + n)
    BY <1>1, <1>3, <1>6 DEF Types, RxRing
  <2>2. (drv.rx \in FilledIn(rx) <=> c > 0) /\ (drv.rx \in FilledIn(rx') <=> c + n > 0)
    BY <2>1, FirstFilled
  <2>3. c + n > 0 => c > 0 \/ n > 0
    OBVIOUS
  <2> QED
    BY <1>6, <2>2, <2>3
<1>12. drv.used > 0 /\ drv.clean \notin OwnedIn(tx') =>
         drv.clean \notin OwnedIn(tx) \/ "TINT" \in csr0'
  <2> SUFFICES ASSUME drv.used > 0, s = r
               PROVE  drv.clean \notin OwnedIn(tx') => drv.clean \notin OwnedIn(tx)
    BY <1>7
  <2>1. /\ drv.clean \in TxSlot /\ drv.used \in 0..TxLen
        /\ SendingOK(tx, drv.clean, drv.used, r) /\ SendingOK(tx', drv.clean, drv.used, r)
    BY <1>2, <1>3, <1>7 DEF Types, TxRing
  <2>2. /\ drv.clean \in OwnedIn(tx) <=> r = drv.used
        /\ drv.clean \in OwnedIn(tx') <=> r = drv.used
    BY <2>1, FirstOwned
  <2> QED
    BY <2>2
<1>13. Signals'
  <2>1. /\ drv.pc \in {"down", "init"} => ~running
        /\ drv.pc = "init" => drv.used = 0 /\ drv.rx \notin FilledIn(rx)
        /\ drv.pc \notin {"down", "init"} => "INEA" \in csr0
        /\ drv.pc \notin {"ack", "serve"} => drv.causes = {}
        /\ drv.pc \notin {"down", "init"} /\ drv.rx \in FilledIn(rx) => "RINT" \in csr0 \cup drv.causes
        /\ drv.pc \notin {"down", "init"} /\ drv.used > 0 /\ drv.clean \notin OwnedIn(tx) =>
             "TINT" \in csr0 \cup drv.causes
    BY DEF Signals
  <2>2. drv.pc \in {"down", "init"} => ~running'
    BY <1>3, <2>1
  <2>3. drv.pc = "init" => drv.used = 0 /\ drv.rx \notin FilledIn(rx')
    BY <1>11, <2>1
  <2>4. drv.pc \notin {"down", "init"} => "INEA" \in csr0'
    BY <1>3, <2>1
  <2>5. drv.pc \notin {"down", "init"} =>
          /\ drv.rx \in FilledIn(rx') => "RINT" \in csr0' \cup drv.causes
          /\ drv.used > 0 /\ drv.clean \notin OwnedIn(tx') => "TINT" \in csr0' \cup drv.causes
    BY <1>3, <1>11, <1>12, <2>1
  <2> QED
    BY <1>3, <2>1, <2>2, <2>3, <2>4, <2>5 DEF Signals
<1> QED
  BY <1>4, <1>5, <1>8, <1>9, <1>10, <1>13

-----------------------------------------------------------------------------
(* The driver.                                                             *)

\* A step that leaves the receive ring and the queue alone.
LEMMA RxSame ==
  ASSUME RxInv, rx' = rx, drv'.rx = drv.rx, rxIndex' = rxIndex, drv'.pc # "down" => drv.pc # "down"
  PROVE  RxInv' /\ (rxq' = rxq => RxUnderWay' = RxUnderWay)
<1>1. PICK c \in 0..RxLen : RxRing(c)
  BY DEF RxInv
<1>2. RxRing(c)'
  BY <1>1 DEF RxRing
<1>3. RxInv'
  BY <1>2 DEF RxInv
<1>4. rxq' = rxq => RxUnderWay' = RxUnderWay
  BY DEF RxUnderWay, Filled
<1> QED
  BY <1>3, <1>4

\* A step that leaves the transmit ring alone.
LEMMA TxSame ==
  ASSUME TxInv, tx' = tx, txIndex' = txIndex,
         drv'.clean = drv.clean, drv'.used = drv.used, drv'.tx = drv.tx
  PROVE  TxInv' /\ TxUnderWay' = TxUnderWay
<1>1. PICK r \in 0..drv.used : TxRing(r)
  BY DEF TxInv
<1>2. TxRing(r)'
  BY <1>1 DEF TxRing
<1>3. TxInv'
  BY <1>2 DEF TxInv
<1>4. TxUnderWay' = TxUnderWay
  BY DEF TxUnderWay, Done, TxOwned
<1> QED
  BY <1>3, <1>4

\* Writes of CSR0 that neither stop nor initialize leave the rings alone.
LEMMA WriteKeeps ==
  ASSUME Types, NEW v, WriteCsr0(v), "INIT" \notin v
  PROVE  /\ rxIndex' = rxIndex /\ txIndex' = txIndex /\ initialized' = initialized
         /\ txPending' \in BOOLEAN /\ running' \in BOOLEAN
         /\ line' = Interrupt(csr0') /\ csr0' = Written(v)
         /\ running' = (running \/ ("STRT" \in v /\ initialized))
BY DEF WriteCsr0, Types

\* Actions of the driver that leave the rings alone: start, demand, and the first
\* half of the interrupt. A cause the driver clears is one it is about to serve.
LEMMA DriverSmall ==
  ASSUME Types, RxInv, TxInv, Signals,
         DriverStart \/ DriverDemand \/ DriverInterrupt \/ DriverAck
  PROVE  Types' /\ RxInv' /\ TxInv' /\ Signals' /\ RxStep /\ TxStep
<1> DEFINE Calm == /\ rx' = rx /\ rxq' = rxq /\ tx' = tx /\ sent' = sent
                   /\ rxIndex' = rxIndex /\ txIndex' = txIndex /\ initialized' = initialized
                   /\ txPending' \in BOOLEAN
                   /\ drv'.rx = drv.rx /\ drv'.got = drv.got /\ drv'.clean = drv.clean
                   /\ drv'.used = drv.used /\ drv'.tx = drv.tx
                   /\ drv.pc # "down" /\ drv'.pc # "down"
                   /\ (running' = running \/ (~ running /\ running' = TRUE))
                   /\ drv' \in [pc : Pcs, rx : RxSlot, tx : TxSlot, clean : TxSlot, used : 0..TxLen,
                                causes : SUBSET W1C, made : Nat, got : Seq(RxItem)]
<1>1. ASSUME Calm PROVE Types' /\ RxInv' /\ TxInv' /\ RxStep /\ TxStep
  <2>1. RxInv' /\ RxUnderWay' = RxUnderWay
    BY <1>1, RxSame
  <2>2. TxInv' /\ TxUnderWay' = TxUnderWay
    BY <1>1, TxSame
  <2>3. RxStep
    BY <1>1, <2>1, RxStarts
  <2>4. TxStep
    BY <1>1, <2>2, TxStarts
  <2>5. running' \in BOOLEAN
    BY <1>1 DEF Types
  <2>6. Types'
    BY <1>1, <2>5 DEF Types
  <2> QED
    BY <2>1, <2>2, <2>3, <2>4, <2>6
<1>2. drv \in [pc : Pcs, rx : RxSlot, tx : TxSlot, clean : TxSlot, used : 0..TxLen,
               causes : SUBSET W1C, made : Nat, got : Seq(RxItem)]
  BY DEF Types
<1>3. running \in BOOLEAN /\ initialized \in BOOLEAN
  BY DEF Types
<1>4. /\ drv.pc \notin {"ack", "serve"} => drv.causes = {}
      /\ drv.pc \notin {"down", "init"} => "INEA" \in csr0
      /\ drv.pc = "init" => drv.used = 0 /\ drv.rx \notin FilledIn(rx)
      /\ drv.pc \notin {"down", "init"} =>
           /\ drv.rx \in FilledIn(rx) => "RINT" \in csr0 \cup drv.causes
           /\ drv.used > 0 /\ drv.clean \notin OwnedIn(tx) => "TINT" \in csr0 \cup drv.causes
      /\ line = Interrupt(csr0)
  BY DEF Signals
<1>5. ASSUME Calm, drv'.pc \notin {"down", "init"}, line' = Interrupt(csr0'), "INEA" \in csr0',
             drv'.pc \notin {"ack", "serve"} => drv'.causes = {},
             drv.pc = "init" \/ (csr0 \cup drv.causes) \cap W1C \subseteq csr0' \cup drv'.causes
      PROVE  Signals'
  <2>1. CASE drv.pc = "init"
    <3>1. ~ (drv'.used > 0) /\ drv'.rx \notin FilledIn(rx')
      BY <1>2, <1>4, <1>5, <2>1
    <3> QED
      BY <1>5, <3>1 DEF Signals
  <2>2. CASE drv.pc # "init"
    <3>1. (csr0 \cup drv.causes) \cap W1C \subseteq csr0' \cup drv'.causes
      BY <1>5, <2>2
    <3>2. /\ drv'.rx \in FilledIn(rx') => "RINT" \in csr0' \cup drv'.causes
          /\ drv'.used > 0 /\ drv'.clean \notin OwnedIn(tx') => "TINT" \in csr0' \cup drv'.causes
      BY <1>4, <1>5, <2>2, <3>1 DEF W1C
    <3> QED
      BY <1>5, <3>2 DEF Signals
  <2> QED
    BY <2>1, <2>2
<1>6. CASE DriverStart
  <2> DEFINE v == {"STRT", "INEA", "IDON"}
  <2>1. /\ drv.pc = "init" /\ drv' = [drv EXCEPT !.pc = "run"] /\ WriteCsr0(v)
        /\ rx' = rx /\ rxq' = rxq /\ tx' = tx /\ sent' = sent
    BY <1>6 DEF DriverStart, To
  <2>2. "INIT" \notin v /\ "INEA" \in v
    OBVIOUS
  <2>3. "INEA" \in Written(v)
    BY <2>2 DEF Written
  <2> HIDE DEF v
  <2>4. Calm
    BY <1>2, <1>3, <2>1, <2>2, WriteKeeps DEF Pcs
  <2>5. line' = Interrupt(csr0') /\ "INEA" \in csr0'
    BY <2>1, <2>2, <2>3, WriteKeeps
  <2>6. drv'.pc = "run" /\ drv'.causes = {}
    BY <1>2, <1>4, <2>1
  <2> HIDE DEF Calm
  <2> QED
    BY <1>1, <1>5, <2>1, <2>4, <2>5, <2>6
<1>7. CASE DriverDemand
  <2> DEFINE v == {"TDMD", "INEA"}
  <2>1. /\ drv.pc = "demand" /\ drv' = [drv EXCEPT !.pc = "run"] /\ WriteCsr0(v)
        /\ rx' = rx /\ rxq' = rxq /\ tx' = tx /\ sent' = sent
    BY <1>7 DEF DriverDemand, To
  <2>2. "INIT" \notin v /\ "INEA" \in v /\ "STRT" \notin v
    OBVIOUS
  <2>3. csr0 \subseteq Written(v) /\ "INEA" \in Written(v)
    BY DEF Written, Cleared, W1C
  <2> HIDE DEF v
  <2>4. Calm
    BY <1>2, <1>3, <2>1, <2>2, WriteKeeps DEF Pcs
  <2>5. line' = Interrupt(csr0') /\ "INEA" \in csr0' /\ csr0 \subseteq csr0'
    BY <2>1, <2>2, <2>3, WriteKeeps
  <2>6. drv'.pc = "run" /\ drv'.causes = {} /\ drv.causes = {}
    BY <1>2, <1>4, <2>1
  <2> HIDE DEF Calm
  <2>7. (csr0 \cup drv.causes) \cap W1C \subseteq csr0' \cup drv'.causes
    BY <2>5, <2>6
  <2> QED
    BY <1>1, <1>5, <2>4, <2>5, <2>6, <2>7
<1>8. CASE DriverInterrupt
  <2>1. /\ drv.pc = "run" /\ drv' = [drv EXCEPT !.pc = "ack", !.causes = csr0 \cap W1C]
        /\ rx' = rx /\ rxq' = rxq /\ tx' = tx /\ sent' = sent /\ csr0' = csr0 /\ line' = line
        /\ running' = running /\ initialized' = initialized /\ txPending' = txPending
        /\ rxIndex' = rxIndex /\ txIndex' = txIndex
    BY <1>8 DEF DriverInterrupt, To, chip
  <2>2. csr0 \cap W1C \in SUBSET W1C
    OBVIOUS
  <2>3. Calm
    BY <1>2, <1>3, <2>1, <2>2 DEF Pcs, Types
  <2>4. drv'.pc = "ack" /\ drv'.causes = csr0 \cap W1C /\ drv.causes = {}
    BY <1>2, <1>4, <2>1
  <2>5. "INEA" \in csr0' /\ line' = Interrupt(csr0')
    BY <1>4, <2>1
  <2>6. (csr0 \cup drv.causes) \cap W1C \subseteq csr0' \cup drv'.causes
    BY <2>4
  <2> HIDE DEF Calm
  <2> QED
    BY <1>1, <1>5, <2>3, <2>4, <2>5, <2>6
<1>9. CASE DriverAck
  <2> DEFINE v == drv.causes \cup {"INEA"}
  <2>1. /\ drv.pc = "ack" /\ drv' = [drv EXCEPT !.pc = "serve"] /\ WriteCsr0(v)
        /\ rx' = rx /\ rxq' = rxq /\ tx' = tx /\ sent' = sent
    BY <1>9 DEF DriverAck, To
  <2>2. drv.causes \subseteq W1C
    BY <1>2
  <2>3. "INIT" \notin v /\ "INEA" \in v /\ "STRT" \notin v
    BY <2>2 DEF W1C
  <2>4. csr0 \subseteq Written(v) \cup drv.causes /\ "INEA" \in Written(v)
    BY <2>2, <2>3 DEF Written, Cleared, W1C
  <2> HIDE DEF v
  <2>5. Calm
    BY <1>2, <1>3, <2>1, <2>3, WriteKeeps DEF Pcs
  <2>6. line' = Interrupt(csr0') /\ "INEA" \in csr0' /\ csr0 \subseteq csr0' \cup drv.causes
    BY <2>1, <2>3, <2>4, WriteKeeps
  <2>7. drv'.pc = "serve" /\ drv'.causes = drv.causes
    BY <1>2, <2>1
  <2>8. (csr0 \cup drv.causes) \cap W1C \subseteq csr0' \cup drv'.causes
    BY <2>6, <2>7
  <2> HIDE DEF Calm
  <2> QED
    BY <1>1, <1>5, <2>5, <2>6, <2>7, <2>8
<1> QED
  BY <1>6, <1>7, <1>8, <1>9

\* The channels after a step.
LEMMA ChannelsBecome ==
  /\ RxUnderWay' = UnderWay(rx', drv'.rx, rxq')
  /\ TxUnderWay' = Sending(tx', drv'.clean, drv'.used)
BY Zenon DEF RxUnderWay, UnderWay, Filled, FilledIn, TxUnderWay, Sending, TxOwned, OwnedIn, Done

\* The whole of a sequence.
LEMMA WholeIs ==
  ASSUME NEW S, NEW s \in Seq(S)
  PROVE  s = SubSeq(s, 1, Len(s)) /\ 1 \in 1..Len(s) + 1 /\ Len(s) \in 0..Len(s)
<1>1. Len(s) \in Nat /\ 1 \in 1..Len(s) + 1 /\ Len(s) \in 0..Len(s)
  OBVIOUS
<1>2. s = SubSeq(s, 1, Len(s))
  OBVIOUS
<1> QED
  BY <1>1, <1>2

\* A part of a sequence at its front, or none of it.
LEMMA FrontIs ==
  ASSUME NEW S, NEW s \in Seq(S), NEW t \in Seq(S), Len(t) <= Len(s),
         \A k \in 1..Len(t) : t[k] = s[k]
  PROVE  t = SubSeq(s, 1, Len(t)) /\ 1 \in 1..Len(s) + 1 /\ Len(t) \in 0..Len(s)
<1>1. Len(s) \in Nat /\ Len(t) \in 0..Len(s) /\ 1 \in 1..Len(s) + 1
  OBVIOUS
<1> DEFINE u == SubSeq(s, 1, Len(t))
<1>2. u \in Seq(S) /\ Len(u) = Len(t) /\ \A k \in 1..Len(t) : u[k] = s[k]
  BY <1>1, SubSeqProperties
<1> HIDE DEF u
<1>3. t = u
  BY <1>2, SameSequence
<1> QED
  BY <1>1, <1>3 DEF u

\* The driver stops the chip: the handler's queue is lost, the rings stay.
LEMMA DriverStops ==
  ASSUME Types, RxInv, TxInv, Signals, DriverStop
  PROVE  Types' /\ RxInv' /\ TxInv' /\ Signals' /\ RxStep /\ TxStep
<1>1. /\ drv.pc = "run" /\ drv' = [drv EXCEPT !.pc = "down"]
      /\ csr0' = {"STOP"} /\ running' = FALSE /\ initialized' = FALSE /\ txPending' = FALSE
      /\ rxq' = <<>> /\ line' = Interrupt(csr0')
      /\ rxIndex' = rxIndex /\ txIndex' = txIndex /\ rx' = rx /\ tx' = tx /\ sent' = sent
  BY DEF DriverStop, StopChip, To
<1>2. drv \in [pc : Pcs, rx : RxSlot, tx : TxSlot, clean : TxSlot, used : 0..TxLen,
               causes : SUBSET W1C, made : Nat, got : Seq(RxItem)]
  BY DEF Types
<1>3. /\ drv'.pc = "down" /\ drv'.rx = drv.rx /\ drv'.tx = drv.tx /\ drv'.clean = drv.clean
      /\ drv'.used = drv.used /\ drv'.causes = drv.causes /\ drv'.got = drv.got
      /\ drv' \in [pc : Pcs, rx : RxSlot, tx : TxSlot, clean : TxSlot, used : 0..TxLen,
                   causes : SUBSET W1C, made : Nat, got : Seq(RxItem)]
  BY <1>1, <1>2 DEF Pcs
<1>4. RxInv'
  BY <1>1, <1>3, RxSame
<1>5. TxInv' /\ TxUnderWay' = TxUnderWay
  BY <1>1, <1>3, TxSame
<1>6. rxq' \in Seq(Queued)
  BY <1>1
<1>7. Types'
  BY <1>1, <1>3, <1>6 DEF Types
<1>8. Signals'
  <2>1. drv.causes = {}
    BY <1>1 DEF Signals
  <2> QED
    BY <1>1, <1>3, <2>1 DEF Signals
<1>9. TxStep
  <2>1. PICK r \in 0..drv.used : TxRing(r)
    BY DEF TxInv
  <2>2. TxUnderWay \in Seq(Kind)
    <3>1. tx \in TxRings /\ drv.clean \in TxSlot /\ drv.used \in 0..TxLen
          /\ SendingOK(tx, drv.clean, drv.used, r)
      BY <1>2, <2>1 DEF Types, TxRing
    <3> QED
      BY <3>1, SendingIs, ChannelsAre
  <2> DEFINE j == Len(TxUnderWay)
  <2>3. TxUnderWay = SubSeq(TxUnderWay, 1, j)
        /\ 1 \in 1..Len(TxUnderWay) + 1 /\ j \in 0..Len(TxUnderWay)
    BY <2>2, WholeIs
  <2> HIDE DEF j
  <2> QED
    BY <1>1, <1>5, <2>3, TxLoses
<1>10. RxStep
  <2>1. PICK c \in 0..RxLen : RxRing(c)
    BY DEF RxInv
  <2>2. rx \in RxRings /\ drv.rx \in RxSlot /\ RingOK(rx, drv.rx, c) /\ rxq \in Seq(Queued)
    BY <1>2, <2>1 DEF Types, RxRing
  <2>3. /\ RxUnderWay \in Seq(RxItem) /\ Len(RxUnderWay) = c + Len(rxq)
        /\ \A k \in 1..c : RxUnderWay[k] = rx[At(drv.rx, RxLen, k)].frame
    BY <2>2, UnderWayIs, ChannelsAre
  <2>4. RxUnderWay' = UnderWay(rx, drv.rx, rxq')
    BY <1>1, <1>3, ChannelsBecome
  <2>5. /\ UnderWay(rx, drv.rx, rxq') \in Seq(RxItem)
        /\ Len(UnderWay(rx, drv.rx, rxq')) = c + Len(rxq')
        /\ \A k \in 1..c : UnderWay(rx, drv.rx, rxq')[k] = rx[At(drv.rx, RxLen, k)].frame
    BY <1>6, <2>2, UnderWayIs
  <2>6. Len(rxq') = 0 /\ Len(rxq) \in Nat
    BY <1>1, <2>2
  <2>7. Len(RxUnderWay') = c /\ RxUnderWay' \in Seq(RxItem) /\ c <= Len(RxUnderWay)
    BY <2>1, <2>3, <2>4, <2>5, <2>6
  <2>8. \A k \in 1..Len(RxUnderWay') : RxUnderWay'[k] = RxUnderWay[k]
    BY <2>3, <2>4, <2>5, <2>7
  <2> DEFINE s == RxUnderWay
             t == RxUnderWay'
             j == Len(t)
  <2>9. /\ s \in Seq(RxItem) /\ t \in Seq(RxItem) /\ Len(t) <= Len(s)
        /\ \A k \in 1..Len(t) : t[k] = s[k]
    BY <2>3, <2>7, <2>8
  <2>10. t = SubSeq(s, 1, j) /\ 1 \in 1..Len(s) + 1 /\ j \in 0..Len(s)
    <3> HIDE DEF s, t
    <3> QED
      BY <2>9, FrontIs
  <2> HIDE DEF j
  <2> QED
    BY <1>1, <1>3, <2>10, RxLoses
<1> QED
  BY <1>4, <1>5, <1>7, <1>8, <1>9, <1>10

\* The first frame under way goes, the others move up.
LEMMA GivesBackWay ==
  ASSUME NEW ring \in RxRings, NEW d \in RxSlot, NEW c, RingOK(ring, d, c), c > 0,
         NEW q \in Seq(Queued)
  PROVE  LET new == [ring EXCEPT ![d] = [own |-> TRUE, frame |-> None]]
             old == UnderWay(ring, d, q)
             way == UnderWay(new, At(d, RxLen, 2), q)
         IN  /\ old \in Seq(RxItem) /\ way \in Seq(RxItem) /\ Rest(old, way)
             /\ old[1] = ring[d].frame
<1> DEFINE new == [ring EXCEPT ![d] = [own |-> TRUE, frame |-> None]]
           e   == At(d, RxLen, 2)
           old == UnderWay(ring, d, q)
           way == UnderWay(new, e, q)
           b == c - 1
<1>0. RxLen \in Nat \ {0} /\ c \in 1..RxLen /\ b \in 0..RxLen - 1 /\ b + 1 = c /\ Len(q) \in Nat
  BY RingAssumption DEF RingOK
<1>1. /\ new \in RxRings /\ e \in RxSlot /\ RingOK(new, e, b)
      /\ \A k \in 1..RxLen - 1 : new[At(e, RxLen, k)] = ring[At(d, RxLen, k + 1)]
      /\ At(d, RxLen, 1) = d
  <2>1. GivenBack(ring, d, c, new, e)
    BY GivesBack
  <2>2. At(d, RxLen, 1) = d
    <3>1. d \in 0..RxLen - 1
      BY DEF RxSlot
    <3> QED
      BY <1>0, <3>1, AtEnds
  <2> HIDE DEF new, e
  <2> QED
    BY <2>1, <2>2 DEF GivenBack, b
<1>2. /\ old \in Seq(RxItem) /\ Len(old) = c + Len(q)
      /\ \A k \in 1..c : old[k] = ring[At(d, RxLen, k)].frame
      /\ \A k \in c + 1..c + Len(q) : old[k] = Stored(q[k - c])
  BY UnderWayIs
<1> HIDE DEF new, e, b
<1>3. /\ way \in Seq(RxItem) /\ Len(way) = b + Len(q)
      /\ \A k \in 1..b : way[k] = new[At(e, RxLen, k)].frame
      /\ \A k \in b + 1..b + Len(q) : way[k] = Stored(q[k - b])
  BY <1>1, UnderWayIs
<1> HIDE DEF old, way
<1>4. Len(old) = Len(way) + 1
  BY <1>0, <1>2, <1>3
<1>5. ASSUME NEW k \in 1..Len(way) PROVE way[k] = old[k + 1]
  <2>1. CASE k <= b
    <3>1. k \in 1..b /\ k \in 1..RxLen - 1 /\ k + 1 \in 1..c
      BY <1>0, <1>3, <2>1
    <3>2. way[k] = new[At(e, RxLen, k)].frame /\ new[At(e, RxLen, k)] = ring[At(d, RxLen, k + 1)]
      BY <1>1, <1>3, <3>1
    <3>3. old[k + 1] = ring[At(d, RxLen, k + 1)].frame
      BY <1>2, <3>1
    <3> QED
      BY <3>2, <3>3
  <2>2. CASE ~ (k <= b)
    <3>1. k \in b + 1..b + Len(q) /\ k + 1 \in c + 1..c + Len(q) /\ k - b = (k + 1) - c
      BY <1>0, <1>3, <2>2
    <3>2. way[k] = Stored(q[k - b])
      BY <1>3, <3>1
    <3>3. old[k + 1] = Stored(q[(k + 1) - c])
      BY <1>2, <3>1
    <3> QED
      BY <3>1, <3>2, <3>3
  <2> QED
    BY <2>1, <2>2
<1>6. Rest(old, way)
  BY <1>4, <1>5 DEF Rest
<1>7. old[1] = ring[d].frame
  <2>1. 1 \in 1..c
    BY <1>0
  <2> QED
    BY <1>1, <1>2, <2>1
<1> QED
  BY <1>2, <1>3, <1>6, <1>7 DEF old, way, new, e

\* The driver takes a frame out of the receive ring.
LEMMA DriverReceives ==
  ASSUME Types, RxInv, TxInv, Signals, DriverReceive
  PROVE  Types' /\ RxInv' /\ TxInv' /\ Signals' /\ RxStep /\ TxStep
<1> DEFINE d == drv.rx
           e == At(d, RxLen, 2)
           back == [own |-> TRUE, frame |-> None]
<1>0. RxLen \in Nat \ {0}
  BY RingAssumption
<1>1. /\ drv.pc = "serve" /\ "RINT" \in drv.causes /\ ~ rx[d].own
      /\ rx' = [rx EXCEPT ![d] = back]
      /\ drv' = [drv EXCEPT !.got = Append(drv.got, rx[d].frame), !.rx = (d + 1) % RxLen]
      /\ running' = running /\ initialized' = initialized /\ txPending' = txPending
      /\ rxIndex' = rxIndex /\ txIndex' = txIndex /\ csr0' = csr0 /\ line' = line
      /\ tx' = tx /\ rxq' = rxq /\ sent' = sent
  BY DEF DriverReceive, chip
<1>2. /\ drv \in [pc : Pcs, rx : RxSlot, tx : TxSlot, clean : TxSlot, used : 0..TxLen,
                  causes : SUBSET W1C, made : Nat, got : Seq(RxItem)]
      /\ rx \in RxRings /\ rxq \in Seq(Queued)
  BY DEF Types
<1>3. d \in RxSlot /\ d \in 0..RxLen - 1
  BY <1>2 DEF RxSlot
<1>4. e = (d + 1) % RxLen
  <2>1. d + 2 - 1 = d + 1
    BY <1>3
  <2> QED
    BY <2>1 DEF At
<1>5. PICK c \in 0..RxLen : RxRing(c)
  BY DEF RxInv
<1>6. /\ RingOK(rx, d, c) /\ rxIndex = At(d, RxLen, c + 1)
      /\ \A k \in c + 1..RxLen : rx[At(d, RxLen, k)].own
  BY <1>1, <1>5 DEF RxRing
<1>7. c > 0
  <2> SUFFICES ASSUME ~ (c > 0) PROVE FALSE
    OBVIOUS
  <2>1. 1 \in c + 1..RxLen
    BY <1>0
  <2>2. At(d, RxLen, 1) = d
    BY <1>0, <1>3, AtEnds
  <2> QED
    BY <1>1, <1>6, <2>1, <2>2
<1> HIDE DEF e
<1>8. /\ rx' \in RxRings /\ e \in RxSlot /\ RingOK(rx', e, c - 1)
      /\ \A k \in 1..RxLen - 1 : rx'[At(e, RxLen, k)] = rx[At(d, RxLen, k + 1)]
      /\ rx'[At(e, RxLen, RxLen)] = back
      /\ At(e, RxLen, (c - 1) + 1) = At(d, RxLen, c + 1)
  <2> DEFINE new == [rx EXCEPT ![d] = [own |-> TRUE, frame |-> None]]
  <2>1. GivenBack(rx, d, c, new, At(d, RxLen, 2))
    BY <1>2, <1>3, <1>6, <1>7, GivesBack
  <2>2. rx' = new
    BY <1>1
  <2> HIDE DEF new
  <2>3. GivenBack(rx, d, c, rx', e)
    BY <2>1, <2>2 DEF e
  <2> QED
    BY <2>3, Zenon DEF GivenBack
<1>9. /\ UnderWay(rx, d, rxq) \in Seq(RxItem) /\ UnderWay(rx', e, rxq) \in Seq(RxItem)
      /\ Rest(UnderWay(rx, d, rxq), UnderWay(rx', e, rxq))
      /\ UnderWay(rx, d, rxq)[1] = rx[d].frame
  BY <1>1, <1>2, <1>3, <1>6, <1>7, GivesBackWay DEF e
<1>10. /\ drv'.rx = e /\ drv'.got = Append(drv.got, rx[d].frame)
       /\ drv'.pc = drv.pc /\ drv'.tx = drv.tx /\ drv'.clean = drv.clean
       /\ drv'.used = drv.used /\ drv'.causes = drv.causes /\ drv'.made = drv.made
  BY <1>1, <1>2, <1>4
<1>11. RxStep /\ drv'.got \in Seq(RxItem)
  <2>1. RxUnderWay = UnderWay(rx, d, rxq) /\ RxUnderWay' = UnderWay(rx', e, rxq)
    BY <1>1, <1>10, ChannelsAre, ChannelsBecome
  <2>2. RxUnderWay \in Seq(RxItem) /\ RxUnderWay' \in Seq(RxItem) /\ Rest(RxUnderWay, RxUnderWay')
    BY <1>9, <2>1
  <2>3. drv.got \in Seq(RxItem) /\ drv'.got = Append(drv.got, RxUnderWay[1]) /\ running' = running
    BY <1>1, <1>2, <1>9, <1>10, <2>1
  <2> QED
    BY <2>2, <2>3, RxGets
<1>12. drv' \in [pc : Pcs, rx : RxSlot, tx : TxSlot, clean : TxSlot, used : 0..TxLen,
                 causes : SUBSET W1C, made : Nat, got : Seq(RxItem)]
  <2> DEFINE g == Append(drv.got, rx[d].frame)
             m == (d + 1) % RxLen
  <2>1. g \in Seq(RxItem) /\ m \in RxSlot
    BY <1>4, <1>8, <1>10, <1>11
  <2>2. drv' = [drv EXCEPT !.got = g, !.rx = m]
    BY <1>1
  <2> HIDE DEF g, m
  <2> QED
    BY <1>2, <2>1, <2>2
<1>13. Types'
  BY <1>1, <1>8, <1>12 DEF Types
<1>14. RxInv'
  <2> DEFINE b == c - 1
  <2>1. b \in 0..RxLen /\ b + 1 = c
    BY <1>0, <1>5, <1>7
  <2>2. ASSUME NEW k \in b + 1..RxLen PROVE rx'[At(e, RxLen, k)].own
    <3>1. CASE k = RxLen
      BY <1>8, <3>1
    <3>2. CASE k # RxLen
      <4>1. k \in 1..RxLen - 1 /\ k + 1 \in c + 1..RxLen
        BY <1>0, <1>5, <1>7, <2>1, <3>2
      <4> QED
        BY <1>6, <1>8, <4>1
    <3> QED
      BY <3>1, <3>2
  <2>3. RxRing(b)'
    BY <1>1, <1>6, <1>8, <1>10, <2>2 DEF RxRing
  <2> QED
    BY <2>1, <2>3 DEF RxInv
<1>15. TxInv' /\ TxUnderWay' = TxUnderWay
  BY <1>1, <1>10, TxSame
<1>16. TxStep
  BY <1>1, <1>15, TxStarts
<1>17. Signals'
  BY <1>1, <1>10 DEF Signals
<1> QED
  BY <1>11, <1>13, <1>14, <1>15, <1>16, <1>17

\* Ring new, with one more slot in use than ring, and with one more frame under way.
HandedOver(ring, d, u, r, new) ==
  /\ new \in TxRings /\ SendingOK(new, d, u + 1, r + 1)
  /\ Sending(ring, d, u) \in Seq(Kind) /\ Sending(new, d, u + 1) \in Seq(Kind)
  /\ Len(Sending(ring, d, u)) < Len(Sending(new, d, u + 1))
  /\ \A k \in 1..Len(Sending(ring, d, u)) : Sending(ring, d, u)[k] = Sending(new, d, u + 1)[k]

\* The driver's frame is put behind those under way.
LEMMA HandsOverWay ==
  ASSUME NEW ring \in TxRings, NEW d \in TxSlot, NEW u \in 0..TxLen, NEW r, u < TxLen,
         SendingOK(ring, d, u, r), NEW f \in Kind
  PROVE  HandedOver(ring, d, u, r,
                    [ring EXCEPT ![At(d, TxLen, u + 1)] = [own |-> TRUE, frame |-> f]])
<1> DEFINE t   == At(d, TxLen, u + 1)
           new == [ring EXCEPT ![t] = [own |-> TRUE, frame |-> f]]
           v == u + 1
           s == r + 1
           old == Sending(ring, d, u)
           way == Sending(new, d, v)
<1>0. TxLen \in Nat \ {0} /\ r \in 0..u /\ v \in 0..TxLen /\ v - s = u - r
  BY RingAssumption DEF SendingOK
<1>1. new \in TxRings /\ SendingOK(new, d, v, s)
      /\ \A k \in 1..u : new[At(d, TxLen, k)] = ring[At(d, TxLen, k)]
  BY HandsOver
<1>2. /\ old \in Seq(Kind) /\ Len(old) = r
      /\ \A k \in 1..r : old[k] = ring[At(d, TxLen, u - r + k)].frame
  BY SendingIs
<1> HIDE DEF new, v, s
<1>3. /\ way \in Seq(Kind) /\ Len(way) = s
      /\ \A k \in 1..s : way[k] = new[At(d, TxLen, v - s + k)].frame
  <2>1. new \in TxRings /\ d \in TxSlot /\ v \in 0..TxLen /\ SendingOK(new, d, v, s)
    BY <1>0, <1>1
  <2> QED
    BY <2>1, SendingHas DEF HasSending
<1> HIDE DEF old, way
<1>4. ASSUME NEW k \in 1..r PROVE old[k] = way[k]
  <2>1. u - r + k \in 1..u /\ k \in 1..s /\ v - s + k = u - r + k
    BY <1>0 DEF s
  <2> DEFINE m == u - r + k
  <2>2. old[k] = ring[At(d, TxLen, m)].frame /\ way[k] = new[At(d, TxLen, m)].frame
    BY <1>2, <1>3, <2>1
  <2>3. m \in 1..u
    BY <2>1
  <2> HIDE DEF m
  <2> QED
    BY <1>1, <2>2, <2>3
<1>5. Len(old) < Len(way)
  BY <1>0, <1>2, <1>3 DEF s
<1>6. HandedOver(ring, d, u, r, new)
  BY <1>1, <1>2, <1>3, <1>4, <1>5 DEF HandedOver, old, way, v, s
<1> QED
  BY <1>6 DEF new

\* The driver hands over a frame. It has no transmitted frame to clean unless it
\* had one before, so TINT need not be announced anew.
LEMMA DriverSends ==
  ASSUME Types, RxInv, TxInv, Signals, NEW f \in Kind, DriverSend(f)
  PROVE  Types' /\ RxInv' /\ TxInv' /\ Signals' /\ RxStep /\ TxStep
<1> DEFINE d == drv.clean
           u == drv.used
<1>0. TxLen \in Nat \ {0}
  BY RingAssumption
<1>1. /\ drv.pc = "run" /\ u < TxLen
      /\ tx' = [tx EXCEPT ![drv.tx] = [own |-> TRUE, frame |-> f]]
      /\ drv' = [drv EXCEPT !.pc = "demand", !.tx = (drv.tx + 1) % TxLen, !.used = u + 1,
                            !.made = drv.made + 1]
      /\ running' = running /\ initialized' = initialized /\ txPending' = txPending
      /\ rxIndex' = rxIndex /\ txIndex' = txIndex /\ csr0' = csr0 /\ line' = line
      /\ rx' = rx /\ rxq' = rxq /\ sent' = sent
  BY DEF DriverSend, chip
<1>2. /\ drv \in [pc : Pcs, rx : RxSlot, tx : TxSlot, clean : TxSlot, used : 0..TxLen,
                  causes : SUBSET W1C, made : Nat, got : Seq(RxItem)]
      /\ tx \in TxRings /\ d \in TxSlot /\ u \in 0..TxLen
  BY DEF Types
<1>3. PICK r \in 0..u : TxRing(r)
  BY DEF TxInv
<1>4. /\ SendingOK(tx, d, u, r) /\ txIndex = At(d, TxLen, u - r + 1)
      /\ drv.tx = At(d, TxLen, u + 1)
  BY <1>3 DEF TxRing
<1>5. HandedOver(tx, d, u, r, tx')
  BY <1>1, <1>2, <1>4, HandsOverWay
<1>6. (drv.tx + 1) % TxLen = At(d, TxLen, u + 2) /\ At(d, TxLen, u + 2) \in TxSlot
  <2> DEFINE t == drv.tx
  <2>1. drv.tx + 1 = drv.tx + 2 - 1
    BY <1>2 DEF TxSlot
  <2>2. (drv.tx + 1) % TxLen = At(drv.tx, TxLen, 2)
    BY <2>1 DEF At
  <2>3. d \in 0..TxLen - 1 /\ u \in 0..TxLen /\ 2 \in 1..TxLen + 1 /\ u + 2 <= TxLen + 1
        /\ u + 2 \in 1..TxLen + 1
    BY <1>0, <1>1, <1>2 DEF TxSlot
  <2> HIDE DEF d, u
  <2>4. At(At(d, TxLen, u + 1), TxLen, 2) = At(d, TxLen, u + 2)
    BY <1>0, <2>3, AtAt
  <2>5. At(d, TxLen, u + 2) \in 0..TxLen - 1
    BY <1>0, <2>3, AtIs
  <2> QED
    BY <1>4, <2>2, <2>4, <2>5 DEF TxSlot
<1>7. /\ drv'.pc = "demand" /\ drv'.tx = At(d, TxLen, u + 2) /\ drv'.used = u + 1
      /\ drv'.rx = drv.rx /\ drv'.clean = d /\ drv'.causes = drv.causes /\ drv'.got = drv.got
      /\ drv' \in [pc : Pcs, rx : RxSlot, tx : TxSlot, clean : TxSlot, used : 0..TxLen,
                   causes : SUBSET W1C, made : Nat, got : Seq(RxItem)]
  <2> DEFINE t == (drv.tx + 1) % TxLen
             v == u + 1
             m == drv.made + 1
  <2>1. t \in TxSlot /\ v \in 0..TxLen /\ m \in Nat /\ t = At(d, TxLen, u + 2)
    BY <1>0, <1>1, <1>2, <1>6
  <2>2. drv' = [drv EXCEPT !.pc = "demand", !.tx = t, !.used = v, !.made = m]
    BY <1>1
  <2> HIDE DEF t, v, m
  <2>3. /\ drv'.pc = "demand" /\ drv'.tx = t /\ drv'.used = v
        /\ drv'.rx = drv.rx /\ drv'.clean = d /\ drv'.causes = drv.causes /\ drv'.got = drv.got
        /\ drv' \in [pc : Pcs, rx : RxSlot, tx : TxSlot, clean : TxSlot, used : 0..TxLen,
                     causes : SUBSET W1C, made : Nat, got : Seq(RxItem)]
    BY <1>2, <2>1, <2>2 DEF Pcs
  <2> QED
    BY <2>1, <2>3 DEF v
<1>8. tx' \in TxRings /\ SendingOK(tx', d, u + 1, r + 1)
  BY <1>5 DEF HandedOver
<1>9. Types'
  BY <1>1, <1>7, <1>8 DEF Types
<1>10. RxInv' /\ RxUnderWay' = RxUnderWay
  BY <1>1, <1>7, RxSame
<1>11. RxStep
  BY <1>1, <1>7, <1>10, RxStarts
<1>12. TxInv'
  <2> DEFINE s == r + 1
  <2>1. s \in 0..u + 1 /\ u - r + 1 = (u + 1) - s + 1 /\ u + 2 = (u + 1) + 1
    BY <1>2, <1>3
  <2>2. TxRing(s)'
    BY <1>1, <1>4, <1>7, <1>8, <2>1 DEF TxRing
  <2> HIDE DEF s
  <2> QED
    BY <1>7, <2>1, <2>2 DEF TxInv
<1>13. TxStep
  <2>1. TxUnderWay = Sending(tx, d, u) /\ TxUnderWay' = Sending(tx', d, u + 1)
    BY <1>7, ChannelsAre, ChannelsBecome
  <2>2. /\ TxUnderWay \in Seq(Kind) /\ TxUnderWay' \in Seq(Kind)
        /\ Len(TxUnderWay) < Len(TxUnderWay')
        /\ \A k \in 1..Len(TxUnderWay) : TxUnderWay[k] = TxUnderWay'[k]
    BY <1>5, <2>1, Zenon DEF HandedOver
  <2> QED
    BY <1>1, <2>2, TxPuts
<1>14. Signals'
  <2>1. /\ drv.rx \in FilledIn(rx) => "RINT" \in csr0 \cup drv.causes
        /\ u > 0 /\ d \notin OwnedIn(tx) => "TINT" \in csr0 \cup drv.causes
        /\ drv.causes = {} /\ line = Interrupt(csr0) /\ "INEA" \in csr0
    BY <1>1 DEF Signals
  <2>2. d \notin OwnedIn(tx') => u > 0 /\ d \notin OwnedIn(tx)
    <3> DEFINE v == u + 1
               s == r + 1
    <3>1. d \in TxSlot /\ v \in 0..TxLen /\ SendingOK(tx', d, v, s) /\ v > 0
      BY <1>0, <1>1, <1>2, <1>8
    <3> HIDE DEF v, s
    <3>2. d \in OwnedIn(tx') <=> s = v
      BY <3>1, FirstOwned
    <3>3. u > 0 => (d \in OwnedIn(tx) <=> r = u)
      BY <1>2, <1>4, FirstOwned
    <3>4. s # v => u > 0 /\ r # u
      BY <1>2, <1>3 DEF s, v
    <3> QED
      BY <3>2, <3>3, <3>4
  <2>3. drv'.rx \in FilledIn(rx') => "RINT" \in csr0' \cup drv'.causes
    BY <1>1, <1>7, <2>1
  <2>4. drv'.clean \notin OwnedIn(tx') => "TINT" \in csr0' \cup drv'.causes
    BY <1>1, <1>7, <2>1, <2>2
  <2> QED
    BY <1>1, <1>7, <2>1, <2>3, <2>4 DEF Signals
<1> QED
  BY <1>9, <1>10, <1>11, <1>12, <1>13, <1>14

\* Cleaning up to slot e, the first the chip has yet to send, leaves the ring as it is.
Cleaned(ring, d, u, r, e) ==
  /\ e \in TxSlot /\ SendingOK(ring, e, r, r) /\ At(e, TxLen, r - r + 1) = e
  /\ At(e, TxLen, r + 1) = At(d, TxLen, u + 1)
  /\ Sending(ring, e, r) = Sending(ring, d, u)

\* Nothing that is under way is in the slots cleaned.
LEMMA CleansWay ==
  ASSUME NEW ring \in TxRings, NEW d \in TxSlot, NEW u \in 0..TxLen, NEW r,
         SendingOK(ring, d, u, r)
  PROVE  Cleaned(ring, d, u, r, At(d, TxLen, u - r + 1))
<1> DEFINE e == At(d, TxLen, u - r + 1)
           old == Sending(ring, d, u)
           way == Sending(ring, e, r)
<1>0. TxLen \in Nat \ {0} /\ r \in 0..u /\ r \in 0..TxLen /\ r - r = 0
  BY RingAssumption DEF SendingOK
<1>1. /\ e \in TxSlot /\ SendingOK(ring, e, r, r)
      /\ \A k \in 1..r : At(e, TxLen, k) = At(d, TxLen, u - r + k)
      /\ At(e, TxLen, r - r + 1) = e
      /\ At(e, TxLen, r + 1) = At(d, TxLen, u + 1)
  BY Cleans
<1>2. /\ old \in Seq(Kind) /\ Len(old) = r
      /\ \A k \in 1..r : old[k] = ring[At(d, TxLen, u - r + k)].frame
  BY SendingIs
<1> HIDE DEF e
<1>3. /\ way \in Seq(Kind) /\ Len(way) = r
      /\ \A k \in 1..r : way[k] = ring[At(e, TxLen, r - r + k)].frame
  <2>1. ring \in TxRings /\ e \in TxSlot /\ r \in 0..TxLen /\ SendingOK(ring, e, r, r)
    BY <1>0, <1>1
  <2> QED
    BY <2>1, SendingHas DEF HasSending
<1> HIDE DEF old, way
<1>4. ASSUME NEW k \in 1..r PROVE old[k] = way[k]
  <2>1. r - r + k = k
    BY <1>0
  <2>2. old[k] = ring[At(d, TxLen, u - r + k)].frame /\ way[k] = ring[At(e, TxLen, k)].frame
    BY <1>2, <1>3, <2>1
  <2>3. At(e, TxLen, k) = At(d, TxLen, u - r + k)
    BY <1>1
  <2> QED
    BY <2>2, <2>3
<1>5. old = way
  <2>1. old \in Seq(Kind) /\ way \in Seq(Kind) /\ Len(old) = Len(way)
        /\ \A k \in 1..Len(old) : old[k] = way[k]
    BY <1>2, <1>3, <1>4
  <2> QED
    BY <2>1, SameSequence
<1>6. Cleaned(ring, d, u, r, e)
  BY <1>1, <1>5, Zenon DEF Cleaned, old, way
<1> QED
  BY <1>6 DEF e

\* The driver leaves the interrupt, having emptied the receive ring and cleaned the
\* transmit ring where the causes it read said so.
LEMMA DriverServes ==
  ASSUME Types, RxInv, TxInv, Signals, DriverServed
  PROVE  Types' /\ RxInv' /\ TxInv' /\ Signals' /\ RxStep /\ TxStep
<1> DEFINE d == drv.clean
           u == drv.used
           n == IF "TINT" \in drv.causes THEN Done ELSE 0
<1>0. TxLen \in Nat \ {0}
  BY RingAssumption
<1>1. /\ drv.pc = "serve" /\ ("RINT" \in drv.causes => rx[drv.rx].own)
      /\ drv' = [drv EXCEPT !.pc = "run", !.clean = (d + n) % TxLen, !.used = u - n,
                            !.causes = {}]
      /\ running' = running /\ initialized' = initialized /\ txPending' = txPending
      /\ rxIndex' = rxIndex /\ txIndex' = txIndex /\ csr0' = csr0 /\ line' = line
      /\ rx' = rx /\ tx' = tx /\ rxq' = rxq /\ sent' = sent
  BY DEF DriverServed, chip, To
<1>2. /\ drv \in [pc : Pcs, rx : RxSlot, tx : TxSlot, clean : TxSlot, used : 0..TxLen,
                  causes : SUBSET W1C, made : Nat, got : Seq(RxItem)]
      /\ tx \in TxRings /\ d \in TxSlot /\ u \in 0..TxLen
  BY DEF Types
<1>3. PICK r \in 0..u : TxRing(r)
  BY DEF TxInv
<1>4. /\ SendingOK(tx, d, u, r) /\ txIndex = At(d, TxLen, u - r + 1)
      /\ drv.tx = At(d, TxLen, u + 1)
  BY <1>3 DEF TxRing
<1> DEFINE e == (d + n) % TxLen
           v == u - n
<1>5. /\ e \in TxSlot /\ v \in 0..TxLen /\ r \in 0..v /\ SendingOK(tx, e, v, r)
      /\ txIndex = At(e, TxLen, v - r + 1) /\ drv.tx = At(e, TxLen, v + 1)
      /\ Sending(tx, e, v) = Sending(tx, d, u)
      /\ "TINT" \in drv.causes => v = r
      /\ "TINT" \notin drv.causes => e = d /\ v = u
  <2>1. CASE "TINT" \in drv.causes
    <3>1. Min({u, Run(d, TxLen, TxSlot \ OwnedIn(tx))}) = u - r
      BY <1>2, <1>4, SendingIs
    <3>2. n = u - r
      BY <2>1, <3>1, ChannelsAre
    <3> HIDE DEF n
    <3>3. v = r /\ d + n = d + (u - r + 1) - 1 /\ v \in 0..TxLen /\ r \in 0..v
      BY <1>0, <1>2, <1>3, <3>2 DEF TxSlot
    <3>4. e = At(d, TxLen, u - r + 1)
      BY <3>3 DEF At
    <3> HIDE DEF e, v
    <3>5. Cleaned(tx, d, u, r, e)
      BY <1>2, <1>4, <3>4, CleansWay
    <3> QED
      BY <1>4, <2>1, <3>3, <3>4, <3>5 DEF Cleaned
  <2>2. CASE "TINT" \notin drv.causes
    <3>1. n = 0
      BY <2>2
    <3> HIDE DEF n
    <3>2. d + n = d + 1 - 1 /\ d \in 0..TxLen - 1 /\ v = u
      BY <1>2, <3>1 DEF TxSlot
    <3>3. At(d, TxLen, 1) = d
      BY <1>0, <3>2, AtEnds
    <3>4. e = d
      BY <3>2, <3>3 DEF At
    <3> HIDE DEF e, v
    <3> QED
      BY <1>2, <1>3, <1>4, <2>2, <3>2, <3>4
  <2> QED
    BY <2>1, <2>2
<1> HIDE DEF e, v
<1>6. /\ drv'.pc = "run" /\ drv'.clean = e /\ drv'.used = v /\ drv'.causes = {}
      /\ drv'.rx = drv.rx /\ drv'.tx = drv.tx /\ drv'.got = drv.got
      /\ drv' \in [pc : Pcs, rx : RxSlot, tx : TxSlot, clean : TxSlot, used : 0..TxLen,
                   causes : SUBSET W1C, made : Nat, got : Seq(RxItem)]
  <2>1. drv' = [drv EXCEPT !.pc = "run", !.clean = e, !.used = v, !.causes = {}]
    BY <1>1 DEF e, v
  <2> QED
    BY <1>2, <1>5, <2>1 DEF Pcs
<1>7. Types'
  BY <1>1, <1>6 DEF Types
<1>8. RxInv' /\ RxUnderWay' = RxUnderWay
  BY <1>1, <1>6, RxSame
<1>9. RxStep
  BY <1>1, <1>6, <1>8, RxStarts
<1>10. TxInv'
  <2>1. TxRing(r)'
    BY <1>1, <1>5, <1>6 DEF TxRing
  <2> QED
    BY <1>5, <1>6, <2>1 DEF TxInv
<1>11. TxStep
  <2>1. TxUnderWay = Sending(tx, d, u) /\ TxUnderWay' = Sending(tx, e, v)
    BY <1>1, <1>6, ChannelsAre, ChannelsBecome
  <2>2. TxUnderWay' = TxUnderWay
    BY <1>5, <2>1
  <2> QED
    BY <1>1, <2>2, TxStarts
<1>12. Signals'
  <2>1. /\ drv.rx \in FilledIn(rx) => "RINT" \in csr0 \cup drv.causes
        /\ u > 0 /\ d \notin OwnedIn(tx) => "TINT" \in csr0 \cup drv.causes
        /\ line = Interrupt(csr0) /\ "INEA" \in csr0
    BY <1>1 DEF Signals
  <2>2. drv'.rx \in FilledIn(rx') => "RINT" \in csr0'
    BY <1>1, <1>6, <2>1 DEF FilledIn
  <2>3. v > 0 /\ e \notin OwnedIn(tx') => "TINT" \in csr0'
    <3>1. CASE "TINT" \in drv.causes
      <4>1. v = r
        BY <1>5, <3>1
      <4>2. v > 0 => (e \in OwnedIn(tx) <=> r = v)
        BY <1>5, FirstOwned
      <4> QED
        BY <1>1, <4>1, <4>2
    <3>2. CASE "TINT" \notin drv.causes
      BY <1>1, <1>5, <2>1, <3>2
    <3> QED
      BY <3>1, <3>2
  <2> QED
    BY <1>1, <1>6, <2>1, <2>2, <2>3 DEF Signals
<1> QED
  BY <1>7, <1>8, <1>9, <1>10, <1>11, <1>12

\* The end of a sequence.
LEMMA BackIs ==
  ASSUME NEW S, NEW s \in Seq(S), NEW t \in Seq(S), NEW c \in Nat, Len(s) = c + Len(t),
         \A k \in 1..Len(t) : t[k] = s[c + k]
  PROVE  t = SubSeq(s, c + 1, Len(s)) /\ c + 1 \in 1..Len(s) + 1 /\ Len(s) \in 0..Len(s)
<1> DEFINE u == SubSeq(s, c + 1, Len(s))
           i == c + 1
<1>1. Len(s) \in Nat /\ Len(t) \in Nat /\ c + 1 \in 1..Len(s) + 1 /\ c \in 0..Len(s)
  OBVIOUS
<1>2. u \in Seq(S) /\ Len(u) = Len(s) - c /\ \A k \in 1..Len(s) - c : u[k] = s[c + k]
  BY <1>1, DropIs
<1> HIDE DEF u
<1>3. Len(u) = Len(t)
  BY <1>1, <1>2
<1>4. \A k \in 1..Len(t) : u[k] = t[k]
  BY <1>1, <1>2
<1>5. u = t
  BY <1>2, <1>3, <1>4, SameSequence
<1> QED
  BY <1>1, <1>5 DEF u

\* Rings in which nothing is under way.
LEMMA EmptyRings ==
  ASSUME NEW r \in RxRings, FilledIn(r) = {}, NEW t \in TxRings, OwnedIn(t) = {}
  PROVE  /\ 0 \in RxSlot /\ RingOK(r, 0, 0) /\ At(0, RxLen, 0 + 1) = 0
         /\ 0 \in TxSlot /\ SendingOK(t, 0, 0, 0)
         /\ At(0, TxLen, 0 - 0 + 1) = 0 /\ At(0, TxLen, 0 + 1) = 0
<1>0. RxLen \in Nat \ {0} /\ TxLen \in Nat \ {0} /\ 0 \in 0..RxLen - 1 /\ 0 \in 0..TxLen - 1
  BY RingAssumption
<1>1. 0 \in RxSlot /\ 0 \in TxSlot /\ 0 + 1 = 1 /\ 0 - 0 + 1 = 1 /\ 0 \in 0..RxLen /\ 0 \in 0..0
  BY <1>0 DEF RxSlot, TxSlot
<1>2. At(0, RxLen, 1) = 0 /\ At(0, TxLen, 1) = 0
  BY <1>0, AtEnds
<1>3. \A k \in 1..RxLen : ~ (k <= 0)
  BY <1>0
<1>4. \A k \in 1..TxLen : ~ (0 - 0 < k /\ k <= 0)
  BY <1>0
<1>5. RingOK(r, 0, 0)
  BY <1>1, <1>3 DEF RingOK
<1>6. SendingOK(t, 0, 0, 0)
  BY <1>1, <1>4 DEF SendingOK
<1> QED
  BY <1>1, <1>2, <1>5, <1>6

\* The driver lays out the rings and initializes the chip: what was in the rings
\* is lost, what waits in the handler's queue is not.
LEMMA DriverInits ==
  ASSUME Types, RxInv, TxInv, Signals, DriverInit
  PROVE  Types' /\ RxInv' /\ TxInv' /\ Signals' /\ RxStep /\ TxStep
<1>1. /\ drv.pc = "down"
      /\ rx' = [i \in RxSlot |-> [own |-> TRUE, frame |-> None]]
      /\ tx' = [i \in TxSlot |-> [own |-> FALSE, frame |-> None]]
      /\ drv' = [drv EXCEPT !.pc = "init", !.rx = 0, !.tx = 0, !.clean = 0, !.used = 0]
      /\ rxq' = rxq /\ sent' = sent
  BY DEF DriverInit
<1>2. /\ ~ running /\ drv.causes = {}
  BY <1>1 DEF Signals
<1>3. /\ running' = running /\ initialized' \in BOOLEAN /\ txPending' \in BOOLEAN
      /\ rxIndex' = 0 /\ txIndex' = 0 /\ line' = Interrupt(csr0')
  <2>1. WriteCsr0({"INIT"})
    BY DEF DriverInit
  <2>2. running' = running
    <3>1. running' = (running \/ ("STRT" \in {"INIT"} /\ initialized'))
      BY <2>1 DEF WriteCsr0
    <3> QED
      BY <1>2, <3>1 DEF Types
  <2> QED
    BY <2>1, <2>2 DEF WriteCsr0, Types
<1>4. drv \in [pc : Pcs, rx : RxSlot, tx : TxSlot, clean : TxSlot, used : 0..TxLen,
               causes : SUBSET W1C, made : Nat, got : Seq(RxItem)]
  BY DEF Types
<1>5. 0 \in RxSlot /\ 0 \in TxSlot /\ 0 \in 0..TxLen /\ 0 \in 0..RxLen /\ 0 \in 0..0
  BY RingAssumption DEF RxSlot, TxSlot
<1>6. /\ drv'.pc = "init" /\ drv'.rx = 0 /\ drv'.tx = 0 /\ drv'.clean = 0 /\ drv'.used = 0
      /\ drv'.causes = {} /\ drv'.got = drv.got
      /\ drv' \in [pc : Pcs, rx : RxSlot, tx : TxSlot, clean : TxSlot, used : 0..TxLen,
                   causes : SUBSET W1C, made : Nat, got : Seq(RxItem)]
  BY <1>1, <1>2, <1>4, <1>5 DEF Pcs
<1>7. rx' \in RxRings /\ FilledIn(rx') = {} /\ tx' \in TxRings /\ OwnedIn(tx') = {}
  BY <1>1 DEF RxRings, TxRings, FilledIn, OwnedIn
<1>8. /\ RingOK(rx', 0, 0) /\ At(0, RxLen, 0 + 1) = 0 /\ SendingOK(tx', 0, 0, 0)
      /\ At(0, TxLen, 0 - 0 + 1) = 0 /\ At(0, TxLen, 0 + 1) = 0
  BY <1>7, EmptyRings
<1>9. Types'
  BY <1>1, <1>3, <1>5, <1>6, <1>7, <1>2 DEF Types
<1>10. RxInv'
  <2>1. \A k \in 0 + 1..RxLen : rx'[At(0, RxLen, k)].own
    <3> SUFFICES ASSUME NEW k \in 0 + 1..RxLen PROVE rx'[At(0, RxLen, k)].own
      OBVIOUS
    <3>1. RxLen \in Nat \ {0} /\ 0 \in 0..RxLen - 1 /\ k \in 1..RxLen + 1
      BY RingAssumption
    <3>2. At(0, RxLen, k) \in RxSlot
      BY <3>1, AtIs DEF RxSlot
    <3> QED
      BY <1>1, <3>2
  <2>2. RxRing(0)'
    BY <1>3, <1>6, <1>8, <2>1 DEF RxRing
  <2> QED
    BY <1>5, <2>2 DEF RxInv
<1>11. TxInv'
  <2>1. TxRing(0)'
    BY <1>3, <1>6, <1>8 DEF TxRing
  <2> QED
    BY <1>5, <1>6, <2>1 DEF TxInv
<1>12. Signals'
  BY <1>2, <1>3, <1>6, <1>7 DEF Signals
<1>13. TxStep
  <2>1. PICK r \in 0..drv.used : TxRing(r)
    BY DEF TxInv
  <2>2. TxUnderWay \in Seq(Kind)
    <3>1. tx \in TxRings /\ drv.clean \in TxSlot /\ drv.used \in 0..TxLen
          /\ SendingOK(tx, drv.clean, drv.used, r)
      BY <1>4, <2>1 DEF Types, TxRing
    <3> QED
      BY <3>1, SendingIs, ChannelsAre
  <2>3. TxUnderWay' = Sending(tx', 0, 0)
    BY <1>6, ChannelsBecome
  <2>4. Sending(tx', 0, 0) \in Seq(Kind) /\ Len(Sending(tx', 0, 0)) = 0
    BY <1>5, <1>7, <1>8, SendingIs
  <2> DEFINE s == TxUnderWay
             t == TxUnderWay'
             j == Len(t)
  <2>5. s \in Seq(Kind) /\ t \in Seq(Kind) /\ Len(t) <= Len(s) /\ \A k \in 1..Len(t) : t[k] = s[k]
    BY <2>2, <2>3, <2>4
  <2>6. t = SubSeq(s, 1, j) /\ 1 \in 1..Len(s) + 1 /\ j \in 0..Len(s)
    <3> HIDE DEF s, t
    <3> QED
      BY <2>5, FrontIs
  <2> HIDE DEF j
  <2> QED
    BY <1>1, <1>2, <1>3, <2>6, TxLoses
<1>14. RxStep
  <2>1. PICK c \in 0..RxLen : RxRing(c)
    BY DEF RxInv
  <2>2. rx \in RxRings /\ drv.rx \in RxSlot /\ RingOK(rx, drv.rx, c) /\ rxq \in Seq(Queued)
    BY <1>4, <2>1 DEF Types, RxRing
  <2>3. /\ RxUnderWay \in Seq(RxItem) /\ Len(RxUnderWay) = c + Len(rxq)
        /\ \A k \in c + 1..c + Len(rxq) : RxUnderWay[k] = Stored(rxq[k - c])
    <3>1. /\ UnderWay(rx, drv.rx, rxq) \in Seq(RxItem) /\ Len(UnderWay(rx, drv.rx, rxq)) = c + Len(rxq)
          /\ \A k \in c + 1..c + Len(rxq) : UnderWay(rx, drv.rx, rxq)[k] = Stored(rxq[k - c])
      BY <2>2, UnderWayIs
    <3> QED
      BY <3>1, ChannelsAre, Zenon
  <2>4. RxUnderWay' = UnderWay(rx', 0, rxq)
    BY <1>1, <1>6, ChannelsBecome
  <2>5. /\ UnderWay(rx', 0, rxq) \in Seq(RxItem) /\ Len(UnderWay(rx', 0, rxq)) = 0 + Len(rxq)
        /\ \A k \in 0 + 1..0 + Len(rxq) : UnderWay(rx', 0, rxq)[k] = Stored(rxq[k - 0])
    BY <1>5, <1>7, <1>8, <2>2, UnderWayIs
  <2> DEFINE s == RxUnderWay
             t == RxUnderWay'
  <2>6. c \in Nat /\ Len(rxq) \in Nat
    BY <2>2, RingAssumption
  <2>7. s \in Seq(RxItem) /\ t \in Seq(RxItem) /\ Len(t) = Len(rxq) /\ Len(s) = c + Len(t)
    BY <2>3, <2>4, <2>5, <2>6
  <2>8. ASSUME NEW k \in 1..Len(t) PROVE t[k] = s[c + k]
    <3>1. k \in 0 + 1..0 + Len(rxq) /\ k - 0 = k /\ c + k \in c + 1..c + Len(rxq) /\ (c + k) - c = k
      BY <2>6, <2>7
    <3>2. t[k] = Stored(rxq[k])
      BY <2>4, <2>5, <3>1
    <3>3. s[c + k] = Stored(rxq[k])
      <4> DEFINE m == c + k
      <4>1. m \in c + 1..c + Len(rxq) /\ m - c = k
        BY <3>1
      <4> HIDE DEF m
      <4>2. s[m] = Stored(rxq[m - c])
        BY <2>3, <4>1
      <4> QED
        BY <4>1, <4>2 DEF m
    <3> QED
      BY <3>2, <3>3
  <2> DEFINE i == c + 1
             j == Len(s)
  <2>9. t = SubSeq(s, i, j) /\ i \in 1..Len(s) + 1 /\ j \in 0..Len(s)
    <3> HIDE DEF s, t
    <3> QED
      BY <2>6, <2>7, <2>8, BackIs
  <2> HIDE DEF i, j
  <2> QED
    BY <1>2, <1>3, <1>6, <2>9, RxLoses
<1> QED
  BY <1>9, <1>10, <1>11, <1>12, <1>13, <1>14

\* A frame put into the queue is put into the channel.
LEMMA QueuedWay ==
  ASSUME NEW ring \in RxRings, NEW d \in RxSlot, NEW c, RingOK(ring, d, c),
         NEW q \in Seq(Queued), NEW b \in Queued
  PROVE  LET old == UnderWay(ring, d, q)
             way == UnderWay(ring, d, Append(q, b))
         IN  /\ old \in Seq(RxItem) /\ way \in Seq(RxItem) /\ Len(old) <= Len(way)
             /\ \A k \in 1..Len(old) : old[k] = way[k]
<1> DEFINE p == Append(q, b)
           old == UnderWay(ring, d, q)
           way == UnderWay(ring, d, p)
<1>0. c \in Nat /\ Len(q) \in Nat
  BY RingAssumption DEF RingOK
<1>1. p \in Seq(Queued) /\ Len(p) = Len(q) + 1 /\ \A k \in 1..Len(q) : p[k] = q[k]
  OBVIOUS
<1>2. /\ old \in Seq(RxItem) /\ Len(old) = c + Len(q)
      /\ \A k \in 1..c : old[k] = ring[At(d, RxLen, k)].frame
      /\ \A k \in c + 1..c + Len(q) : old[k] = Stored(q[k - c])
  BY UnderWayIs
<1> HIDE DEF p
<1>3. /\ way \in Seq(RxItem) /\ Len(way) = c + Len(p)
      /\ \A k \in 1..c : way[k] = ring[At(d, RxLen, k)].frame
      /\ \A k \in c + 1..c + Len(p) : way[k] = Stored(p[k - c])
  BY <1>1, UnderWayIs
<1> HIDE DEF old, way
<1>4. ASSUME NEW k \in 1..Len(old) PROVE old[k] = way[k]
  <2>1. CASE k <= c
    <3>1. k \in 1..c
      BY <1>0, <1>2, <2>1
    <3> QED
      BY <1>2, <1>3, <3>1
  <2>2. CASE ~ (k <= c)
    <3>1. k \in c + 1..c + Len(q) /\ k \in c + 1..c + Len(p) /\ k - c \in 1..Len(q)
      BY <1>0, <1>1, <1>2, <2>2
    <3>2. old[k] = Stored(q[k - c]) /\ way[k] = Stored(p[k - c]) /\ p[k - c] = q[k - c]
      BY <1>1, <1>2, <1>3, <3>1
    <3> QED
      BY <3>2
  <2> QED
    BY <2>1, <2>2
<1>5. Len(old) <= Len(way)
  BY <1>0, <1>1, <1>2, <1>3
<1> QED
  BY <1>2, <1>3, <1>4, <1>5 DEF old, way, p

\* The reader thread puts a frame into the queue.
LEMMA TapQueueKeeps ==
  ASSUME Types, RxInv, TxInv, Signals, Reading, TapQueues
  PROVE  Types' /\ RxInv' /\ TxInv' /\ Signals' /\ RxStep /\ TxStep
<1>1. /\ rxq' = Append(rxq, buffer) /\ rx' = rx /\ tx' = tx /\ drv' = drv /\ sent' = sent
      /\ csr0' = csr0 /\ running' = running /\ initialized' = initialized
      /\ txPending' = txPending /\ rxIndex' = rxIndex /\ txIndex' = txIndex /\ line' = line
  BY DEF TapQueues, chip
<1>2. buffer \in Queued
  BY DEF TapQueues, Queue, Ready, Reading, FrameSet, Queued
<1>3. Types'
  <2>1. rxq' \in Seq(Queued)
    BY <1>1, <1>2 DEF Types
  <2> QED
    BY <1>1, <2>1 DEF Types
<1>4. RxInv'
  BY <1>1, RxSame
<1>5. TxInv' /\ TxUnderWay' = TxUnderWay
  BY <1>1, TxSame
<1>6. TxStep
  BY <1>1, <1>5, TxStarts
<1>7. Signals'
  BY <1>1 DEF Signals
<1>8. RxStep
  <2> DEFINE d == drv.rx
  <2>1. PICK c \in 0..RxLen : RxRing(c)
    BY DEF RxInv
  <2>2. rx \in RxRings /\ d \in RxSlot /\ RingOK(rx, d, c) /\ rxq \in Seq(Queued)
    BY <2>1 DEF Types, RxRing
  <2>3. LET old == UnderWay(rx, d, rxq)
            way == UnderWay(rx, d, Append(rxq, buffer))
        IN  /\ old \in Seq(RxItem) /\ way \in Seq(RxItem) /\ Len(old) <= Len(way)
            /\ \A k \in 1..Len(old) : old[k] = way[k]
    <3> HIDE DEF d
    <3> QED
      BY <1>2, <2>2, QueuedWay
  <2>4. RxUnderWay = UnderWay(rx, d, rxq) /\ RxUnderWay' = UnderWay(rx, d, Append(rxq, buffer))
    BY <1>1, ChannelsAre, ChannelsBecome
  <2>5. /\ RxUnderWay \in Seq(RxItem) /\ RxUnderWay' \in Seq(RxItem)
        /\ Len(RxUnderWay) <= Len(RxUnderWay')
        /\ \A k \in 1..Len(RxUnderWay) : RxUnderWay[k] = RxUnderWay'[k]
    BY <2>3, <2>4
  <2> QED
    BY <1>1, <2>5, RxPuts
<1> QED
  BY <1>3, <1>4, <1>5, <1>6, <1>7, <1>8

\* A step that leaves the LANCE, its driver and the queue alone.
LEMMA ElseKeeps ==
  ASSUME Types, RxInv, TxInv, Signals, UNCHANGED lanceVars
  PROVE  Types' /\ RxInv' /\ TxInv' /\ Signals' /\ RxStep /\ TxStep
<1>1. /\ rxq' = rxq /\ rx' = rx /\ tx' = tx /\ drv' = drv /\ sent' = sent
      /\ csr0' = csr0 /\ running' = running /\ initialized' = initialized
      /\ txPending' = txPending /\ rxIndex' = rxIndex /\ txIndex' = txIndex /\ line' = line
  BY DEF lanceVars, chip
<1>2. Types'
  BY <1>1 DEF Types
<1>3. RxInv' /\ RxUnderWay' = RxUnderWay
  BY <1>1, RxSame
<1>4. TxInv' /\ TxUnderWay' = TxUnderWay
  BY <1>1, TxSame
<1>5. RxStep /\ TxStep
  BY <1>1, <1>3, <1>4, RxStarts, TxStarts
<1>6. Signals'
  BY <1>1 DEF Signals
<1> QED
  BY <1>2, <1>3, <1>4, <1>5, <1>6

-----------------------------------------------------------------------------
(* The whole.                                                              *)

\* Every step keeps the inductive invariant, and is a step of both channels or
\* leaves them as they are.
LEMMA StepKeeps ==
  ASSUME IInv, [MCNext]_vars
  PROVE  IInv' /\ RxStep /\ TxStep
<1>1. Types /\ RxInv /\ TxInv /\ Signals /\ Reading
  BY DEF IInv
<1>2. Reading'
  BY <1>1, ReadingKept
<1>3. Types' /\ RxInv' /\ TxInv' /\ Signals' /\ RxStep /\ TxStep
  <2>1. CASE Tick
    BY <1>1, <2>1, TickKeeps
  <2>2. CASE DriverInit
    BY <1>1, <2>2, DriverInits
  <2>3. CASE DriverStart \/ DriverDemand \/ DriverInterrupt \/ DriverAck
    BY <1>1, <2>3, DriverSmall
  <2>4. CASE DriverStop
    BY <1>1, <2>4, DriverStops
  <2>5. ASSUME NEW f \in Kind, DriverSend(f)
        PROVE  Types' /\ RxInv' /\ TxInv' /\ Signals' /\ RxStep /\ TxStep
    BY <1>1, <2>5, DriverSends
  <2>6. CASE DriverReceive
    BY <1>1, <2>6, DriverReceives
  <2>7. CASE DriverServed
    BY <1>1, <2>7, DriverServes
  <2>8. CASE TapQueues
    BY <1>1, <2>8, TapQueueKeeps
  <2>9. CASE UNCHANGED lanceVars
    BY <1>1, <2>9, ElseKeeps
  <2>10. UNCHANGED vars => UNCHANGED lanceVars
    BY DEF vars
  <2> QED
    BY <2>1, <2>2, <2>3, <2>4, <2>5, <2>6, <2>7, <2>8, <2>9, <2>10
       DEF MCNext, Ticks, Drives, Driver, TapRuns
<1> QED
  BY <1>2, <1>3 DEF IInv

\* The initial states.
LEMMA StartIs ==
  ASSUME MCInit
  PROVE  IInv /\ RxFifo!Init /\ TxFifo!Init
<1>1. /\ csr0 = {"STOP"} /\ running = FALSE /\ initialized = FALSE /\ txPending = FALSE
      /\ rxIndex = 0 /\ txIndex = 0 /\ line = FALSE
      /\ rx = [i \in RxSlot |-> [own |-> FALSE, frame |-> None]]
      /\ tx = [i \in TxSlot |-> [own |-> FALSE, frame |-> None]]
      /\ rxq = <<>> /\ sent = <<>>
      /\ drv = [pc |-> "down", rx |-> 0, tx |-> 0, clean |-> 0, used |-> 0,
                causes |-> {}, made |-> 0, got |-> <<>>]
  BY DEF MCInit, Init
<1>2. 0 \in RxSlot /\ 0 \in TxSlot /\ 0 \in 0..TxLen /\ 0 \in 0..RxLen /\ 0 \in 0..0
  BY RingAssumption DEF RxSlot, TxSlot
<1>3. rx \in RxRings /\ FilledIn(rx) = {} /\ tx \in TxRings /\ OwnedIn(tx) = {}
  BY <1>1 DEF RxRings, TxRings, FilledIn, OwnedIn
<1>4. /\ RingOK(rx, 0, 0) /\ At(0, RxLen, 0 + 1) = 0 /\ SendingOK(tx, 0, 0, 0)
      /\ At(0, TxLen, 0 - 0 + 1) = 0 /\ At(0, TxLen, 0 + 1) = 0
  BY <1>3, EmptyRings
<1>5. Types
  <2>1. rxq \in Seq(Queued) /\ sent \in Seq(Kind) /\ <<>> \in Seq(RxItem)
    BY <1>1
  <2>2. drv \in [pc : Pcs, rx : RxSlot, tx : TxSlot, clean : TxSlot, used : 0..TxLen,
                 causes : SUBSET W1C, made : Nat, got : Seq(RxItem)]
    BY <1>1, <1>2, <2>1 DEF Pcs
  <2> QED
    BY <1>1, <1>2, <1>3, <2>1, <2>2 DEF Types
<1>6. RxInv
  <2>1. RxRing(0)
    BY <1>1, <1>4 DEF RxRing
  <2> QED
    BY <1>2, <2>1 DEF RxInv
<1>7. TxInv
  <2>1. TxRing(0)
    BY <1>1, <1>4 DEF TxRing
  <2> QED
    BY <1>1, <1>2, <2>1 DEF TxInv
<1>8. Signals
  <2>1. ~ Interrupt(csr0)
    BY <1>1 DEF Interrupt
  <2>2. drv.pc = "down" /\ drv.causes = {} /\ line = Interrupt(csr0) /\ ~ running
    <3>1. Interrupt(csr0) = FALSE
      BY <2>1 DEF Interrupt
    <3> QED
      BY <1>1, <3>1
  <2> QED
    BY <2>2 DEF Signals
<1>9. Reading
  BY ReadingStarts DEF MCInit
<1>10. RxUnderWay = <<>>
  <2>1. UnderWay(rx, 0, rxq) \in Seq(RxItem) /\ Len(UnderWay(rx, 0, rxq)) = 0 + Len(rxq)
    <3>1. rxq \in Seq(Queued)
      BY <1>1
    <3> QED
      BY <1>2, <1>3, <1>4, <3>1, UnderWayIs
  <2>2. RxUnderWay = UnderWay(rx, 0, rxq) /\ Len(rxq) = 0
    BY <1>1, ChannelsAre
  <2> QED
    BY <2>1, <2>2, EmptySeq
<1>11. TxUnderWay = <<>>
  <2>1. Sending(tx, 0, 0) \in Seq(Kind) /\ Len(Sending(tx, 0, 0)) = 0
    BY <1>2, <1>3, <1>4, SendingIs
  <2>2. TxUnderWay = Sending(tx, 0, 0)
    BY <1>1, ChannelsAre
  <2> QED
    BY <2>1, <2>2, EmptySeq
<1>12. RxFifo!Init /\ TxFifo!Init
  BY <1>1, <1>10, <1>11 DEF RxFifo!Init, TxFifo!Init
<1> QED
  BY <1>5, <1>6, <1>7, <1>8, <1>9, <1>12 DEF IInv

\* The driver's indexes and the chip's (m_rxRingIndex, m_txRingIndex) never get out of
\* step: the slots the chip filled start at the driver's index and end before the
\* chip's, those it has yet to send start at the chip's and end before the driver's,
\* for rings of any length, and whatever Tick, the driver and the handler do in turn.
THEOREM RingsAreCorrect == MCSpec => []IInv
<1>1. MCInit => IInv
  BY StartIs
<1>2. IInv /\ [MCNext]_vars => IInv'
  BY StepKeeps
<1> QED
  BY <1>1, <1>2, PTL DEF MCSpec

\* The receive ring with the queue behind it, and the transmit ring, each implement
\* the channel of Fifo: ProcessRxRing and ProcessTxRing deliver every frame once,
\* whole and in order, unless the chip is stopped.
THEOREM FramesKeepOrder == MCSpec => FramesInOrder
<1>1. MCInit => RxFifo!Init /\ TxFifo!Init
  BY StartIs
<1>2. IInv /\ [MCNext]_vars => [RxFifo!Next]_<<RxUnderWay, drv.got, running>>
  BY StepKeeps, Zenon DEF RxStep
<1>3. IInv /\ [MCNext]_vars => [TxFifo!Next]_<<TxUnderWay, sent, running>>
  BY StepKeeps, Zenon DEF TxStep
<1> QED
  BY <1>1, <1>2, <1>3, RingsAreCorrect, PTL
     DEF MCSpec, FramesInOrder, RxFifo!Spec, TxFifo!Spec

\* UpdateInterrupt and the clearing of causes by ones leave no work unannounced: a
\* driver outside its interrupt with a frame to receive or a slot to clean has the
\* interrupt line up.
THEOREM WorkSignalled == MCSpec => []WorkIsSignalled
<1>1. IInv => WorkIsSignalled
  <2> SUFFICES ASSUME IInv, drv.pc \in {"run", "demand"},
                      drv.rx \in Filled \/ (drv.used > 0 /\ ~tx[drv.clean].own)
               PROVE  line
    BY DEF WorkIsSignalled
  <2>1. /\ line = Interrupt(csr0) /\ "INEA" \in csr0 /\ drv.causes = {}
        /\ drv.rx \in FilledIn(rx) => "RINT" \in csr0
        /\ drv.used > 0 /\ drv.clean \notin OwnedIn(tx) => "TINT" \in csr0
    BY DEF IInv, Signals
  <2>2. drv.rx \in FilledIn(rx) \/ (drv.used > 0 /\ drv.clean \notin OwnedIn(tx))
    BY ChannelsAre DEF OwnedIn
  <2>3. "RINT" \in csr0 \/ "TINT" \in csr0
    BY <2>1, <2>2
  <2>4. Interrupt(csr0)
    BY <2>1, <2>3 DEF Interrupt, W1C
  <2> QED
    BY <2>1, <2>4
<1> QED
  BY <1>1, RingsAreCorrect, PTL

\* TapNetworkHandler's ReadLoop queues the adapter's frames in their order and
\* leaves none out, as long as no wait of its ran out.
THEOREM TapKeepsFrames == MCSpec => []TapLosesOnlyAbandoned
<1>1. IInv => TapLosesOnlyAbandoned
  BY DEF IInv, Reading, TapLosesOnlyAbandoned
<1> QED
  BY <1>1, RingsAreCorrect, PTL
=============================================================================
