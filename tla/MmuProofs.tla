----------------------------- MODULE MmuProofs -----------------------------
(***************************************************************************)
(* What holds of the MMU and the page caches of the CPU for any tables and *)
(* any size of the ATC, whatever the guest does to its tables and when.    *)
(***************************************************************************)
EXTENDS Mmu, TLAPS

Lines == {Index[k] : k \in Key}
Entry == [valid : BOOLEAN, key : Key, frame : Frame, wp : BOOLEAN, m : BOOLEAN]
Atc == [Lines -> Entry]
Memory == [Slot -> Desc]

-----------------------------------------------------------------------------
(* Arithmetic of page frames.                                              *)

\* A frame number has one way to be put together from a multiple and a rest.
LEMMA DivisionUnique ==
  ASSUME NEW n \in Nat \ {0}, NEW q \in Int, NEW p \in 0..(n - 1)
  PROVE  (q * n + p) \div n = q /\ (q * n + p) % n = p
<1> DEFINE d == (q * n + p) \div n
           r == (q * n + p) % n
<1>1. d \in Int /\ r \in 0..(n - 1) /\ q * n + p = n * d + r
  OBVIOUS
<1>2. n * (q - d) = r - p
  BY <1>1
<1>3. q - d < 1
  <2> SUFFICES ASSUME q - d >= 1 PROVE FALSE
    BY <1>1
  <2>1. n * (q - d) >= n
    BY <1>1
  <2> QED
    BY <1>1, <1>2, <2>1
<1>4. q - d > -1
  <2> SUFFICES ASSUME q - d <= -1 PROVE FALSE
    BY <1>1
  <2>1. n * (q - d) <= -n
    BY <1>1
  <2> QED
    BY <1>1, <1>2, <2>1
<1>5. d = q
  BY <1>1, <1>3, <1>4
<1> QED
  BY <1>1, <1>5

\* The frames of a large page are frames, one for each of its pages.
LEMMA LargeFrame ==
  ASSUME NEW f \in Frame, NEW p \in Page
  PROVE  LET g == (f \div NPages) * NPages + p
         IN  g \in Frame /\ g % NPages = p /\ g \div NPages = f \div NPages
<1> DEFINE q == f \div NPages
           b == NFrames \div NPages
<1>1. NPages \in Nat \ {0} /\ NFrames \in Nat \ {0}
  BY SizeAssumption
<1>2. q \in Nat /\ q * NPages <= f /\ f < NFrames
  BY <1>1 DEF Frame
<1>3. b \in Nat /\ NFrames = b * NPages
  BY <1>1, SizeAssumption
<1>4. q + 1 <= b
  <2> SUFFICES ASSUME b <= q PROVE FALSE
    BY <1>2, <1>3
  <2>1. b * NPages <= q * NPages
    BY <1>1, <1>2, <1>3
  <2> QED
    BY <1>1, <1>2, <1>3, <2>1 DEF Frame
<1>5. (q + 1) * NPages <= b * NPages
  BY <1>1, <1>2, <1>3, <1>4
<1>6. q * NPages + NPages <= NFrames /\ q * NPages \in Nat
  BY <1>1, <1>2, <1>3, <1>5
<1>7. q * NPages + p \in Frame
  BY <1>1, <1>6 DEF Frame, Page
<1>8. p \in 0..(NPages - 1) /\ q \in Int
  BY <1>2 DEF Page
<1>9. (q * NPages + p) \div NPages = q /\ (q * NPages + p) % NPages = p
  <2> HIDE DEF q
  <2> QED
    BY <1>1, <1>8, DivisionUnique
<1> QED
  BY <1>7, <1>9


-----------------------------------------------------------------------------
(* Tables.                                                                 *)

\* OnPath and MapsTo in any tables d.
On(d, k, s) ==
    \/ s = <<RootOf(k), Top>>
    \/ s = <<RootOf(k), k.page>> /\ d[<<RootOf(k), Top>>].dt = "table"

Maps(d, k, f) ==
    \E s \in Slot :
        /\ On(d, k, s) /\ d[s].dt = "page"
        /\ \/ s[2] # Top /\ f = d[s].frame
           \/ s[2] = Top /\ f % NPages = k.page /\ f \div NPages = d[s].frame \div NPages

\* What an entry of the ATC tells of its key is so.
Says(d, e) ==
    /\ Maps(d, e.key, e.frame)
    /\ e.wp <=> \E s \in Slot : On(d, e.key, s) /\ d[s].wp
    /\ e.m => \E s \in Slot : On(d, e.key, s) /\ d[s].dt = "page" /\ d[s].m

\* Tables that differ in M bits set since.
Grown(d, g) ==
    \A s \in Slot :
        /\ g[s].dt = d[s].dt /\ g[s].wp = d[s].wp /\ g[s].frame = d[s].frame
        /\ d[s].m => g[s].m

Marked(d, S) == \A s \in S : d[s].m /\ ~d[s].wp /\ ~d[<<s[1], Top>>].wp

\* A walk ends at the one page descriptor on its path, and a level protects
\* the page if and only if the walk says so.
LEMMA LeafOnPath ==
  ASSUME cfg \in Config, NEW d \in Memory, NEW k \in Key
  PROVE  /\ Leaf(d, k) \in Slot /\ On(d, k, Leaf(d, k)) /\ Leaf(d, k)[1] = RootOf(k)
         /\ \A s \in Slot : On(d, k, s) /\ d[s].dt = "page" => s = Leaf(d, k)
         /\ Protected(d, k) <=> \E s \in Slot : On(d, k, s) /\ d[s].wp
         /\ Leaf(d, k)[2] # Top => Leaf(d, k)[2] = k.page
<1>1. RootOf(k) \in Root /\ k.page \in Page
  BY DEF RootOf, Config, Key
<1>2. <<RootOf(k), Top>> \in Slot /\ <<RootOf(k), k.page>> \in Slot
  BY <1>1 DEF Slot
<1>3. CASE d[<<RootOf(k), Top>>].dt = "table"
  BY <1>1, <1>2, <1>3 DEF Leaf, On, Protected
<1>4. CASE d[<<RootOf(k), Top>>].dt # "table"
  BY <1>1, <1>2, <1>4 DEF Leaf, On, Protected
<1> QED
  BY <1>3, <1>4

\* The frame a walk arrives at is the one the tables mean.
LEMMA WalkMaps ==
  ASSUME cfg \in Config, NEW d \in Memory, NEW k \in Key, d[Leaf(d, k)].dt = "page"
  PROVE  LET f == FrameAt(Leaf(d, k), d[Leaf(d, k)].frame, k.page)
         IN  f \in Frame /\ Maps(d, k, f)
<1> DEFINE s == Leaf(d, k)
<1>1. s \in Slot /\ On(d, k, s) /\ d[s].frame \in Frame /\ k.page \in Page
  BY LeafOnPath DEF Memory, Desc, Key
<1>2. CASE s[2] = Top
  <2> DEFINE f == (d[s].frame \div NPages) * NPages + k.page
  <2>1. f \in Frame /\ f % NPages = k.page /\ f \div NPages = d[s].frame \div NPages
    BY <1>1, LargeFrame
  <2>2. FrameAt(s, d[s].frame, k.page) = f
    BY <1>2 DEF FrameAt
  <2> HIDE DEF f, s
  <2>3. Maps(d, k, f)
    BY <1>1, <1>2, <2>1 DEF Maps, s
  <2> QED
    BY <2>1, <2>2, <2>3 DEF s
<1>3. CASE s[2] # Top
  BY <1>1, <1>3 DEF Maps, FrameAt
<1> QED
  BY <1>2, <1>3

\* M bits change nothing else that anything relies on.
LEMMA GrownKeeps ==
  ASSUME NEW d \in Memory, NEW g \in Memory, Grown(d, g)
  PROVE  /\ \A k \in Key : cfg \in Config => Leaf(g, k) = Leaf(d, k)
         /\ \A k \in Key, f \in Frame : cfg \in Config /\ Maps(d, k, f) => Maps(g, k, f)
         /\ \A e \in Entry : cfg \in Config /\ Says(d, e) => Says(g, e)
         /\ \A S \in SUBSET Slot : Marked(d, S) => Marked(g, S)
<1>1. ASSUME NEW k \in Key, cfg \in Config
      PROVE  /\ RootOf(k) \in Root /\ <<RootOf(k), Top>> \in Slot
             /\ g[<<RootOf(k), Top>>].dt = d[<<RootOf(k), Top>>].dt
  BY <1>1 DEF RootOf, Config, Key, Slot, Grown
<1>2. ASSUME NEW k \in Key, cfg \in Config, NEW s
      PROVE  On(g, k, s) <=> On(d, k, s)
  BY <1>1, <1>2 DEF On
<1>3. ASSUME NEW k \in Key, cfg \in Config PROVE Leaf(g, k) = Leaf(d, k)
  BY <1>1, <1>3 DEF Leaf
<1>4. ASSUME NEW k \in Key, NEW f \in Frame, cfg \in Config, Maps(d, k, f)
      PROVE  Maps(g, k, f)
  BY <1>2, <1>4 DEF Maps, Grown
<1>5. ASSUME NEW e \in Entry, cfg \in Config, Says(d, e) PROVE Says(g, e)
  <2>1. e.key \in Key /\ e.frame \in Frame
    BY DEF Entry
  <2>2. Maps(g, e.key, e.frame)
    BY <1>4, <1>5, <2>1 DEF Says
  <2>3. e.wp <=> \E s \in Slot : On(g, e.key, s) /\ g[s].wp
    BY <1>2, <1>5, <2>1 DEF Says, Grown
  <2>4. e.m => \E s \in Slot : On(g, e.key, s) /\ g[s].dt = "page" /\ g[s].m
    BY <1>2, <1>5, <2>1 DEF Says, Grown
  <2> QED
    BY <2>2, <2>3, <2>4 DEF Says
<1>6. ASSUME NEW S \in SUBSET Slot, Marked(d, S) PROVE Marked(g, S)
  <2>1. \A s \in S : s \in Slot /\ <<s[1], Top>> \in Slot
    BY DEF Slot
  <2> QED
    BY <1>6, <2>1 DEF Marked, Grown
<1> QED
  BY <1>3, <1>4, <1>5, <1>6

-----------------------------------------------------------------------------
(* Translations.                                                           *)

\* Every entry of the ATC is in its line, and tells what the tables say
\* unless they changed under it.
Fits(a, d) ==
    \A i \in Lines : a[i].valid =>
        cfg.tc.on /\ Index[a[i].key] = i /\ (a[i].key \notin stale => Says(d, a[i]))

\* A write to the page of k may go on, and has been recorded.
Written(d, k) == d[Leaf(d, k)].m /\ ~Protected(d, k)

\* What a translation of k leaves behind, from the ATC and the tables to o.
Kind(a, d, o) ==
    /\ o.atc \in Atc /\ o.desc \in Memory /\ o.frame \in Frame \cup {Fault}
    /\ Fits(o.atc, o.desc) /\ Grown(d, o.desc)

Tabled(k, write, o) ==
    o.frame # Fault => Maps(o.desc, k, o.frame) /\ (write => Written(o.desc, k))

Stateful == cfg \in Config /\ stale \in SUBSET Key

\* A walk finds what the tables say, sets M for a write, and leaves the ATC
\* with what it found.
LEMMA WalkFinds ==
  ASSUME Stateful, cfg.tc.on, NEW a \in Atc, NEW d \in Memory, NEW k \in Key,
         NEW write \in BOOLEAN, Fits(a, d)
  PROVE  LET o == TableWalk(a, d, k, write)
         IN  Kind(a, d, o) /\ Tabled(k, write, o)
<1> DEFINE s == Leaf(d, k)
           f == FrameAt(s, d[s].frame, k.page)
           m == d[s].m \/ write
           e == [valid |-> TRUE, key |-> k, frame |-> f, wp |-> Protected(d, k), m |-> m]
           g == [d EXCEPT ![s].m = m]
           b == [a EXCEPT ![Index[k]] = e]
<1>1. CASE d[s].dt # "page" \/ (write /\ Protected(d, k))
  BY <1>1 DEF TableWalk, Outcome, Kind, Tabled, Grown, Fault
<1>2. CASE d[s].dt = "page" /\ ~(write /\ Protected(d, k))
  <2>1. TableWalk(a, d, k, write) = [frame |-> f, atc |-> b, desc |-> g]
    BY <1>2 DEF TableWalk, Outcome
  <2>2. cfg \in Config /\ s \in Slot /\ Index[k] \in Lines /\ d[s] \in Desc
    BY LeafOnPath DEF Stateful, Lines, Memory
  <2>3. f \in Frame /\ Maps(d, k, f)
    BY <1>2, <2>2, WalkMaps
  <2>4. m \in BOOLEAN /\ Protected(d, k) \in BOOLEAN
    BY <2>2 DEF Desc, Protected
  <2>5. e \in Entry /\ b \in Atc
    BY <2>2, <2>3, <2>4 DEF Entry, Atc
  <2>6. g \in Memory /\ g[s].m = m /\ g[s].dt = "page" /\ Grown(d, g)
    BY <1>2, <2>2, <2>4 DEF Memory, Desc, Grown
  <2>7. Maps(g, k, f) /\ Leaf(g, k) = s /\ \A c \in Entry : Says(d, c) => Says(g, c)
    <3> HIDE DEF g, f, s, m
    <3> QED
      BY <2>2, <2>3, <2>6, GrownKeeps DEF s
  <2>8. /\ On(g, k, s)
        /\ Protected(d, k) <=> Protected(g, k)
        /\ Protected(g, k) <=> \E t \in Slot : On(g, k, t) /\ g[t].wp
    <3>1. /\ On(g, k, s)
          /\ Protected(g, k) <=> \E t \in Slot : On(g, k, t) /\ g[t].wp
      BY <2>2, <2>6, <2>7, LeafOnPath
    <3>2. <<RootOf(k), Top>> \in Slot
      BY <2>2 DEF RootOf, Slot, Config
    <3>3. Protected(d, k) <=> Protected(g, k)
      <4> HIDE DEF g, s
      <4>1. g[<<RootOf(k), Top>>].wp = d[<<RootOf(k), Top>>].wp /\ g[s].wp = d[s].wp
        BY <2>2, <2>6, <3>2 DEF Grown
      <4> QED
        BY <2>7, <4>1 DEF Protected, s
    <3> QED
      BY <3>1, <3>3
  <2>9. Says(g, e)
    <3> HIDE DEF g, f, s, m
    <3>1. e.key = k /\ e.frame = f /\ e.m = m /\ e.wp = Protected(d, k)
      OBVIOUS
    <3>2. e.m => \E t \in Slot : On(g, e.key, t) /\ g[t].dt = "page" /\ g[t].m
      BY <2>2, <2>6, <2>8, <3>1
    <3> QED
      BY <2>7, <2>8, <3>1, <3>2 DEF Says
  <2>10. Fits(b, g)
    <3> SUFFICES ASSUME NEW i \in Lines, b[i].valid
                 PROVE  cfg.tc.on /\ Index[b[i].key] = i /\ (b[i].key \notin stale => Says(g, b[i]))
      BY DEF Fits
    <3>1. CASE i = Index[k]
      <4>1. b[i] = e /\ e.key = k
        BY <2>2, <3>1 DEF Atc
      <4> QED
        BY <2>9, <3>1, <4>1
    <3>2. CASE i # Index[k]
      <4>1. b[i] = a[i] /\ a[i] \in Entry
        BY <3>2 DEF Atc
      <4> HIDE DEF b, g
      <4> QED
        BY <2>7, <4>1 DEF Fits
    <3> QED
      BY <3>1, <3>2
  <2>11. write => Written(g, k)
    <3> SUFFICES ASSUME write PROVE Written(g, k)
      OBVIOUS
    <3>1. m /\ ~Protected(g, k)
      BY <1>2, <2>8
    <3> HIDE DEF g, s, m
    <3> QED
      BY <2>6, <2>7, <3>1 DEF Written
  <2> HIDE DEF f, b, g
  <2> QED
    BY <2>1, <2>3, <2>5, <2>6, <2>7, <2>10, <2>11 DEF Kind, Tabled
<1> QED
  BY <1>1, <1>2

\* An empty line, and an ATC of them, tell nothing that could be wrong.
LEMMA EmptyFits ==
  /\ None \in PageCache /\ Empty \in Entry /\ ~Empty.valid
  /\ [i \in Lines |-> Empty] \in Atc
<1>1. 0 \in Page /\ 0 \in Frame
  BY SizeAssumption DEF Page, Frame
<1>2. None \in PageCache /\ Empty \in Entry /\ ~Empty.valid
  BY <1>1 DEF None, PageCache, Empty, Entry, Key, Fc
<1> QED
  BY <1>2 DEF Atc

\* An ATC from which a line was dropped still fits the tables.
LEMMA DroppedFits ==
  ASSUME NEW a \in Atc, NEW d, NEW k \in Key, Fits(a, d)
  PROVE  Dropped(a, k) \in Atc /\ Fits(Dropped(a, k), d)
<1>1. Empty \in Entry /\ ~Empty.valid /\ Index[k] \in Lines
  BY EmptyFits DEF Lines
<1>2. \A i \in Lines : Dropped(a, k)[i] = IF i = Index[k] THEN Empty ELSE a[i]
  BY DEF Dropped, Atc
<1>3. Dropped(a, k) \in Atc
  BY <1>1 DEF Dropped, Atc
<1> QED
  BY <1>1, <1>2, <1>3 DEF Fits

\* An entry that is hit stands for the tables.
LEMMA HitFinds ==
  ASSUME Stateful, NEW a \in Atc, NEW d \in Memory, NEW k \in Key,
         Fits(a, d), Hit(a, k), k \notin stale
  PROVE  LET e == a[Index[k]]
         IN  Maps(d, k, e.frame) /\ (e.m /\ ~e.wp => Written(d, k))
<1> DEFINE e == a[Index[k]]
<1>1. Index[k] \in Lines /\ e.valid /\ e.key = k /\ Says(d, e) /\ cfg \in Config
  BY DEF Hit, Lines, Fits, Stateful
<1>2. /\ Maps(d, k, e.frame)
      /\ e.wp <=> \E s \in Slot : On(d, k, s) /\ d[s].wp
      /\ e.m => \E s \in Slot : On(d, k, s) /\ d[s].dt = "page" /\ d[s].m
  BY <1>1 DEF Says
<1>3. ASSUME e.m, ~e.wp PROVE Written(d, k)
  BY <1>1, <1>2, <1>3, LeafOnPath DEF Written
<1> QED
  BY <1>2, <1>3

\* A translation finds what the TT registers or the tables say, unless the
\* tables changed under the entry it used.
LEMMA TranslateFinds ==
  ASSUME Stateful, NEW a \in Atc, NEW d \in Memory, NEW k \in Key,
         NEW write \in BOOLEAN, Fits(a, d)
  PROVE  LET o == Translate(a, d, k, write)
         IN  /\ Kind(a, d, o)
             /\ cfg.tc.on /\ ~Transparent(cfg, k, write) /\ k \notin stale => Tabled(k, write, o)
             /\ cfg.tc.on /\ Transparent(cfg, k, write) => o.frame = k.page
<1> DEFINE o == Translate(a, d, k, write)
           e == a[Index[k]]
<1>0. Index[k] \in Lines /\ e \in Entry /\ Grown(d, d)
  BY DEF Lines, Atc, Grown
<1>1. CASE ~cfg.tc.on \/ Transparent(cfg, k, write)
  <2>1. o = [frame |-> k.page, atc |-> a, desc |-> d]
    BY <1>1 DEF Translate, Outcome
  <2>2. k.page \in Frame
    BY SizeAssumption DEF Key, Page, Frame
  <2> QED
    BY <1>0, <1>1, <2>1, <2>2 DEF Kind
<1>2. CASE cfg.tc.on /\ ~Transparent(cfg, k, write) /\ ~Hit(a, k)
  <2>1. o = TableWalk(a, d, k, write)
    BY <1>2 DEF Translate
  <2> QED
    BY <1>2, <2>1, WalkFinds
<1>3. CASE cfg.tc.on /\ ~Transparent(cfg, k, write) /\ Hit(a, k)
  <2>1. CASE write /\ e.wp
    <3>1. o = [frame |-> Fault, atc |-> a, desc |-> d]
      BY <1>3, <2>1 DEF Translate, Outcome
    <3> QED
      BY <1>0, <1>3, <3>1 DEF Kind, Tabled
  <2>2. CASE ~(write /\ e.wp) /\ NeedsWalk(e, write)
    <3>1. o = TableWalk(Dropped(a, k), d, k, write)
      BY <1>3, <2>2 DEF Translate
    <3>2. Dropped(a, k) \in Atc /\ Fits(Dropped(a, k), d)
      BY DroppedFits
    <3>3. Kind(Dropped(a, k), d, o) /\ Tabled(k, write, o)
      BY <1>3, <3>1, <3>2, WalkFinds
    <3> QED
      BY <1>3, <3>3 DEF Kind
  <2>3. CASE ~(write /\ e.wp) /\ ~NeedsWalk(e, write)
    <3>1. o = [frame |-> e.frame, atc |-> a, desc |-> d]
      BY <1>3, <2>3 DEF Translate, Outcome
    <3>2. k \notin stale => Maps(d, k, e.frame) /\ (e.m /\ ~e.wp => Written(d, k))
      BY <1>3, HitFinds
    <3> QED
      BY <1>0, <1>3, <2>3, <3>1, <3>2 DEF Kind, Tabled, NeedsWalk, Entry
  <2> QED
    BY <2>1, <2>2, <2>3
<1> QED
  BY <1>1, <1>2, <1>3

\* Reads ask the ATC first: an entry for a page that a TT register covers
\* would answer for it.
LEMMA ReadFinds ==
  ASSUME Stateful, NEW a \in Atc, NEW d \in Memory, NEW k \in Key, Fits(a, d)
  PROVE  LET o == TranslateRead(a, d, k)
         IN  /\ Kind(a, d, o)
             /\ cfg.tc.on /\ ~Transparent(cfg, k, FALSE) /\ k \notin stale => Tabled(k, FALSE, o)
             /\ cfg.tc.on /\ Transparent(cfg, k, FALSE) /\ ~Hit(a, k) => o.frame = k.page
<1> DEFINE o == TranslateRead(a, d, k)
           e == a[Index[k]]
<1>1. CASE cfg.tc.on /\ Hit(a, k)
  <2>1. o = [frame |-> e.frame, atc |-> a, desc |-> d]
    BY <1>1 DEF TranslateRead, Outcome
  <2>2. Index[k] \in Lines /\ e \in Entry /\ Grown(d, d)
    BY DEF Lines, Atc, Grown
  <2>3. k \notin stale => Maps(d, k, e.frame)
    BY <1>1, HitFinds
  <2>4. Kind(a, d, o)
    BY <2>1, <2>2 DEF Kind, Entry
  <2>5. k \notin stale => Tabled(k, FALSE, o)
    BY <2>1, <2>3 DEF Tabled
  <2> QED
    BY <1>1, <2>4, <2>5
<1>2. CASE ~(cfg.tc.on /\ Hit(a, k))
  <2>1. o = Translate(a, d, k, FALSE)
    BY <1>2 DEF TranslateRead
  <2> QED
    BY <2>1, TranslateFinds
<1> QED
  BY <1>1, <1>2

-----------------------------------------------------------------------------
(* The invariant: types, the ATC against the tables, and the pages written *)
(* through against the M bits. AtcCoherent alone is not inductive: a flush *)
(* and an eviction reach an entry by its line.                             *)
IInv == TypeOK /\ atc \in Atc /\ Fits(atc, desc) /\ Marked(desc, dirty)

\* What a translation changes, and that its result is known to be right.
Translates(o) == Kind(atc, desc, o) /\ atc' = o.atc /\ desc' = o.desc /\ cfg' = cfg

\* The types that the invariant gives to what the steps use.
LEMMA InvTypes ==
  ASSUME IInv
  PROVE  /\ Stateful /\ cfg \in Config /\ desc \in Memory /\ atc \in Atc
         /\ stale \in SUBSET Key /\ dirty \in SUBSET Slot /\ super \in BOOLEAN
         /\ data \in PageCache /\ fetch \in PageCache /\ edits \in 0..MaxEdits
         /\ \A p \in Page, b \in BOOLEAN : FcOf(b) \in Fc /\ KeyOf(FcOf(b), p) \in Key
         /\ \A p \in Page, fc \in Overrides : fc \in Fc /\ KeyOf(fc, p) \in Key
BY ConfigAssumption DEF IInv, TypeOK, Stateful, Memory, FcOf, KeyOf, Fc, Key

\* Two translations in a row are of the kind of one.
LEMMA GrownChain ==
  ASSUME NEW a, NEW d \in Memory, NEW x, NEW o, Kind(a, d, x), Kind(x.atc, x.desc, o)
  PROVE  Kind(a, d, o)
BY DEF Kind, Grown

\* A step that changes the ATC and the tables by translations keeps them right.
LEMMA TranslationKeeps ==
  ASSUME IInv, NEW o, Translates(o), stale' = stale
  PROVE  atc' \in Atc /\ desc' \in Memory /\ Fits(atc, desc)' /\ Marked(desc', dirty)
<1>1. cfg' = cfg /\ atc' = o.atc /\ desc' = o.desc /\ Fits(o.atc, o.desc)
      /\ atc' \in Atc /\ desc' \in Memory /\ Grown(desc, desc')
  BY DEF Translates, Kind
<1>2. Fits(atc, desc)' <=> Fits(o.atc, o.desc)
  <2>1. \A e : Says(desc, e)' <=> Says(desc', e)
    BY <1>1 DEF Says, Maps, On, RootOf
  <2> QED
    BY <1>1, <2>1 DEF Fits
<1>3. Marked(desc', dirty)
  BY <1>1, InvTypes, GrownKeeps DEF IInv
<1> QED
  BY <1>1, <1>2, <1>3

\* The first conjuncts of TypeOK follow from the sets used here.
LEMMA TypesSuffice ==
  ASSUME cfg' \in Config, desc' \in Memory, atc' \in Atc, data' \in PageCache,
         fetch' \in PageCache, super' \in BOOLEAN, stale' \in SUBSET Key,
         dirty' \in SUBSET Slot, edits' \in 0..MaxEdits
  PROVE  TypeOK'
BY DEF TypeOK, Memory, Atc, Entry

\* Bus errors, and anything else that translates and writes nothing.
LEMMA NoStoreKeeps ==
  ASSUME IInv, NEW o, Translates(o), data' \in PageCache, fetch' \in PageCache,
         super' \in BOOLEAN, UNCHANGED <<stale, dirty, edits>>
  PROVE  IInv'
<1>1. atc' \in Atc /\ desc' \in Memory /\ Fits(atc, desc)' /\ Marked(desc', dirty)
  BY TranslationKeeps
<1>2. TypeOK'
  BY <1>1, InvTypes, TypesSuffice DEF Translates
<1>3. Marked(desc, dirty)'
  BY <1>1 DEF Marked
<1> QED
  BY <1>1, <1>2, <1>3 DEF IInv

\* A translation that ends in a bus error keeps the invariant.
LEMMA BusErrorKeeps ==
  ASSUME IInv, NEW o, Kind(atc, desc, o), BusError(o)
  PROVE  IInv'
<1>1. Translates(o) /\ data' \in PageCache /\ fetch' \in PageCache /\ super' \in BOOLEAN
      /\ UNCHANGED <<stale, dirty, edits>>
  BY EmptyFits DEF BusError, Translates
<1> QED
  BY <1>1, NoStoreKeeps

\* A page cache that is filled is one.
LEMMA KeptTyped ==
  ASSUME NEW o, o.frame \in Frame, NEW fc \in Fc, NEW p \in Page, NEW old \in PageCache
  PROVE  Kept(o, fc, p, old) \in PageCache
BY DEF Kept, PageCache

\* The tables record what is written through them.
LEMMA StoreKeeps ==
  ASSUME IInv, NEW o, NEW k \in Key, Kind(atc, desc, o), o.frame # Fault, Store(o, k),
         fetch' \in PageCache,
         cfg.tc.on /\ ~Transparent(cfg, k, TRUE) /\ k \notin stale => Tabled(k, TRUE, o)
  PROVE  IInv'
<1>1. Translates(o) /\ UNCHANGED <<stale, super, edits>> /\ data' = None
  BY DEF Store, Translates
<1>2. atc' \in Atc /\ desc' \in Memory /\ Fits(atc, desc)' /\ Marked(desc', dirty)
  BY <1>1, TranslationKeeps
<1>3. Leaf(o.desc, k) = Leaf(desc, k) /\ Leaf(desc, k) \in Slot /\ Leaf(desc, k)[1] = RootOf(k)
  BY InvTypes, GrownKeeps, LeafOnPath DEF Kind
<1>4. Through(k) \subseteq Slot /\ Marked(o.desc, Through(k))
  <2>1. CASE Through(k) = {}
    BY <2>1 DEF Marked
  <2>2. CASE Through(k) # {}
    <3>1. Through(k) = {Leaf(desc, k)} /\ Tabled(k, TRUE, o)
      BY <2>2 DEF Through
    <3>2. o.desc[Leaf(desc, k)].m /\ ~o.desc[Leaf(desc, k)].wp /\ ~o.desc[<<RootOf(k), Top>>].wp
      BY <1>3, <3>1 DEF Tabled, Written, Protected
    <3> QED
      BY <1>3, <3>1, <3>2 DEF Marked
  <2> QED
    BY <2>1, <2>2
<1>5. dirty' = dirty \cup Through(k) /\ desc' = o.desc
  BY DEF Store
<1>6. dirty' \in SUBSET Slot /\ Marked(desc, dirty)'
  BY <1>2, <1>4, <1>5, InvTypes DEF Marked
<1>7. TypeOK'
  BY <1>1, <1>2, <1>6, InvTypes, TypesSuffice, EmptyFits DEF Translates
<1> QED
  BY <1>2, <1>6, <1>7 DEF IInv

-----------------------------------------------------------------------------
(* The steps.                                                              *)

\* The invariant holds at the start.
LEMMA InitEstablishes == Init => IInv
<1> SUFFICES ASSUME Init PROVE IInv
  OBVIOUS
<1>1. ResetConfig \in Config /\ Tables \in [Slot -> Desc] /\ MaxEdits \in Nat
  BY ConfigAssumption, SizeAssumption
<1>2. atc = [i \in Lines |-> Empty] /\ atc \in Atc
  BY EmptyFits DEF Init, Lines
<1>3. Fits(atc, desc)
  BY <1>2, EmptyFits DEF Fits
<1>4. TypeOK
  BY <1>1, <1>2, EmptyFits DEF Init, TypeOK, Atc, Entry
<1> QED
  BY <1>2, <1>3, <1>4 DEF IInv, Init, Marked

\* Every access of the CPU keeps the invariant.
LEMMA AccessKeeps == ASSUME IInv, Access PROVE IInv'
<1>0. USE InvTypes, EmptyFits
<1>1. ASSUME NEW p \in Page, Read(p) PROVE IInv'
  <2> DEFINE o == TranslateRead(atc, desc, KeyOf(FcOf(FALSE), p))
  <2>1. Kind(atc, desc, o)
    BY ReadFinds DEF IInv
  <2>2. CASE BusError(o)
    BY <2>1, <2>2, BusErrorKeeps
  <2>3. CASE /\ o.frame # Fault
             /\ atc' = o.atc /\ desc' = o.desc
             /\ data' = Kept(o, FcOf(FALSE), p, data)
             /\ UNCHANGED <<cfg, fetch, super, stale, dirty, edits>>
    <3> HIDE DEF o
    <3>1. data' \in PageCache
      BY <2>1, <2>3, KeptTyped DEF Kind
    <3> QED
      BY <2>1, <2>3, <3>1, NoStoreKeeps DEF Translates
  <2> QED
    BY <1>1, <2>2, <2>3 DEF Read
<1>2. ASSUME NEW p \in Page, Fetch(p) PROVE IInv'
  <2> DEFINE o == TranslateRead(atc, desc, KeyOf(FcOf(TRUE), p))
  <2>1. Kind(atc, desc, o)
    BY ReadFinds DEF IInv
  <2>2. CASE BusError(o)
    BY <2>1, <2>2, BusErrorKeeps
  <2>3. CASE /\ o.frame # Fault
             /\ atc' = o.atc /\ desc' = o.desc
             /\ fetch' = Kept(o, FcOf(TRUE), p, fetch)
             /\ UNCHANGED <<cfg, data, super, stale, dirty, edits>>
    <3> HIDE DEF o
    <3>1. fetch' \in PageCache
      BY <2>1, <2>3, KeptTyped DEF Kind
    <3> QED
      BY <2>1, <2>3, <3>1, NoStoreKeeps DEF Translates
  <2> QED
    BY <1>2, <2>2, <2>3 DEF Fetch
<1>3. ASSUME NEW p \in Page, Write(p) PROVE IInv'
  <2> DEFINE k == KeyOf(FcOf(FALSE), p)
             o == Translate(atc, desc, k, TRUE)
  <2>1. k \in Key
    OBVIOUS
  <2>2. /\ Kind(atc, desc, o)
        /\ cfg.tc.on /\ ~Transparent(cfg, k, TRUE) /\ k \notin stale => Tabled(k, TRUE, o)
    BY <2>1, TranslateFinds DEF IInv
  <2>3. BusError(o) \/ (o.frame # Fault /\ Store(o, k) /\ UNCHANGED fetch)
    BY <1>3 DEF Write
  <2> HIDE DEF k, o
  <2> QED
    BY <2>1, <2>2, <2>3, BusErrorKeeps, StoreKeeps
<1>4. ASSUME NEW fc \in Overrides, NEW p \in Page, NEW q \in Page \cup {-1},
             NEW write \in BOOLEAN, Moves(fc, p, q, write)
      PROVE  IInv'
  <2> DEFINE x == IF q = -1 THEN Outcome(0, atc, desc)
                  ELSE TranslateRead(atc, desc, KeyOf(fc, q))
             k == KeyOf(fc, p)
             o == IF write THEN Translate(x.atc, x.desc, k, TRUE)
                  ELSE TranslateRead(x.atc, x.desc, k)
  <2>1. k \in Key /\ fc \in Fc
    OBVIOUS
  <2>2. Kind(atc, desc, x)
    <3>1. CASE q = -1
      <4>1. x = [frame |-> 0, atc |-> atc, desc |-> desc]
        BY <3>1 DEF Outcome
      <4>2. 0 \in Frame
        BY SizeAssumption DEF Frame
      <4> HIDE DEF x
      <4> QED
        BY <4>1, <4>2 DEF Kind, Grown, IInv
    <3>2. CASE q # -1
      <4>1. q \in Page /\ KeyOf(fc, q) \in Key
        BY <3>2
      <4> QED
        BY <3>2, <4>1, ReadFinds DEF IInv
    <3> QED
      BY <3>1, <3>2
  <2> HIDE DEF x
  <2>3. x.atc \in Atc /\ x.desc \in Memory /\ Fits(x.atc, x.desc)
    BY <2>2 DEF Kind
  <2>4. /\ Kind(x.atc, x.desc, o)
        /\ write /\ cfg.tc.on /\ ~Transparent(cfg, k, TRUE) /\ k \notin stale => Tabled(k, TRUE, o)
    <3>1. CASE write
      BY <2>1, <2>3, <3>1, TranslateFinds
    <3>2. CASE ~write
      BY <2>1, <2>3, <3>2, ReadFinds
    <3> QED
      BY <3>1, <3>2
  <2>5. Kind(atc, desc, o)
    <3> HIDE DEF o
    <3> QED
      BY <2>2, <2>4, GrownChain
  <2>6. \/ BusError(x) \/ BusError(o)
        \/ /\ x.frame # Fault /\ o.frame # Fault
           /\ fetch' = IF q = -1 THEN fetch ELSE Kept(x, fc, q, fetch)
           /\ \/ write /\ Store(o, k)
              \/ /\ ~write
                 /\ atc' = o.atc /\ desc' = o.desc
                 /\ data' = Kept(o, fc, p, None)
                 /\ UNCHANGED <<cfg, super, stale, dirty, edits>>
    BY <1>4 DEF Moves, x
  <2> HIDE DEF o, k
  <2>7. CASE BusError(x) \/ BusError(o)
    BY <2>2, <2>5, <2>7, BusErrorKeeps
  <2>8. CASE /\ x.frame # Fault /\ o.frame # Fault
             /\ fetch' = IF q = -1 THEN fetch ELSE Kept(x, fc, q, fetch)
    <3>1. fetch' \in PageCache /\ Kept(o, fc, p, None) \in PageCache
      BY <2>1, <2>2, <2>5, <2>8, KeptTyped DEF Kind
    <3>2. CASE write /\ Store(o, k)
      BY <2>1, <2>4, <2>5, <2>8, <3>1, <3>2, StoreKeeps
    <3>3. CASE /\ ~write
               /\ atc' = o.atc /\ desc' = o.desc
               /\ data' = Kept(o, fc, p, None)
               /\ UNCHANGED <<cfg, super, stale, dirty, edits>>
      BY <2>5, <3>1, <3>3, NoStoreKeeps DEF Translates
    <3> QED
      BY <2>6, <2>7, <3>2, <3>3
  <2> QED
    BY <2>6, <2>7, <2>8
<1> QED
  BY <1>1, <1>2, <1>3, <1>4 DEF Access

\* A flush, of whatever keys, leaves no entry and no cache behind it that it
\* declares fresh.
LEMMA FlushKeeps ==
  ASSUME IInv, NEW fc, NEW pages, Flush(fc, pages)
  PROVE  IInv'
<1>1. /\ cfg' = cfg /\ desc' = desc /\ dirty' = dirty /\ super' = super /\ edits' = edits
      /\ data' = None /\ fetch' = None
      /\ \A k \in stale' : k \in stale
  BY DEF Flush, OnFlush
<1>2. atc' = [i \in Lines |->
                IF atc[i].valid /\ Covers(fc, pages, atc[i].key) THEN Empty ELSE atc[i]]
  BY InvTypes DEF Flush, Atc
<1>3. atc' \in Atc
  BY <1>2, InvTypes, EmptyFits DEF Atc
<1>4. ASSUME NEW i \in Lines, atc'[i].valid
      PROVE  /\ atc'[i] = atc[i] /\ atc[i].key \in Key
             /\ atc[i].key \notin stale' => atc[i].key \notin stale
  <2>1. atc'[i] = atc[i] /\ ~Covers(fc, pages, atc[i].key)
    BY <1>2, <1>4, EmptyFits
  <2>2. atc[i].key \in Key
    BY InvTypes DEF Atc, Entry
  <2>3. \A k \in stale : k \notin stale' => Covers(fc, pages, k)
    BY DEF Flush, Covers
  <2> QED
    BY <2>1, <2>2, <2>3
<1>5. Fits(atc, desc)'
  <2>1. \A e : Says(desc, e)' <=> Says(desc, e)
    BY <1>1 DEF Says, Maps, On, RootOf
  <2> QED
    BY <1>1, <1>4, <2>1 DEF IInv, Fits
<1>6. TypeOK'
  BY <1>1, <1>3, InvTypes, EmptyFits, TypesSuffice
<1> QED
  BY <1>1, <1>3, <1>5, <1>6 DEF IInv, Marked

\* A new value of a register leaves nothing cached.
LEMMA SetConfigKeeps ==
  ASSUME IInv, NEW c \in Config, SetConfig(c), super' \in BOOLEAN,
         UNCHANGED <<desc, dirty, edits>>
  PROVE  IInv'
<1>1. atc' = [i \in Lines |-> Empty] /\ stale' = {} /\ cfg' = c /\ data' = None /\ fetch' = None
  BY InvTypes DEF SetConfig, OnFlush, Atc
<1>2. atc' \in Atc /\ Fits(atc, desc)'
  BY <1>1, EmptyFits DEF Fits
<1>3. TypeOK'
  BY <1>1, <1>2, InvTypes, EmptyFits, TypesSuffice
<1> QED
  BY <1>2, <1>3 DEF IInv, Marked

\* A change of the tables: what was cached of them is stale, and what was
\* written through them is forgotten.
LEMMA EditKeeps ==
  ASSUME IInv, NEW e \in Edits, EditTable(e[1], e[2])
  PROVE  IInv'
<1> DEFINE s == e[1]
           v == e[2]
<1>1. s \in Slot /\ v \in Desc
  BY ConfigAssumption
<1>2. /\ edits < MaxEdits /\ edits' = edits + 1 /\ desc' = [desc EXCEPT ![s] = v]
      /\ stale' = stale \cup {k \in Key : Cached(k) /\ Uses(k, s)}
      /\ dirty' = {t \in dirty : t # s /\ (s[2] = Top => t[1] # s[1])}
      /\ UNCHANGED <<cfg, atc, data, fetch, super>>
  BY DEF EditTable
<1> HIDE DEF s, v
<1>3. desc' \in Memory /\ \A t \in Slot : t # s => desc'[t] = desc[t]
  BY <1>1, <1>2, InvTypes DEF Memory
<1>4. ASSUME NEW i \in Lines, atc[i].valid, atc[i].key \notin stale'
      PROVE  atc[i].key \notin stale /\ ~Uses(atc[i].key, s)
  <2>1. atc[i].key \in Key /\ Index[atc[i].key] = i
    BY <1>4, InvTypes DEF Atc, Entry, IInv, Fits
  <2>2. Cached(atc[i].key)
    BY <1>4, <2>1 DEF Cached, Hit
  <2> QED
    BY <1>2, <1>4, <2>1, <2>2
<1>5. ASSUME NEW c \in Entry, Says(desc, c), ~Uses(c.key, s)
      PROVE  Says(desc, c)'
  <2>1. c.key \in Key
    BY DEF Entry
  <2>2. <<RootOf(c.key), Top>> \in Slot /\ <<RootOf(c.key), c.key.page>> \in Slot
    BY <2>1, InvTypes DEF RootOf, Config, Slot, Key
  <2>3. /\ desc'[<<RootOf(c.key), Top>>] = desc[<<RootOf(c.key), Top>>]
        /\ desc'[<<RootOf(c.key), c.key.page>>] = desc[<<RootOf(c.key), c.key.page>>]
    BY <1>3, <1>5, <2>2 DEF Uses
  <2>4. RootOf(c.key)' = RootOf(c.key)
    BY <1>2 DEF RootOf
  <2>5. ASSUME NEW t \in Slot
        PROVE  /\ On(desc, c.key, t)' <=> On(desc, c.key, t)
               /\ On(desc, c.key, t) => desc'[t] = desc[t]
    BY <2>3, <2>4 DEF On
  <2> QED
    BY <1>5, <2>5 DEF Says, Maps
<1>6. Fits(atc, desc)'
  <2> SUFFICES ASSUME NEW i \in Lines, atc[i].valid
               PROVE  /\ cfg.tc.on /\ Index[atc[i].key] = i
                      /\ atc[i].key \notin stale' => Says(desc, atc[i])'
    BY <1>2 DEF Fits
  <2>1. atc[i] \in Entry
    BY InvTypes DEF Atc
  <2> QED
    BY <1>2, <1>4, <1>5, <2>1 DEF IInv, Fits
<1>7. dirty' \in SUBSET Slot /\ Marked(desc, dirty)'
  <2> SUFFICES ASSUME NEW t \in dirty'
               PROVE  desc'[t] = desc[t] /\ desc'[<<t[1], Top>>] = desc[<<t[1], Top>>] /\ t \in dirty
    BY InvTypes DEF IInv, Marked
  <2>1. t \in dirty /\ t \in Slot /\ <<t[1], Top>> \in Slot /\ t # s /\ (s[2] = Top => t[1] # s[1])
    BY <1>2, InvTypes DEF Slot
  <2>2. <<t[1], Top>> # s
    BY <2>1
  <2> QED
    BY <1>3, <2>1, <2>2
<1>8. stale' \in SUBSET Key /\ edits' \in 0..MaxEdits
  BY <1>2, InvTypes, SizeAssumption
<1>9. TypeOK'
  BY <1>2, <1>3, <1>7, <1>8, InvTypes, TypesSuffice
<1> QED
  BY <1>2, <1>3, <1>6, <1>7, <1>9, InvTypes DEF IInv

\* A register alone may take its reset value.
LEMMA ResetOneRegister ==
  ASSUME cfg \in Config, NEW r \in DOMAIN ResetConfig
  PROVE  LET c == [cfg EXCEPT ![r] = ResetConfig[r]]
         IN  c \in Config /\ c.tt \in {cfg.tt, ResetConfig.tt}
<1>1. ResetConfig \in Config
  BY ConfigAssumption
<1>2. r \in {"tc", "crp", "srp", "tt"}
  BY <1>1 DEF Config
<1>3. CASE r = "tc"
  BY <1>1, <1>3 DEF Config
<1>4. CASE r = "crp"
  BY <1>1, <1>4 DEF Config
<1>5. CASE r = "srp"
  BY <1>1, <1>5 DEF Config
<1>6. CASE r = "tt"
  BY <1>1, <1>6 DEF Config
<1> QED
  BY <1>2, <1>3, <1>4, <1>5, <1>6

\* Every instruction of the MMU keeps the invariant.
LEMMA InstructionKeeps == ASSUME IInv, MmuInstruction PROVE IInv'
<1>1. ASSUME NEW fc, NEW pages, Flush(fc, pages) PROVE IInv'
  BY <1>1, FlushKeeps
<1>2. ASSUME NEW c \in Configs, Pmove(c) PROVE IInv'
  <2>1. c \in Config /\ super' \in BOOLEAN
    BY <1>2, ConfigAssumption, InvTypes DEF Pmove
  <2> QED
    BY <1>2, <2>1, SetConfigKeeps DEF Pmove
<1>3. ASSUME NEW r \in DOMAIN ResetConfig, NEW p \in Page, PmoveFaults(r, p) PROVE IInv'
  <2>1. [cfg EXCEPT ![r] = ResetConfig[r]] \in Config /\ super' \in BOOLEAN
    BY <1>3, InvTypes, ResetOneRegister DEF PmoveFaults
  <2> QED
    BY <1>3, <2>1, SetConfigKeeps DEF PmoveFaults
<1>4. ASSUME NEW fc \in Overrides, NEW p \in Page, NEW write \in BOOLEAN, Pload(fc, p, write)
      PROVE  IInv'
  <2> DEFINE o == TableWalk(atc, desc, KeyOf(fc, p), write)
  <2>1. cfg.tc.on /\ atc' = o.atc /\ desc' = o.desc
        /\ UNCHANGED <<cfg, data, fetch, super, stale, dirty, edits>>
    BY <1>4 DEF Pload
  <2>2. Kind(atc, desc, o)
    BY <2>1, InvTypes, WalkFinds DEF IInv
  <2> HIDE DEF o
  <2> QED
    BY <2>1, <2>2, InvTypes, NoStoreKeeps DEF Translates
<1> QED
  BY <1>1, <1>2, <1>3, <1>4 DEF MmuInstruction

\* Every step keeps the invariant.
LEMMA NextKeeps == IInv /\ [Next]_vars => IInv'
<1> SUFFICES ASSUME IInv, [Next]_vars PROVE IInv'
  OBVIOUS
<1>1. CASE SwitchMode
  <2>1. Kind(atc, desc, Outcome(0, atc, desc))
    BY SizeAssumption, InvTypes DEF Kind, Outcome, Grown, IInv, Frame
  <2>2. Translates(Outcome(0, atc, desc)) /\ data' \in PageCache /\ fetch' \in PageCache
        /\ super' \in BOOLEAN /\ UNCHANGED <<stale, dirty, edits>>
    BY <1>1, <2>1, EmptyFits, InvTypes DEF SwitchMode, Translates, Outcome
  <2> QED
    BY <2>2, NoStoreKeeps
<1>2. CASE Reset
  BY <1>2, SetConfigKeeps, ConfigAssumption DEF Reset
<1>3. CASE UNCHANGED vars
  <2>1. UNCHANGED <<cfg, desc, atc, data, fetch, super, stale, dirty, edits>>
    BY <1>3 DEF vars
  <2>2. TypeOK' = TypeOK
    BY <2>1 DEF TypeOK
  <2>3. \A e : Says(desc, e)' <=> Says(desc, e)
    BY <2>1 DEF Says, Maps, On, RootOf
  <2>4. Fits(atc, desc)'
    BY <2>1, <2>3 DEF IInv, Fits
  <2>5. Marked(desc, dirty)'
    BY <2>1 DEF IInv, Marked
  <2> QED
    BY <2>1, <2>2, <2>4, <2>5 DEF IInv
<1> QED
  BY <1>1, <1>2, <1>3, AccessKeeps, InstructionKeeps, EditKeeps DEF Next

\* Every variable keeps to its set, for any tables the guest builds.
THEOREM TypeCorrect == Spec => []TypeOK
<1>1. IInv => TypeOK
  BY DEF IInv
<1> QED
  BY <1>1, InitEstablishes, NextKeeps, PTL DEF Spec

(* Whatever the guest does to its tables and registers, an entry of the    *)
(* ATC that no change of a table has overtaken says what the tables say:   *)
(* the frame, the protection of each level, and no M bit they do not have  *)
(* (Mmu.cpp 505-546).                                                      *)
THEOREM AtcTellsTables == Spec => []AtcCoherent
<1>1. IInv => AtcCoherent
  <2> SUFFICES ASSUME IInv, NEW i \in DOMAIN atc, atc[i].valid, atc[i].key \notin stale
               PROVE  /\ cfg.tc.on /\ MapsTo(atc[i].key, atc[i].frame)
                      /\ atc[i].wp <=> \E s \in Slot : OnPath(atc[i].key, s) /\ desc[s].wp
                      /\ atc[i].m => \E s \in Slot : /\ OnPath(atc[i].key, s)
                                                     /\ desc[s].dt = "page" /\ desc[s].m
    BY DEF AtcCoherent
  <2>1. cfg.tc.on /\ Says(desc, atc[i])
    BY DEF IInv, Fits, Atc
  <2> QED
    BY <2>1 DEF Says, Maps, On, MapsTo, OnPath
<1> QED
  BY <1>1, InitEstablishes, NextKeeps, PTL DEF Spec

(* A write that goes through the tables is never unnoticed or unauthorised:*)
(* the page has its M bit, and no level protects it (Mmu.cpp 165-178,      *)
(* 355-394).                                                               *)
THEOREM WritesAreMarked == Spec => []DirtyMarked
<1>1. IInv => DirtyMarked
  BY DEF IInv, Marked, DirtyMarked
<1> QED
  BY <1>1, InitEstablishes, NextKeeps, PTL DEF Spec

-----------------------------------------------------------------------------
(* The one-page caches. Reads ask the ATC before the TT registers, so that *)
(* an entry for a page that is transparent to reads answers in their       *)
(* place. Two things make such entries: a PLOAD of a covered page, and a   *)
(* write to a page that is transparent to reads only.                      *)
NoShadow == ~LoadCovered /\ \A c \in Configs : c.tt.reads => c.tt.writes

Uncovered(a) == \A i \in Lines : a[i].valid => ~Transparent(cfg, a[i].key, FALSE)

\* Cache c holds what the tables d say, unless its key is in S.
Fresh(d, S, c) ==
    LET k == KeyOf(c.fc, c.page)
    IN  c.page # -1 /\ k \notin S =>
          cfg.tc.on /\ IF Transparent(cfg, k, FALSE) THEN c.frame = c.page ELSE Maps(d, k, c.frame)

CachesOK ==
    /\ NoShadow /\ (cfg.tt.reads => cfg.tt.writes) /\ Uncovered(atc)
    /\ Fresh(desc, stale, data) /\ Fresh(desc, stale, fetch)

\* If no write is covered, no read is.
LEMMA WritesDecide ==
  ASSUME cfg.tt.reads => cfg.tt.writes, NEW k, NEW write \in BOOLEAN, ~Transparent(cfg, k, write)
  PROVE  ~Transparent(cfg, k, FALSE)
BY DEF Transparent

\* A walk of the tables enters a page the TT registers do not cover.
LEMMA WalkUncovered ==
  ASSUME NEW a \in Atc, NEW d, NEW k \in Key, NEW write, Uncovered(a), ~Transparent(cfg, k, FALSE)
  PROVE  Uncovered(TableWalk(a, d, k, write).atc)
<1> DEFINE b == TableWalk(a, d, k, write).atc
<1>1. ASSUME NEW i \in Lines PROVE b[i] = a[i] \/ b[i].key = k
  BY DEF TableWalk, Outcome, Atc
<1> QED
  BY <1>1 DEF Uncovered

\* So does a translation, if what the TT registers pass for reads they pass for
\* writes.
LEMMA TranslateUncovered ==
  ASSUME cfg.tt.reads => cfg.tt.writes, NEW a \in Atc, NEW d, NEW k \in Key,
         NEW write \in BOOLEAN, Uncovered(a)
  PROVE  Uncovered(Translate(a, d, k, write).atc)
<1> DEFINE o == Translate(a, d, k, write)
<1>1. CASE o.atc = a
  BY <1>1
<1>2. CASE ~Transparent(cfg, k, write) /\ o = TableWalk(a, d, k, write)
  BY <1>2, WritesDecide, WalkUncovered
<1>3. CASE ~Transparent(cfg, k, write) /\ o = TableWalk(Dropped(a, k), d, k, write)
  <2>1. Dropped(a, k) \in Atc /\ Uncovered(Dropped(a, k))
    BY EmptyFits DEF Dropped, Atc, Uncovered
  <2> QED
    BY <1>3, <2>1, WritesDecide, WalkUncovered
<1> QED
  <2>1. CASE ~cfg.tc.on \/ Transparent(cfg, k, write)
    BY <1>1, <2>1 DEF Translate, Outcome
  <2>2. CASE cfg.tc.on /\ ~Transparent(cfg, k, write)
    BY <1>1, <1>2, <1>3, <2>2 DEF Translate, Outcome
  <2> QED
    BY <2>1, <2>2

\* M bits leave a cache as good as it was; an empty one is always good.
LEMMA FreshStays ==
  ASSUME cfg \in Config, NEW d \in Memory, NEW g \in Memory, Grown(d, g), NEW S,
         NEW c \in PageCache, Fresh(d, S, c)
  PROVE  Fresh(g, S, c)
<1>1. CASE c.page = -1
  BY <1>1 DEF Fresh
<1>2. CASE c.page # -1
  <2>1. KeyOf(c.fc, c.page) \in Key /\ c.frame \in Frame
    BY <1>2 DEF PageCache, KeyOf, Key
  <2> QED
    BY <2>1, GrownKeeps DEF Fresh
<1> QED
  BY <1>1, <1>2

\* An empty one-page cache is right.
LEMMA NoneFresh == \A d, S : Fresh(d, S, None)
BY DEF Fresh, None

\* What a read keeps is what the tables or the TT registers say.
LEMMA ReadFresh ==
  ASSUME Stateful, cfg.tt.reads => cfg.tt.writes,
         NEW a \in Atc, NEW d \in Memory, Fits(a, d), Uncovered(a),
         NEW fc \in Fc, NEW p \in Page, NEW old, Fresh(d, stale, old), old \in PageCache
  PROVE  LET o == TranslateRead(a, d, KeyOf(fc, p))
         IN  /\ Uncovered(o.atc)
             /\ o.frame # Fault => Fresh(o.desc, stale, Kept(o, fc, p, old))
<1> DEFINE k == KeyOf(fc, p)
           o == TranslateRead(a, d, k)
<1>1. k \in Key /\ k.page = p /\ k.fc = fc /\ Index[k] \in Lines
  BY DEF KeyOf, Key, Lines
<1>2. /\ Kind(a, d, o)
      /\ cfg.tc.on /\ ~Transparent(cfg, k, FALSE) /\ k \notin stale => Tabled(k, FALSE, o)
      /\ cfg.tc.on /\ Transparent(cfg, k, FALSE) /\ ~Hit(a, k) => o.frame = k.page
  BY <1>1, ReadFinds
<1>3. Uncovered(o.atc)
  BY <1>1, TranslateUncovered DEF TranslateRead, Outcome
<1>4. Transparent(cfg, k, FALSE) => ~Hit(a, k)
  BY <1>1 DEF Uncovered, Hit
<1>5. ASSUME o.frame # Fault, cfg.tc.on PROVE Fresh(o.desc, stale, Kept(o, fc, p, old))
  <2>1. Kept(o, fc, p, old) = [page |-> p, frame |-> o.frame, fc |-> fc]
    BY <1>5 DEF Kept
  <2>2. k \notin stale => IF Transparent(cfg, k, FALSE) THEN o.frame = p ELSE Maps(o.desc, k, o.frame)
    BY <1>1, <1>2, <1>4, <1>5 DEF Tabled
  <2> DEFINE c == Kept(o, fc, p, old)
  <2>3. c.frame = o.frame /\ c.page = p /\ KeyOf(c.fc, c.page) = k
    BY <2>1
  <2> HIDE DEF c, k, o
  <2>4. Fresh(o.desc, stale, c)
    BY <1>5, <2>2, <2>3 DEF Fresh
  <2> QED
    BY <2>4 DEF c, k, o
<1>6. ASSUME ~cfg.tc.on PROVE Fresh(o.desc, stale, Kept(o, fc, p, old))
  <2>1. Kept(o, fc, p, old) = old
    BY <1>6 DEF Kept
  <2> QED
    BY <1>2, <2>1, FreshStays DEF Kind, Stateful
<1> QED
  BY <1>3, <1>5, <1>6

\* A translation and what it leaves in the caches.
LEMMA FillKeeps ==
  ASSUME IInv, CachesOK, NEW o, Translates(o), Uncovered(o.atc), stale' = stale,
         Fresh(o.desc, stale, data'), Fresh(o.desc, stale, fetch')
  PROVE  CachesOK'
<1>1. cfg' = cfg /\ atc' = o.atc /\ desc' = o.desc
  BY DEF Translates
<1>2. Uncovered(atc)' /\ Fresh(desc, stale, data)' /\ Fresh(desc, stale, fetch)'
  BY <1>1 DEF Uncovered, Transparent, Fresh, Maps, On, RootOf, KeyOf
<1> QED
  BY <1>1, <1>2 DEF CachesOK, NoShadow

\* After a change of a register or a flush nothing is cached by page.
LEMMA EmptyCachesKeep ==
  ASSUME NoShadow, cfg'.tt.reads => cfg'.tt.writes, Uncovered(atc)', data' = None, fetch' = None
  PROVE  CachesOK'
BY DEF CachesOK, NoShadow, Fresh, None

\* A bus error empties the one-page caches.
LEMMA BusErrorCaches ==
  ASSUME IInv, CachesOK, NEW o, Kind(atc, desc, o), Uncovered(o.atc), BusError(o)
  PROVE  CachesOK'
<1>1. Translates(o) /\ stale' = stale /\ data' = None /\ fetch' = None
  BY DEF BusError, Translates
<1> QED
  BY <1>1, NoneFresh, FillKeeps

\* Every access keeps the one-page caches right.
LEMMA AccessCaches == ASSUME IInv, CachesOK, Access PROVE CachesOK'
<1> USE InvTypes DEF CachesOK
<1>1. ASSUME NEW p \in Page, Read(p) PROVE CachesOK'
  <2> DEFINE o == TranslateRead(atc, desc, KeyOf(FcOf(FALSE), p))
  <2>1. Kind(atc, desc, o)
    BY ReadFinds DEF IInv
  <2>2. /\ Uncovered(o.atc)
        /\ o.frame # Fault => Fresh(o.desc, stale, Kept(o, FcOf(FALSE), p, data))
    BY ReadFresh DEF IInv
  <2>3. Fresh(o.desc, stale, fetch)
    BY <2>1, FreshStays DEF Kind
  <2>4. CASE BusError(o)
    BY <2>1, <2>2, <2>4, BusErrorCaches
  <2>5. CASE /\ o.frame # Fault
             /\ atc' = o.atc /\ desc' = o.desc
             /\ data' = Kept(o, FcOf(FALSE), p, data)
             /\ UNCHANGED <<cfg, fetch, super, stale, dirty, edits>>
    <3> HIDE DEF o
    <3> QED
      BY <2>1, <2>2, <2>3, <2>5, FillKeeps DEF Translates
  <2> QED
    BY <1>1, <2>4, <2>5 DEF Read
<1>2. ASSUME NEW p \in Page, Fetch(p) PROVE CachesOK'
  <2> DEFINE o == TranslateRead(atc, desc, KeyOf(FcOf(TRUE), p))
  <2>1. Kind(atc, desc, o)
    BY ReadFinds DEF IInv
  <2>2. /\ Uncovered(o.atc)
        /\ o.frame # Fault => Fresh(o.desc, stale, Kept(o, FcOf(TRUE), p, fetch))
    BY ReadFresh DEF IInv
  <2>3. Fresh(o.desc, stale, data)
    BY <2>1, FreshStays DEF Kind
  <2>4. CASE BusError(o)
    BY <2>1, <2>2, <2>4, BusErrorCaches
  <2>5. CASE /\ o.frame # Fault
             /\ atc' = o.atc /\ desc' = o.desc
             /\ fetch' = Kept(o, FcOf(TRUE), p, fetch)
             /\ UNCHANGED <<cfg, data, super, stale, dirty, edits>>
    <3> HIDE DEF o
    <3> QED
      BY <2>1, <2>2, <2>3, <2>5, FillKeeps DEF Translates
  <2> QED
    BY <1>2, <2>4, <2>5 DEF Fetch
<1>3. ASSUME NEW p \in Page, Write(p) PROVE CachesOK'
  <2> DEFINE k == KeyOf(FcOf(FALSE), p)
             o == Translate(atc, desc, k, TRUE)
  <2>1. Kind(atc, desc, o) /\ Uncovered(o.atc)
    BY TranslateFinds, TranslateUncovered DEF IInv
  <2>2. Fresh(o.desc, stale, fetch)
    BY <2>1, FreshStays DEF Kind
  <2>3. BusError(o) \/ (o.frame # Fault /\ Store(o, k) /\ UNCHANGED fetch)
    BY <1>3 DEF Write
  <2> HIDE DEF k, o
  <2>4. CASE Store(o, k) /\ UNCHANGED fetch
    BY <2>1, <2>2, <2>4, NoneFresh, FillKeeps DEF Store, Translates
  <2> QED
    BY <2>1, <2>3, <2>4, BusErrorCaches
<1>4. ASSUME NEW fc \in Overrides, NEW p \in Page, NEW q \in Page \cup {-1},
             NEW write \in BOOLEAN, Moves(fc, p, q, write)
      PROVE  CachesOK'
  <2> DEFINE x == IF q = -1 THEN Outcome(0, atc, desc)
                  ELSE TranslateRead(atc, desc, KeyOf(fc, q))
             k == KeyOf(fc, p)
             o == IF write THEN Translate(x.atc, x.desc, k, TRUE)
                  ELSE TranslateRead(x.atc, x.desc, k)
             f == IF q = -1 THEN fetch ELSE Kept(x, fc, q, fetch)
  <2>1. k \in Key /\ fc \in Fc
    OBVIOUS
  <2>2. Kind(atc, desc, x) /\ Uncovered(x.atc)
        /\ (x.frame # Fault => Fresh(x.desc, stale, f) /\ f \in PageCache)
    <3>1. CASE q = -1
      <4>1. x = [frame |-> 0, atc |-> atc, desc |-> desc] /\ f = fetch
        BY <3>1 DEF Outcome
      <4>2. 0 \in Frame
        BY SizeAssumption DEF Frame
      <4> HIDE DEF x, f
      <4> QED
        BY <4>1, <4>2 DEF Kind, Grown, IInv
    <3>2. CASE q # -1
      <4>1. q \in Page /\ KeyOf(fc, q) \in Key /\ x = TranslateRead(atc, desc, KeyOf(fc, q))
            /\ f = Kept(x, fc, q, fetch)
        BY <3>2
      <4>2. Kind(atc, desc, x)
        BY <4>1, ReadFinds DEF IInv
      <4>3. /\ Uncovered(x.atc)
            /\ x.frame # Fault => Fresh(x.desc, stale, Kept(x, fc, q, fetch))
        BY <2>1, <4>1, ReadFresh DEF IInv
      <4> HIDE DEF x, f
      <4>4. x.frame # Fault => f \in PageCache
        BY <2>1, <4>1, <4>2, KeptTyped DEF Kind
      <4> QED
        BY <4>1, <4>2, <4>3, <4>4
    <3> QED
      BY <3>1, <3>2
  <2> HIDE DEF x, f
  <2>3. x.atc \in Atc /\ x.desc \in Memory /\ Fits(x.atc, x.desc)
    BY <2>2 DEF Kind
  <2>4. /\ Kind(x.atc, x.desc, o) /\ Uncovered(o.atc)
        /\ ~write /\ o.frame # Fault => Fresh(o.desc, stale, Kept(o, fc, p, None))
    <3>1. CASE write
      BY <2>1, <2>2, <2>3, <3>1, TranslateFinds, TranslateUncovered
    <3>2. CASE ~write
      BY <2>1, <2>2, <2>3, <3>2, ReadFinds, ReadFresh, NoneFresh, EmptyFits
    <3> QED
      BY <3>1, <3>2
  <2> HIDE DEF o, k
  <2>5. Kind(atc, desc, o)
    BY <2>2, <2>4, GrownChain
  <2>6. x.frame # Fault => Fresh(o.desc, stale, f)
    BY <2>2, <2>3, <2>4, FreshStays DEF Kind
  <2>7. \/ BusError(x) \/ BusError(o)
        \/ /\ x.frame # Fault /\ o.frame # Fault
           /\ fetch' = f
           /\ \/ write /\ Store(o, k)
              \/ /\ ~write
                 /\ atc' = o.atc /\ desc' = o.desc
                 /\ data' = Kept(o, fc, p, None)
                 /\ UNCHANGED <<cfg, super, stale, dirty, edits>>
    BY <1>4 DEF Moves, x, o, k, f
  <2>8. CASE BusError(x) \/ BusError(o)
    BY <2>2, <2>4, <2>5, <2>8, BusErrorCaches
  <2>9. CASE x.frame # Fault /\ fetch' = f /\ write /\ Store(o, k)
    BY <2>4, <2>5, <2>6, <2>9, NoneFresh, FillKeeps DEF Store, Translates
  <2>10. CASE /\ x.frame # Fault /\ o.frame # Fault /\ fetch' = f /\ ~write
              /\ atc' = o.atc /\ desc' = o.desc
              /\ data' = Kept(o, fc, p, None)
              /\ UNCHANGED <<cfg, super, stale, dirty, edits>>
    BY <2>4, <2>5, <2>6, <2>10, FillKeeps DEF Translates
  <2> QED
    BY <2>7, <2>8, <2>9, <2>10
<1> QED
  BY <1>1, <1>2, <1>3, <1>4 DEF Access

\* A change of the tables makes the caches of them stale.
LEMMA EditCaches ==
  ASSUME IInv, CachesOK, NEW e \in Edits, EditTable(e[1], e[2])
  PROVE  CachesOK'
<1> DEFINE s == e[1]
<1>1. /\ desc' = [desc EXCEPT ![s] = e[2]]
      /\ stale' = stale \cup {k \in Key : Cached(k) /\ Uses(k, s)}
      /\ UNCHANGED <<cfg, atc, data, fetch, super>>
  BY DEF EditTable
<1> HIDE DEF s
<1>2. \A t \in Slot : t # s => desc'[t] = desc[t]
  BY <1>1, InvTypes DEF Memory
<1>3. Uncovered(atc)'
  BY <1>1 DEF CachesOK, Uncovered, Transparent
<1>4. ASSUME NEW c \in {data, fetch} PROVE Fresh(desc', stale', c)
  <2> DEFINE k == KeyOf(c.fc, c.page)
  <2> SUFFICES ASSUME c.page # -1, k \notin stale'
               PROVE  cfg.tc.on /\ IF Transparent(cfg, k, FALSE) THEN c.frame = c.page
                                                                ELSE Maps(desc', k, c.frame)
    BY DEF Fresh
  <2>1. k \in Key /\ k.page = c.page /\ k.fc = c.fc
    BY InvTypes DEF PageCache, KeyOf, Key
  <2>2. k \notin stale /\ ~Uses(k, s)
    BY <1>1, <2>1 DEF Cached
  <2>3. cfg.tc.on /\ IF Transparent(cfg, k, FALSE) THEN c.frame = c.page ELSE Maps(desc, k, c.frame)
    BY <2>2 DEF CachesOK, Fresh
  <2> HIDE DEF k
  <2>4. <<RootOf(k), Top>> \in Slot /\ <<RootOf(k), k.page>> \in Slot
    BY <2>1, InvTypes DEF RootOf, Config, Slot, Key
  <2>5. \A t \in Slot : /\ On(desc', k, t) <=> On(desc, k, t)
                        /\ On(desc, k, t) => desc'[t] = desc[t]
    BY <1>2, <2>2, <2>4 DEF On, Uses
  <2>6. Maps(desc, k, c.frame) => Maps(desc', k, c.frame)
    BY <2>5 DEF Maps
  <2> QED
    BY <2>3, <2>6
<1>5. Fresh(desc, stale, data)' /\ Fresh(desc, stale, fetch)'
  BY <1>1, <1>4 DEF Fresh, Transparent, Maps, On, RootOf, KeyOf
<1> QED
  BY <1>1, <1>3, <1>5 DEF CachesOK, NoShadow

\* Every instruction of the MMU keeps the one-page caches right.
LEMMA InstructionCaches == ASSUME IInv, CachesOK, MmuInstruction PROVE CachesOK'
<1>1. ASSUME NEW fc, NEW pages, Flush(fc, pages) PROVE CachesOK'
  <2>1. cfg' = cfg /\ data' = None /\ fetch' = None
        /\ \A i \in Lines : atc'[i] = atc[i] \/ atc'[i] = Empty
    BY <1>1, InvTypes DEF Flush, OnFlush, Atc
  <2>2. Uncovered(atc)'
    BY <2>1, EmptyFits DEF CachesOK, Uncovered, Transparent
  <2> QED
    BY <2>1, <2>2, EmptyCachesKeep DEF CachesOK
<1>2. ASSUME NEW c, c.tt.reads => c.tt.writes, SetConfig(c) PROVE CachesOK'
  <2>1. cfg' = c /\ data' = None /\ fetch' = None /\ \A i \in Lines : atc'[i] = Empty
    BY <1>2, InvTypes DEF SetConfig, OnFlush, Atc
  <2>2. Uncovered(atc)'
    BY <2>1, EmptyFits DEF Uncovered
  <2> QED
    BY <1>2, <2>1, <2>2, EmptyCachesKeep DEF CachesOK
<1>3. ASSUME NEW c \in Configs, Pmove(c) PROVE CachesOK'
  BY <1>2, <1>3 DEF Pmove, CachesOK, NoShadow
<1>4. ASSUME NEW r \in DOMAIN ResetConfig, NEW p \in Page, PmoveFaults(r, p) PROVE CachesOK'
  <2> DEFINE c == [cfg EXCEPT ![r] = ResetConfig[r]]
  <2>1. c.tt.reads => c.tt.writes
    <3>1. c.tt \in {cfg.tt, ResetConfig.tt}
      BY InvTypes, ResetOneRegister
    <3> QED
      BY <3>1, ConfigAssumption DEF CachesOK, NoShadow
  <2>2. SetConfig(c)
    BY <1>4 DEF PmoveFaults
  <2> HIDE DEF c
  <2> QED
    BY <1>2, <2>1, <2>2
<1>5. ASSUME NEW fc \in Overrides, NEW p \in Page, NEW write \in BOOLEAN, Pload(fc, p, write)
      PROVE  CachesOK'
  <2> DEFINE k == KeyOf(fc, p)
             o == TableWalk(atc, desc, k, write)
  <2>1. /\ cfg.tc.on /\ atc' = o.atc /\ desc' = o.desc /\ k \in Key
        /\ LoadCovered \/ ~Transparent(cfg, k, FALSE)
        /\ UNCHANGED <<cfg, data, fetch, super, stale, dirty, edits>>
    BY <1>5, InvTypes DEF Pload
  <2>2. Kind(atc, desc, o)
    BY <2>1, InvTypes, WalkFinds DEF IInv
  <2>3. Uncovered(o.atc)
    BY <2>1, InvTypes, WalkUncovered DEF CachesOK, NoShadow
  <2> HIDE DEF k, o
  <2>4. Fresh(o.desc, stale, data) /\ Fresh(o.desc, stale, fetch)
    BY <2>2, InvTypes, FreshStays DEF Kind, CachesOK
  <2> QED
    BY <2>1, <2>2, <2>3, <2>4, FillKeeps DEF Translates
<1> QED
  BY <1>1, <1>3, <1>4, <1>5 DEF MmuInstruction

\* Every step keeps the one-page caches right.
LEMMA NextCaches == IInv /\ CachesOK /\ [Next]_vars => CachesOK'
<1> SUFFICES ASSUME IInv, CachesOK, [Next]_vars PROVE CachesOK'
  OBVIOUS
<1>1. CASE SwitchMode
  <2>1. cfg' = cfg /\ atc' = atc /\ data' = None /\ fetch' = None
    BY <1>1 DEF SwitchMode
  <2>2. Uncovered(atc)'
    BY <2>1 DEF CachesOK, Uncovered, Transparent
  <2> QED
    BY <2>1, <2>2, EmptyCachesKeep DEF CachesOK
<1>2. CASE Reset
  <2>1. cfg' = ResetConfig /\ data' = None /\ fetch' = None /\ \A i \in Lines : atc'[i] = Empty
    BY <1>2, InvTypes DEF Reset, SetConfig, OnFlush, Atc
  <2>2. Uncovered(atc)'
    BY <2>1, EmptyFits DEF Uncovered
  <2> QED
    BY <2>1, <2>2, EmptyCachesKeep, ConfigAssumption DEF CachesOK, NoShadow
<1>3. CASE UNCHANGED vars
  BY <1>3 DEF vars, CachesOK, NoShadow, Uncovered, Fresh, Transparent, Maps, On, RootOf, KeyOf
<1> QED
  BY <1>1, <1>2, <1>3, AccessCaches, InstructionCaches, EditCaches DEF Next

(* What a one-page cache would answer is what a translation for the        *)
(* function code it was filled with gives, or belongs to a table the guest *)
(* changed without a flush. The hypothesis excludes the two ways in which  *)
(* the ATC hides a TT register from reads (Mmu.h 73).                      *)
THEOREM CachesTellTranslation ==
  NoShadow => (Spec => []CachesCoherent)
<1>1. NoShadow /\ Init => IInv /\ CachesOK
  <2> SUFFICES ASSUME NoShadow, Init PROVE CachesOK
    BY InitEstablishes
  <2>1. cfg = ResetConfig /\ data = None /\ fetch = None /\ \A i \in Lines : atc[i] = Empty
    BY DEF Init, Lines
  <2> QED
    BY <2>1, EmptyFits, NoneFresh, ConfigAssumption DEF CachesOK, NoShadow, Uncovered
<1>2. IInv /\ CachesOK /\ [Next]_vars => (IInv /\ CachesOK)'
  BY NextKeeps, NextCaches
<1>3. CachesOK => CachesCoherent
  BY DEF CachesOK, Fresh, CachesCoherent, Maps, MapsTo, On, OnPath
<1> QED
  BY <1>1, <1>2, <1>3, PTL DEF Spec
=============================================================================
