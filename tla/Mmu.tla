-------------------------------- MODULE Mmu --------------------------------
(***************************************************************************)
(* Address translation (Core/Mmu, and the accesses of Core/MC68030). The   *)
(* guest's page tables are cached three times over: in the ATC, and in the *)
(* CPU's one-page caches for data reads and for instruction fetches, which *)
(* answer without asking the MMU. Nothing but a flush tells them that the  *)
(* guest has changed a table.                                              *)
(*                                                                         *)
(* Tables have two levels: a top descriptor per root, which may map a      *)
(* large page itself, and one descriptor per page. A hit of a one-page     *)
(* cache changes nothing and is not a step; but an access to the last word *)
(* of a page is translated again even if the page is cached.               *)
(***************************************************************************)
EXTENDS Integers

CONSTANTS
    Root,        \* root pointers: address spaces, and the invalid one
    NPages,      \* bound: logical pages; a large page has all of them
    NFrames,     \* bound: page frames, a multiple of NPages
    Index,       \* MakeAtcIndex: the ATC line of a key
    Configs,     \* values of TC, CRP, SRP and TT0/TT1 the guest sets
    ResetConfig, \* their value after Mmu::Reset: every register is 0
    Tables,      \* the tables the guest has built when it starts
    Edits,       \* what it writes into which descriptor later
    MaxEdits,    \* bound: changes of the tables
    Overrides,   \* values of SFC and DFC
    LoadCovered  \* the guest may PLOAD pages that the TT registers cover

Page == 0..(NPages - 1)
Frame == 0..(NFrames - 1)

\* FC as its bits tell: bit 2, supervisor; bits 1-0, program or data.
Fc == [s : BOOLEAN, prog : BOOLEAN]
Key == [fc : Fc, page : Page]

Top == -1
Slot == Root \X ({Top} \cup Page)

\* DT, write protection, the modified bit and the page frame. The used bit is
\* set by a walk and read by nobody.
Desc == [dt : {"invalid", "page", "table"}, wp : BOOLEAN, m : BOOLEAN, frame : Frame]

\* One TT register stands for both: the addresses and function codes it
\* matches, and the directions.
TT == [pages : SUBSET Page, s : SUBSET BOOLEAN, reads : BOOLEAN, writes : BOOLEAN]
Config == [tc : [on : BOOLEAN, sre : BOOLEAN], crp : Root, srp : Root, tt : TT]

ASSUME SizeAssumption ==
    /\ NPages \in Nat \ {0} /\ NFrames \in Nat \ {0}
    /\ NPages <= NFrames /\ NFrames % NPages = 0
    /\ MaxEdits \in Nat /\ LoadCovered \in BOOLEAN
ASSUME ConfigAssumption ==
    /\ Configs \subseteq Config /\ ResetConfig \in Configs /\ ~ResetConfig.tc.on
    /\ Edits \subseteq Slot \X Desc /\ Overrides \subseteq Fc
    /\ Tables \in [Slot -> Desc]

VARIABLES
    cfg,     \* TC, CRP, SRP, TT0/TT1
    desc,    \* the page tables in guest memory
    atc,     \* m_atc
    data,    \* _dataCacheValid, _dataPageVA, _dataPagePA
    fetch,   \* _fetchCacheValid, _fetchPageVA, _fetchPagePA
    super,   \* the S bit
    stale,   \* ghost: keys cached when their tables changed, not flushed since
    dirty,   \* ghost: page descriptors written through since they were changed
    edits    \* changes of the tables so far

vars == <<cfg, desc, atc, data, fetch, super, stale, dirty, edits>>

-----------------------------------------------------------------------------
(* Tables and the walk.                                                    *)

\* Supervisor spaces have a root of their own if SRE says so, whatever the mode.
RootOf(k) == IF k.fc.s /\ cfg.tc.sre THEN cfg.srp ELSE cfg.crp

\* The descriptor a walk ends at.
Leaf(d, k) ==
    IF d[<<RootOf(k), Top>>].dt = "table" THEN <<RootOf(k), k.page>> ELSE <<RootOf(k), Top>>

\* Write protection of the table applies to every page below it.
Protected(d, k) == d[<<RootOf(k), Top>>].wp \/ d[Leaf(d, k)].wp

\* A large page is aligned to its size.
FrameAt(s, f, p) == IF s[2] = Top THEN (f \div NPages) * NPages + p ELSE f

None == [page |-> -1, frame |-> 0, fc |-> [s |-> TRUE, prog |-> FALSE]]
Empty == [valid |-> FALSE, key |-> [fc |-> None.fc, page |-> 0],
          frame |-> 0, wp |-> FALSE, m |-> FALSE]
Fault == -1

\* The outcome of a translation: a frame, or Fault; the ATC and the tables.
Outcome(f, a, d) == [frame |-> f, atc |-> a, desc |-> d]

\* TableWalk and CacheInAtc. Only a whole walk changes the ATC.
TableWalk(a, d, k, write) ==
    LET s == Leaf(d, k)
        f == FrameAt(s, d[s].frame, k.page)
        m == d[s].m \/ write
    IN  IF d[s].dt # "page" \/ (write /\ Protected(d, k))
          THEN Outcome(Fault, a, d)
          ELSE Outcome(f,
                 [a EXCEPT ![Index[k]] = [valid |-> TRUE, key |-> k, frame |-> f,
                                          wp |-> Protected(d, k), m |-> m]],
                 [d EXCEPT ![s].m = m])

Transparent(c, k, write) ==
    /\ k.page \in c.tt.pages /\ k.fc.s \in c.tt.s
    /\ IF write THEN c.tt.writes ELSE c.tt.reads

Hit(a, k) == a[Index[k]].valid /\ a[Index[k]].key = k

Dropped(a, k) == [a EXCEPT ![Index[k]] = Empty]

\* Mutant: the first write through an entry does not go back to the tables.
NeedsWalkNever(e, write) == FALSE

\* The first write through an entry has to set M in the tables.
NeedsWalk(e, write) == write /\ ~e.m

\* Translate.
Translate(a, d, k, write) ==
    LET e == a[Index[k]]
    IN  IF ~cfg.tc.on \/ Transparent(cfg, k, write) THEN Outcome(k.page, a, d)
        ELSE IF ~Hit(a, k) THEN TableWalk(a, d, k, write)
        ELSE IF write /\ e.wp THEN Outcome(Fault, a, d)
        ELSE IF NeedsWalk(e, write) THEN TableWalk(Dropped(a, k), d, k, write)
        ELSE Outcome(e.frame, a, d)

\* TranslateRead: TranslateReadFast asks the ATC before the TT registers.
TranslateRead(a, d, k) ==
    IF cfg.tc.on /\ Hit(a, k) THEN Outcome(a[Index[k]].frame, a, d)
    ELSE Translate(a, d, k, FALSE)

-----------------------------------------------------------------------------
(* Accesses of the CPU.                                                    *)

\* GetFunctionCode without an override.
FcOf(prog) == [s |-> super, prog |-> prog]
KeyOf(fc, p) == [fc |-> fc, page |-> p]

\* What ReadByte and FetchWord keep of a translation.
Kept(o, fc, p, old) == IF cfg.tc.on THEN [page |-> p, frame |-> o.frame, fc |-> fc] ELSE old

\* HandleBusError: supervisor mode, and nothing cached. The accesses that build
\* the frame are accesses like any other.
BusError(o) ==
    /\ atc' = o.atc /\ desc' = o.desc
    /\ super' = TRUE /\ data' = None /\ fetch' = None
    /\ UNCHANGED <<cfg, stale, dirty, edits>>

Read(p) ==
    LET o == TranslateRead(atc, desc, KeyOf(FcOf(FALSE), p))
    IN  \/ o.frame = Fault /\ BusError(o)
        \/ /\ o.frame # Fault
           /\ atc' = o.atc /\ desc' = o.desc
           /\ data' = Kept(o, FcOf(FALSE), p, data)
           /\ UNCHANGED <<cfg, fetch, super, stale, dirty, edits>>

Fetch(p) ==
    LET o == TranslateRead(atc, desc, KeyOf(FcOf(TRUE), p))
    IN  \/ o.frame = Fault /\ BusError(o)
        \/ /\ o.frame # Fault
           /\ atc' = o.atc /\ desc' = o.desc
           /\ fetch' = Kept(o, FcOf(TRUE), p, fetch)
           /\ UNCHANGED <<cfg, data, super, stale, dirty, edits>>

\* The page descriptor a write goes through; none if it bypasses the tables,
\* or is translated by an entry the guest should have flushed.
Through(k) ==
    IF ~cfg.tc.on \/ Transparent(cfg, k, TRUE) \/ k \in stale THEN {} ELSE {Leaf(desc, k)}

Store(o, k) ==
    /\ atc' = o.atc /\ desc' = o.desc /\ data' = None
    /\ dirty' = dirty \cup Through(k)
    /\ UNCHANGED <<cfg, super, stale, edits>>

Write(p) ==
    LET k == KeyOf(FcOf(FALSE), p)
        o == Translate(atc, desc, k, TRUE)
    IN  \/ o.frame = Fault /\ BusError(o)
        \/ o.frame # Fault /\ Store(o, k) /\ UNCHANGED fetch

\* DecodeMOVES: the override of the function code holds for the operand, and
\* for the extension words of its address too: q is the page of one that the
\* fetch cache does not answer, or -1.
Moves(fc, p, q, write) ==
    LET x == IF q = -1 THEN Outcome(0, atc, desc) ELSE TranslateRead(atc, desc, KeyOf(fc, q))
        k == KeyOf(fc, p)
        o == IF write THEN Translate(x.atc, x.desc, k, TRUE)
             ELSE TranslateRead(x.atc, x.desc, k)
    IN  /\ super /\ (cfg.tc.on => fetch.page # -1)
        /\ \/ x.frame = Fault /\ BusError(x)
           \/ x.frame # Fault /\ o.frame = Fault /\ BusError(o)
           \/ /\ x.frame # Fault /\ o.frame # Fault
              /\ fetch' = IF q = -1 THEN fetch ELSE Kept(x, fc, q, fetch)
              /\ \/ write /\ Store(o, k)
                 \/ /\ ~write
                    /\ atc' = o.atc /\ desc' = o.desc
                    /\ data' = Kept(o, fc, p, None)
                    /\ UNCHANGED <<cfg, super, stale, dirty, edits>>

\* SetSR, where it changes the mode.
SwitchMode ==
    /\ super' = ~super /\ data' = None /\ fetch' = None
    /\ UNCHANGED <<cfg, desc, atc, stale, dirty, edits>>

-----------------------------------------------------------------------------
(* Instructions of the MMU.                                                *)

\* Mutant: a flush forgets the page cache of the fetches.
OnFlushForgetsFetch == data' = None /\ fetch' = fetch

\* OnFlush, as the CPU has set it.
OnFlush == data' = None /\ fetch' = None

\* Mutant: the mask is applied to one side of the comparison only.
CoversUnmasked(fc, pages, k) ==
    /\ \A b \in DOMAIN k.fc : k.fc[b] = (b \in DOMAIN fc /\ fc[b])
    /\ k.page \in pages

\* The keys a PFLUSH means: those whose function code has these bits, the
\* bits of fc that the mask lets through.
Covers(fc, pages, k) == (\A b \in DOMAIN fc : k.fc[b] = fc[b]) /\ k.page \in pages

\* FlushAll, FlushByFC (all pages) and FlushByFCAndAddress.
Flush(fc, pages) ==
    /\ super
    /\ atc' = [i \in DOMAIN atc |->
                 IF atc[i].valid /\ Covers(fc, pages, atc[i].key) THEN Empty ELSE atc[i]]
    /\ stale' = {k \in stale : (\E b \in DOMAIN fc : k.fc[b] # fc[b]) \/ k.page \notin pages}
    /\ OnFlush
    /\ UNCHANGED <<cfg, desc, super, dirty, edits>>

\* A new value of a register, and FlushAll.
SetConfig(c) ==
    /\ cfg' = c /\ atc' = [i \in DOMAIN atc |-> Empty] /\ stale' = {}
    /\ OnFlush

\* PMOVE to TC, CRP, SRP or a TT register.
Pmove(c) ==
    /\ super /\ c # cfg
    /\ \E r \in DOMAIN c : [cfg EXCEPT ![r] = c[r]] = c
    /\ SetConfig(c)
    /\ UNCHANGED <<desc, super, dirty, edits>>

\* A PMOVE whose operand cannot be read: what ReadValue returns then, 0, is
\* the register's new value, and HandleBusError does not restore it.
PmoveFaults(r, p) ==
    /\ super /\ data.page # p
    /\ TranslateRead(atc, desc, KeyOf(FcOf(FALSE), p)).frame = Fault
    /\ SetConfig([cfg EXCEPT ![r] = ResetConfig[r]])
    /\ UNCHANGED <<desc, super, dirty, edits>>

\* PLOAD: a walk whose fault nobody sees.
Pload(fc, p, write) ==
    LET k == KeyOf(fc, p)
        o == TableWalk(atc, desc, k, write)
    IN  /\ super /\ cfg.tc.on
        /\ LoadCovered \/ ~(Transparent(cfg, k, TRUE) \/ Transparent(cfg, k, FALSE))
        /\ atc' = o.atc /\ desc' = o.desc
        /\ UNCHANGED <<cfg, data, fetch, super, stale, dirty, edits>>

\* Mmu::Reset, in a CPU reset or in a warm reboot.
Reset ==
    /\ SetConfig(ResetConfig)
    /\ super' = TRUE
    /\ UNCHANGED <<desc, dirty, edits>>

-----------------------------------------------------------------------------
(* The guest changes its tables.                                           *)

Cached(k) ==
    \/ Hit(atc, k)
    \/ data.page = k.page /\ data.fc = k.fc
    \/ fetch.page = k.page /\ fetch.fc = k.fc

Uses(k, s) == s \in {<<RootOf(k), Top>>, <<RootOf(k), k.page>>}

EditTable(s, e) ==
    /\ edits < MaxEdits /\ desc[s] # e
    /\ edits' = edits + 1
    /\ desc' = [desc EXCEPT ![s] = e]
    /\ stale' = stale \cup {k \in Key : Cached(k) /\ Uses(k, s)}
    /\ dirty' = {t \in dirty : t # s /\ (s[2] = Top => t[1] # s[1])}
    /\ UNCHANGED <<cfg, atc, data, fetch, super>>

-----------------------------------------------------------------------------
Init ==
    /\ cfg = ResetConfig /\ desc = Tables
    /\ atc = [i \in {Index[k] : k \in Key} |-> Empty]
    /\ data = None /\ fetch = None /\ super = TRUE
    /\ stale = {} /\ dirty = {} /\ edits = 0

MmuInstruction ==
    \/ \E mask \in SUBSET {"s", "prog"} : \E fc \in [mask -> BOOLEAN] :
         Flush(fc, Page) \/ \E p \in Page : Flush(fc, {p})
    \/ \E c \in Configs : Pmove(c)
    \/ \E r \in DOMAIN ResetConfig, p \in Page : PmoveFaults(r, p)
    \/ \E fc \in Overrides, p \in Page, write \in BOOLEAN : Pload(fc, p, write)

Access ==
    \/ \E p \in Page : Read(p) \/ Fetch(p) \/ Write(p)
    \/ \E fc \in Overrides, p \in Page, q \in Page \cup {-1}, write \in BOOLEAN :
         Moves(fc, p, q, write)

Next ==
    \/ Access \/ MmuInstruction \/ SwitchMode \/ Reset
    \/ \E e \in Edits : EditTable(e[1], e[2])

Spec == Init /\ [][Next]_vars

-----------------------------------------------------------------------------
PageCache == [page : Page \cup {-1}, frame : Frame, fc : Fc]

TypeOK ==
    /\ cfg \in Config /\ desc \in [Slot -> Desc]
    /\ \A i \in DOMAIN atc :
         atc[i] \in [valid : BOOLEAN, key : Key, frame : Frame, wp : BOOLEAN, m : BOOLEAN]
    /\ data \in PageCache /\ fetch \in PageCache /\ super \in BOOLEAN
    /\ stale \subseteq Key /\ dirty \subseteq Slot /\ edits \in 0..MaxEdits

\* The slots on the way from a key's root to its page, by the tables alone.
OnPath(k, s) ==
    \/ s = <<RootOf(k), Top>>
    \/ s = <<RootOf(k), k.page>> /\ desc[<<RootOf(k), Top>>].dt = "table"

\* What the tables say now: the page is there, in this frame.
MapsTo(k, f) ==
    \E s \in Slot :
        /\ OnPath(k, s) /\ desc[s].dt = "page"
        /\ \/ s[2] # Top /\ f = desc[s].frame
           \/ s[2] = Top /\ f % NPages = k.page /\ f \div NPages = desc[s].frame \div NPages

(* An ATC entry whose tables have not changed since the last flush that    *)
(* covers it says what they say: frame, protection of every level, and no  *)
(* M bit that they do not have. Every flush, with every mask, reaches the  *)
(* entries it means (Mmu.cpp 505-546).                                     *)
AtcCoherent ==
    \A i \in DOMAIN atc :
        LET e == atc[i]
        IN  e.valid /\ e.key \notin stale =>
              /\ cfg.tc.on /\ MapsTo(e.key, e.frame)
              /\ e.wp <=> \E s \in Slot : OnPath(e.key, s) /\ desc[s].wp
              /\ e.m => \E s \in Slot : OnPath(e.key, s) /\ desc[s].dt = "page" /\ desc[s].m

(* A one-page cache holds what a full translation for the function code it *)
(* was filled with would give, or a page whose tables changed without a    *)
(* flush: no change of a register, no flush and no fault leaves it behind. *)
CachesCoherent ==
    \A c \in {data, fetch} :
        LET k == KeyOf(c.fc, c.page)
        IN  c.page # -1 /\ k \notin stale =>
              cfg.tc.on /\ IF Transparent(cfg, k, FALSE) THEN c.frame = c.page
                                                      ELSE MapsTo(k, c.frame)

(* No write goes unnoticed or unauthorised: a page written through since   *)
(* its descriptors were last changed has M set there, and no level of the  *)
(* tables protects it (Mmu.cpp 165-178, 355-394).                          *)
DirtyMarked ==
    \A s \in dirty : desc[s].m /\ ~desc[s].wp /\ ~desc[<<s[1], Top>>].wp

(* "cache entry is for current FC" (InstructionDecoder.cpp 934): what the  *)
(* one-page caches would answer is for the space the CPU is in.            *)
CacheForCurrentFc ==
    /\ data.page # -1 => data.fc = FcOf(FALSE)
    /\ fetch.page # -1 => fetch.fc = FcOf(TRUE)
=============================================================================
