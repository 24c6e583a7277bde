-------------------------------- MODULE Jit --------------------------------
(* The JIT of the CPU: basic blocks compiled from physical memory            *)
(* (Core/JitCompiler.cpp), kept in a cache by physical address, looked up    *)
(* and run by the emulation thread (Core/MC68030.cpp), dropped when the MMU  *)
(* is flushed or the supervisor goes to user mode, kept when an exception    *)
(* enters supervisor mode, and switched on and off by the settings window    *)
(* while the emulation thread runs (MainViewModel.cpp).                      *)
(*                                                                           *)
(* An instruction is one word and is known by what it does to the flags and  *)
(* to the control flow.  A flag is known by the instruction that last wrote  *)
(* it: two executions agree on a flag exactly if the same instruction of the *)
(* block wrote it last, or neither wrote it.                                 *)
EXTENDS Naturals, Sequences, FiniteSets, FiniteSetsExt

CONSTANTS PageLen,        \* words of a page
          Pages,          \* number of virtual pages, and of frames
          Images,         \* contents memory may have at the start
          Maps,           \* translations the guest may install, pages to frames
          Patches,        \* instructions the guest may write over its code
          Entries,        \* bound: where the emulation thread samples
          Slots,          \* entries of the block cache (8192 in the code)
          Threshold,      \* JitCompileThreshold: samples before compilation
          MinBlockLength, \* JitMinBlockLength
          MaxBailouts,    \* JitBailoutBlacklistThreshold
          MaxChanges,     \* bound: changes of code and translation, resets and
                          \* edits in the debugger; changes of mode are free
          MaxToggles,     \* bound: changes of the JIT setting
          None

Addresses == 0 .. (Pages * PageLen) - 1

(* Instructions by kind: "add" stands for those that write all flags, "move" *)
(* for those that leave X alone, "cmp" for the compares, whose flags the JIT *)
(* always computes, "btst" writes Z only, "lea" none, "load" and "store" are *)
(* the MOVE.L with memory, "other" is one the JIT does not compile, or a     *)
(* branch back to the start of the block or before it.                       *)
Kinds == {"add", "move", "cmp", "btst", "lea", "load", "store",
          "bcc", "bra", "rts", "other"}

Flags == {"X", "Z", "NVC"}

ASSUME BoundsAssumption ==
  /\ {PageLen, Pages, Slots, Threshold, MinBlockLength, MaxBailouts}
       \subseteq Nat \ {0}
  /\ {MaxChanges, MaxToggles} \subseteq Nat
  /\ Images \subseteq [Addresses -> Kinds] /\ Images # {}
  /\ Maps \subseteq [0 .. Pages - 1 -> 0 .. Pages - 1] /\ Maps # {}
  /\ Patches \subseteq Kinds
  /\ Entries \subseteq Addresses

VARIABLES code,       \* the guest's memory
          map,        \* the translation of each privilege mode
          super,      \* the privilege mode
          blocks,     \* m_blockCache: the block of each entry, or None
          count,      \* m_counts, up to Threshold + 1
          barred,     \* m_uncompilable
          enabled,    \* JitEnabled
          fast,       \* the loop runs ExecuteNextFastJit
          held,       \* the block the emulation thread is about to run
          ran,        \* what the last block did, compared with the interpreter
          patched,    \* words changed since the cache was last emptied
                      \* without a flush of the MMU
          missed,     \* a flush found JitEnabled off and kept the blocks
          kept,       \* since the cache was last emptied, another translation
                      \* took over and nothing was flushed
          changes,    \* counted changes so far
          toggles     \* changes of the setting so far

guest == <<code, map, super, patched, missed, kept, changes>>
cache == <<blocks, count, barred>>
ui    == <<enabled, fast, toggles>>
vars  == <<guest, cache, ui, held, ran>>

Physical(va) == map[super][va \div PageLen] * PageLen + (va % PageLen)
Slot(pa)     == pa % Slots

-----------------------------------------------------------------------------
(* Compilation *)

Touches(kind) == CASE kind = "add" -> Flags
                   [] kind \in {"move", "cmp", "load", "store"} -> {"Z", "NVC"}
                   [] kind = "btst" -> {"Z"}
                   [] OTHER -> {}

(* The words of the block that starts at pa: up to the first instruction the *)
(* JIT does not know, and up to and with the first branch or RTS.  The scan  *)
(* follows physical addresses.                                               *)
Scanned(pa) ==
  LET here == {a \in Addresses : a >= pa}
      last == Min({Pages * PageLen - 1}
                    \cup {a - 1 : a \in {b \in here : code[b] = "other"}}
                    \cup {a \in here : code[a] \in {"bcc", "bra", "rts"}})
  IN  [i \in 1 .. (last + 1) - pa |-> code[pa + i - 1]]

(* Mutant: BTST is taken for an instruction that sets every flag. *)
LiveAfterBtst(ops) ==
  LET live[i \in 0 .. Len(ops)] ==
        \/ i = Len(ops)
        \/ ops[i + 1] = "bcc"
        \/ ops[i + 1] \in {"lea", "store", "rts"} /\ live[i + 1]
  IN  live

(* Dead flags: live[i] says whether what op i leaves in the flags is used:   *)
(* by a Bcc, or, when the next op leaves some of them alone, after that one. *)
Live(ops) ==
  LET live[i \in 0 .. Len(ops)] ==
        \/ i = Len(ops)
        \/ ops[i + 1] = "bcc"
        \/ ops[i + 1] \in {"lea", "store", "rts", "btst"} /\ live[i + 1]
  IN  live

TryCompile(pc) == LET ops == Scanned(Physical(pc))
                  IN  [va |-> pc, pa |-> Physical(pc), ops |-> ops,
                       needs |-> {i \in DOMAIN ops : Live(ops)[i]}, bails |-> 0]

-----------------------------------------------------------------------------
(* Execution of a block: hits are the accesses that find their page in the   *)
(* data page cache; the others, and every store, hand their instruction to   *)
(* the interpreter.                                                          *)

BailsAt(b, hits) ==
  {i \in DOMAIN b.ops : \/ b.ops[i] = "store"
                        \/ b.ops[i] \in {"load", "rts"} /\ i \notin hits}

Executed(b, hits) == Min({Len(b.ops)} \cup {i - 1 : i \in BailsAt(b, hits)})

JitTouches(b, i) == IF i \in b.needs \/ b.ops[i] = "cmp"
                    THEN Touches(b.ops[i]) ELSE {}

LastWriter(f, n, Writes(_)) == Max({0} \cup {i \in 1 .. n : f \in Writes(i)})

(* The flags a block leaves as the interpreter would leave them.  A flag may *)
(* be wrong at a bail-out if the instruction handed over overwrites it.      *)
FlagsRight(b, n) ==
  {f \in Flags :
     \/ LastWriter(f, n, LAMBDA i : JitTouches(b, i))
          = LastWriter(f, n, LAMBDA i : Touches(b.ops[i]))
     \/ n < Len(b.ops) /\ f \in Touches(b.ops[n + 1])}

(* The block is what memory holds from the program counter on. *)
Current(b, pc) ==
  /\ b.va = pc
  /\ \A i \in DOMAIN b.ops : /\ pc + i - 1 \in Addresses
                             /\ code[Physical(pc + i - 1)] = b.ops[i]

Crosses(b)   == b.va \div PageLen # (b.va + Len(b.ops) - 1) \div PageLen
Unflushed(b) == \E i \in DOMAIN b.ops : b.pa + i - 1 \in patched

(* Another page than the one the block was compiled at leads to its frame:   *)
(* besides that page, or instead of it under a translation that took over.   *)
Elsewhere(b) == \E q \in 0 .. Pages - 1 : /\ q # b.va \div PageLen
                                         /\ map[super][q] = b.pa \div PageLen
Aliased(b)   == Elsewhere(b) /\ Physical(b.va) = b.pa
Outlived(b)  == Elsewhere(b) /\ kept

-----------------------------------------------------------------------------
Emptied == [s \in 0 .. Slots - 1 |-> None]

Init ==
  /\ code \in Images
  /\ map \in [BOOLEAN -> Maps]
  /\ map[TRUE] = [p \in 0 .. Pages - 1 |-> p]
  /\ super = TRUE
  /\ blocks = Emptied
  /\ count = [a \in Addresses |-> 0]
  /\ barred = {}
  /\ enabled = TRUE
  /\ fast = TRUE
  /\ held = None
  /\ ran = None
  /\ patched = {}
  /\ missed = FALSE
  /\ kept = FALSE
  /\ changes = 0
  /\ toggles = 0

RemoveBlock(b) ==
  [blocks EXCEPT ![Slot(b.pa)] = IF @ # None /\ @.pa = b.pa THEN None ELSE @]

Bar(pa) == barred' = barred \cup {pa}

(* JitSamplePC, every 256 instructions: a block is compiled when its count   *)
(* reaches the threshold, and only then.                                     *)
Sample(pc) ==
  LET pa == Physical(pc)
      b  == TryCompile(pc)
      n  == Min({count[pa] + 1, Threshold + 1})
  IN  /\ fast /\ held = None
      /\ ~ (blocks[Slot(pa)] # None /\ blocks[Slot(pa)].pa = pa)
      /\ pa \notin barred
      /\ count' = [count EXCEPT ![pa] = n]
      /\ \/ /\ n = Threshold
            /\ Len(b.ops) >= MinBlockLength
            /\ blocks' = [blocks EXCEPT ![Slot(pa)] = b]
            /\ UNCHANGED barred
         \/ /\ n = Threshold
            /\ Len(b.ops) < MinBlockLength
            /\ Bar(pa)
            /\ UNCHANGED blocks
         \/ /\ n # Threshold
            /\ UNCHANGED <<blocks, barred>>
      /\ ran' = None
      /\ UNCHANGED <<guest, ui, held>>

(* ExecuteNextFastJit finds a block at the program counter. *)
Lookup(pc) ==
  LET b == blocks[Slot(Physical(pc))]
  IN  /\ fast /\ held = None
      /\ b # None /\ b.pa = Physical(pc)
      /\ held' = [block |-> b, pc |-> pc, freed |-> FALSE]
      /\ ran' = None
      /\ UNCHANGED <<guest, cache, ui>>

(* ExecuteNextJit runs it; one that bails out too often is removed and       *)
(* barred.                                                                   *)
Run(hits) ==
  LET b    == held.block
      n    == Executed(b, hits)
      more == [b EXCEPT !.bails = @ + 1]
  IN  /\ held # None
      /\ hits \subseteq {i \in DOMAIN b.ops : b.ops[i] \in {"load", "rts"}}
      /\ ran' = [block |-> b, n |-> n, right |-> FlagsRight(b, n),
                 stale |-> ~ Current(b, held.pc), freed |-> held.freed,
                 crosses |-> Crosses(b), aliased |-> Aliased(b),
                 outlived |-> Outlived(b), unflushed |-> Unflushed(b)]
      /\ \/ /\ n = Len(b.ops)
            /\ UNCHANGED cache
         \/ /\ n < Len(b.ops)
            /\ more.bails < MaxBailouts
            /\ blocks' = [blocks EXCEPT ![Slot(b.pa)] = IF @ = b THEN more ELSE @]
            /\ UNCHANGED <<count, barred>>
         \/ /\ n < Len(b.ops)
            /\ more.bails >= MaxBailouts
            /\ blocks' = RemoveBlock(b)
            /\ Bar(b.pa)
            /\ UNCHANGED count
      /\ held' = None
      /\ UNCHANGED <<guest, ui>>

-----------------------------------------------------------------------------
(* What blocks were made from changes, between two blocks.                   *)

(* OnFlush of the MMU, and SetSR: the cache is emptied, its counts are kept. *)
(* With the JIT off, nothing is emptied.                                     *)
Invalidated ==
  \/ /\ enabled
     /\ blocks' = Emptied /\ barred' = {}
     /\ patched' = {} /\ missed' = FALSE /\ kept' = FALSE
  \/ /\ ~ enabled
     /\ missed' = TRUE
     /\ UNCHANGED <<blocks, barred, patched, kept>>

(* Another translation takes over, and no block goes.                        *)
Kept ==
  /\ kept' = TRUE
  /\ UNCHANGED <<blocks, barred, patched, missed>>

Between ==
  /\ held = None
  /\ ran' = None
  /\ UNCHANGED <<ui, held, count>>

Change ==
  /\ Between
  /\ changes < MaxChanges
  /\ changes' = changes + 1

(* The supervisor writes a page table of either mode and flushes the         *)
(* translation (PFLUSH, PMOVE).                                              *)
Remap(mode, m) ==
  /\ super
  /\ map' = [map EXCEPT ![mode] = m]
  /\ Invalidated
  /\ Change
  /\ UNCHANGED <<code, super>>

(* Mutant: the way to user mode drops the page caches and leaves the blocks, *)
(* as SetSupervisorMode does on the way back.                                *)
SetSRKeepsBlocks ==
  /\ super
  /\ super' = FALSE
  /\ Between
  /\ UNCHANGED <<code, map, patched, missed, kept, blocks, barred, changes>>

(* RTE, MOVE, ANDI and EORI to SR and STOP are privileged: the mode they can *)
(* change to is the user's.                                                  *)
SetSR ==
  /\ super
  /\ super' = FALSE
  /\ Invalidated
  /\ Between
  /\ UNCHANGED <<code, map, changes>>

(* An exception, a bus error or an interrupt is taken in user mode: the two  *)
(* page caches of the CPU are dropped, the blocks are not.                   *)
SetSupervisorMode ==
  /\ ~ super
  /\ super' = TRUE
  /\ Kept
  /\ Between
  /\ UNCHANGED <<code, map, changes>>

(* A reset of the CPU turns the MMU off and flushes nothing.                 *)
Reset ==
  /\ super' = TRUE
  /\ map' = [s \in BOOLEAN |-> [p \in 0 .. Pages - 1 |-> p]]
  /\ Kept
  /\ Change
  /\ UNCHANGED code

(* The S bit is edited in the debugger.                                      *)
EditSR ==
  /\ super' = ~ super
  /\ Kept
  /\ Change
  /\ UNCHANGED <<code, map>>

(* Code is written over and PFLUSH makes it known. *)
Replace(pa, kind) ==
  /\ super
  /\ code' = [code EXCEPT ![pa] = kind]
  /\ Invalidated
  /\ Change
  /\ UNCHANGED <<map, super>>

(* Code is written over and the instruction cache is cleared through CACR,   *)
(* as the 68030 requires: the emulator stores CACR and does nothing else.    *)
Patch(pa, kind) ==
  /\ super
  /\ code' = [code EXCEPT ![pa] = kind]
  /\ patched' = patched \cup {pa}
  /\ Change
  /\ UNCHANGED <<map, super, missed, kept, blocks, barred>>

-----------------------------------------------------------------------------
(* ApplyConfig while the loop runs, on the UI thread: at any point of the    *)
(* emulation thread, even while it holds a block.                            *)
SetJit(on) ==
  /\ toggles < MaxToggles
  /\ toggles' = toggles + 1
  /\ enabled' = on
  /\ \/ /\ on
        /\ UNCHANGED <<cache, held, patched, missed, kept>>
     \/ /\ ~ on
        /\ blocks' = Emptied /\ barred' = {}
        /\ held' = IF held = None THEN None ELSE [held EXCEPT !.freed = TRUE]
        /\ patched' = {} /\ missed' = FALSE /\ kept' = FALSE
        /\ UNCHANGED count
  /\ ran' = None
  /\ UNCHANGED <<code, map, super, changes, fast>>

(* The loop is stopped and started: it chooses its execution function. *)
RunLoop ==
  /\ held = None
  /\ fast' = enabled
  /\ ran' = None
  /\ UNCHANGED <<guest, cache, enabled, toggles, held>>

Next ==
  \/ \E pc \in Entries : Sample(pc)
  \/ \E pc \in Addresses : Lookup(pc)
  \/ \E hits \in SUBSET Addresses : Run(hits)
  \/ \E mode \in BOOLEAN, m \in Maps : Remap(mode, m)
  \/ SetSR
  \/ SetSupervisorMode
  \/ Reset
  \/ EditSR
  \/ \E pa \in Addresses, kind \in Patches : Replace(pa, kind)
  \/ \E pa \in Addresses, kind \in Patches : Patch(pa, kind)
  \/ \E on \in BOOLEAN : SetJit(on)
  \/ RunLoop

Spec == Init /\ [][Next]_vars

-----------------------------------------------------------------------------
(* A block that runs does what the interpreter would do with the memory and  *)
(* the translation of now, except for six gaps: a block scanned past the end *)
(* of its page, a second address of its frame under the translation it was   *)
(* compiled under, code changed with CACR alone, a block the settings window *)
(* freed, a flush while JitEnabled was off, and another address of its frame *)
(* under a translation that an exception, a reset or the debugger brought.   *)
StaleExplained ==
  ran # None /\ ran.stale
    => \/ ran.crosses \/ ran.aliased \/ ran.unflushed
       \/ ran.freed \/ missed \/ ran.outlived

(* Dropping dead flags changes no flag the guest can see, except the flags   *)
(* set before a BRA that ends the block, and X when a later instruction of   *)
(* the block leaves X alone, or sets it but is not reached by the block.     *)
FlagsExplained ==
  ran # None =>
    \/ Flags \subseteq ran.right
    \/ LET ops == ran.block.ops
       IN  \/ ops[Len(ops)] = "bra"
           \/ /\ {"Z", "NVC"} \subseteq ran.right
              /\ \E i, j \in DOMAIN ops :
                   /\ i < j /\ ops[i] = "add"
                   /\ \/ ops[j] \in {"move", "cmp", "load"}
                      \/ ops[j] = "add" /\ j > ran.n

(* What ApplyConfig takes for granted: the JIT may be switched while the     *)
(* loop runs.  No block is freed under the emulation thread, and no block    *)
(* outlives a flush.                                                         *)
SafeToToggle ==
  /\ held # None => ~ held.freed
  /\ ran # None /\ ran.stale
       => ran.crosses \/ ran.aliased \/ ran.unflushed \/ ran.outlived
=============================================================================
