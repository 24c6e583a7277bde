# Em68030: a TLA+ model

Em68030 is a Motorola MC68030 emulator with a WinUI 3 front end. It emulates an
MVME147 board (PCC, WD33C93 SCSI, Z8530 serial, LANCE Ethernet, MK48T02 clock)
well enough to run NetBSD, and a small generic board. This directory holds TLA+
modules of its core, the TLC configurations that check them and TLAPS proofs of
their main invariants. Paths below are relative to `src/Em68030/`.

Everything runs from this directory:

    tlasany Pcc.tla                            # parse
    tlc -workers 2 -config Pcc.cfg MCPcc.tla   # check a configuration
    tlapm DeviceProofs.tla                     # check the proofs of a module

## 1. The system

Two threads matter. The **UI thread** owns windows, menus and settings. The
**emulation thread**, created by Run, executes the CPU in a loop and calls each
device's `Tick` every `TickInterval` instructions. Networking adds threads of
its own. Devices call each other synchronously on the emulation thread: a guest
access goes CPU -> MMU -> `Memory` -> device; a device changes its line by a
callback into the PCC; the PCC writes the CPU's `PendingInterruptLevel` and
`PendingInterruptVector`.

| Component | State it keeps | Operations | Hard behaviour | What makes it correct |
|---|---|---|---|---|
| PCC interrupt controller (`IO/PccDevice`) | one ICR per source, remembered device lines, vector base | register writes, `SetDeviceInterrupt`, timer overflow, `HardwareReset`, watchdog | every handler must recompute the CPU's request; level-sensitive lines, acknowledged while driven | the request is the winner of the ICRs; a driven line stays latched |
| PCC timers | count, fraction, preload, overflow counter, time of the last Tick | `Tick`, reads between Ticks, writes | wall-clock time credited in bursts; a read guesses the time not yet credited | no tick lost, the guest's clock never goes back, overflows come |
| CPU loop and exceptions (`Core/MC68030`) | registers, SR, pending request, suppression counter, `BusErrorPending`, register snapshot | one turn of the loop, STOP, exceptions, RTE, bus-error roll-back | the instruction runs on after a fault; deferred snapshot; fault inside an exception; JIT beside the interpreter | faults are restartable, stacks balanced, interrupts neither lost nor early |
| WD33C93 (`IO/Wd33c93Device`) | bus phase, selection, Select-and-Transfer flag, data offset and length, transfer count, CSR, deferred interrupt | commands, data port in PIO and DMA, Tick, reset | Level I and II commands share state; transfers cut into segments; a deferred interrupt racing the driver | every command answered; data before status; writes reach the disk whole and once |
| SCSI targets (`IO/ScsiDisk`, `IO/ScsiCdrom`) | image, sense, medium | CDBs, medium swap from the UI | a medium swapped during a transfer | a unit attention is reported once; blocks in range |
| Run control (`ViewModels/MainViewModel`) | `m_isRunning`, `m_stopRequested`, the thread object, goals, dispatcher queue | Run, Stop, Step, Run to cursor, Step out, Reset, Full reset, `FinalizeStop` | two threads and a queue of clean-ups; joins on the UI thread | flags agree with the thread; nothing is rebuilt under it; the UI never hangs |
| MMU (`Core/Mmu`) | ATC, TT registers, roots; the CPU's one-page caches | translate, walk, flush, PLOAD, PTEST | three caches over guest page tables; M bit on first write | an answer is that of the tables, or of a moment since the last flush |
| JIT (`Core/JitCompiler`) | block cache by physical address, sample counts, blacklist | sample, compile, run, bail out, invalidate | dead-flag elimination; settings changed under the loop; code patched or remapped under a block; every instruction written twice | a block does what the interpreter would do now |
| Memory (`Core/Memory`) | regions, devices | read, write, dispatch | accesses over a region's end | an address has one owner |
| LANCE (`IO/LanceDevice`) | CSR0, ring indices, transmit demand | init, TX and RX rings, Tick | ownership bits shared with a driver; a full ring; causes cleared while new ones arise | each ring is a channel; finished work is announced; frames arrive |
| User-mode network (`IO/SlirpNetworkHandler`) | TCP sessions, UDP maps, reply queue | packets from the guest, connect and receive threads, clean-up | detached threads that outlive their session; window and time-outs; a key used again; shutdown | no segment lost before the end of file; no socket without a session; threads end |
| Virtual and TAP network | reply queue, echo connections; the TAP reader thread | packets both ways | a read given up and not cancelled | frames in order |
| Z8530 (`IO/Z8530Device`) | two channels, interrupt latches, staged input | register pairs, input, Tick | transmit prods, forced while the CPU stops; two queues of input, of two threads | keys neither lost nor reordered nor left; output drains |
| 16550 (`IO/Uart16550Device`) | FIFO, IER, IIR | reads, writes, input from the UI | FIFO shared by two threads | interrupt identification agrees with the FIFO |
| Decoder, ALU, FPU, addressing | none of their own | instruction semantics | the order of accesses and commits when one of them faults; flags handed on from instruction to instruction | a restarted instruction has the effect of one that never faulted; words computed one by one make a long number |
| Breakpoint conditions | expression text | evaluation | precedence | agrees with a reference grammar |
| Disassembler, loader, settings, windows, terminal, clock, generic disk | - | formatting, files, drawing | no protocol | out of scope; see section 7 |

`PROJECT.json` lists every component with its status, and every hazard of this
code at its line with the properties that watch it.

## 2. The modules

| Module | Models | Proofs |
|---|---|---|
| `Pcc` (`MCPcc`) | `IO/PccDevice` interrupt side composed with the interrupt part of the CPU loop | `PccProofs` |
| `PccTimer` | one PCC timer | `PccProofs` |
| `Wd33c93` (`MCWd33c93`) | the SCSI controller, its targets as far as it needs them, and the guest's driver | `DeviceProofs` |
| `RunControl` | UI thread, emulation thread, dispatcher queue | `CpuProofs` |
| `CpuFault` | bus errors through one turn of the CPU loop, interpreter and JIT | `CpuProofs` |
| `Restart` (`MCRestart`) | one instruction, any handler, restarted after its faults | `RestartProofs` |
| `Mmu` (`MCMmu`) | `Core/Mmu` and the accesses of `Core/MC68030` with their page caches | `MmuProofs` |
| `Jit` (`MCJit`) | block compiler, block cache, and the settings that switch them | `JitProofs` |
| `Alu` | the arithmetic of `Core/Alu`, for words of any width | - |
| `Datapath` (`MCAlu`) | the instructions the JIT compiles, as the interpreter and as the JIT executes them | `JitProofs` |
| `MultiWord` (`MCAlu`) | a guest's loops over numbers of several words | `CpuProofs` |
| `SlirpTcp` | TCP sessions of the user-mode network with their threads, guest and host | `SlirpTcpProofs` |
| `Lance`, `Tap`, composed by `MCLance` | the Ethernet chip with its driver; the virtual network's answers; the TAP reader thread | `LanceProofs` |
| `Serial` | the Z8530 with the UI thread and a driver | `DeviceProofs` |
| `Fifo` | abstract: what a ring or a serial line promises | refined by `Serial` and `MCLance` (both proved) |

Operators named in `PROJECT.json` under "mutants", and marked *Mutant* in the
modules, are broken variants of the definition after them. `Spec` never uses
them. Putting one in place of its original makes TLC report the property listed
with it: each property is shown to depend on the code it is about.

### Pcc

`icr` holds the ICRs as records `[int, ien, level]`; `active` is
`m_sccDeviceActive`, `m_scsiDeviceActive`, `m_lanceDeviceActive`; `line` is what
the devices drive, which the PCC cannot see. `ipl` and `vector` are the CPU's
pending request, `suppress` the counter of `MC68030.h` 362-373. Sources come in
three kinds, as in the code: `Latched` (timers, printer, watchdog: an event sets
INT), `Device` (a level-sensitive line) and `Soft` (software interrupts).

One turn of the CPU loop is two steps: the interrupt check (`Idle`,
`CountDown`, `TakeInterrupt`, `PassCheck`) and the instruction (`Instruction`,
`SetMask`, `Stop`, or an access to the PCC or to a device). Device Ticks and
timer events happen between turns. `UpdateIPL` is the search of
`PccDevice.cpp` 182-202 with its order of comparison. The ghosts are `unsynced`
(the CPU was reset and the PCC has not recomputed since: the PCC is not told of
a CPU reset) and `ran` (turns of the suppression window that have run).

### PccTimer

Time is in units of the host's clock: `PerTick` of them make a timer tick.
`Tick` credits at most `MaxCredit` units at once and keeps the fraction
(`PccDevice.cpp` 73-105); `CurrentCount` is `GetCurrentTimerCount`, the
extrapolation a read makes and its clamp at the overflow. The guest writes
control, preload and count registers and acknowledges the interrupt.

### Wd33c93

`bus` gathers the fields every path changes together: phase, selected target,
`m_satInProgress`, data offset and length. Each command of `ExecuteCommand` is
an action that runs to its end within the register write, as in the code, or
arms `pio` or `sbt`; then data-port accesses (`PioRead`, `PioWrite`, `SbtByte`)
carry the transfer one byte each. `Dma` is the burst path. `Tick` delivers the
deferred 0x8E. A target answers with one of `Results`; bytes are counted, not
stored.

`guest` selects who uses the chip and never changes. `"driver"` waits for the
interrupt of each command, reads the CSR, and gives the commands the phase calls
for. `"any"` gives every command in every state. Properties of the chip alone
hold under both; those that need cooperation are stated for `"driver"`.
`job` is the ghost that remembers what was asked of the target and what crossed
the bus; `owed` remembers an unanswered command.

### RunControl

`ui` says which handler the UI thread is in, `thread` where the emulation thread
is: a thread object is joinable until it is joined, ended or not. `queue` counts
the `FinalizeStop` calls in the dispatcher queue. A join is two steps: the
handler enters it, and `JoinReturns` once the thread has ended. `Step` and
`Reset` have no guard on `m_isRunning`, since the handlers of
`MainWindow.xaml.cpp` call them without one.

### CpuFault

A turn of `ExecuteNextFast` or `ExecuteNextFastJit` is one to three steps: the
interrupt check or the start of the instruction, the decoder, and the look at
`BusErrorPending`. An instruction chooses whether and where it faults; after the
fault it runs on with its accesses short-circuited and may still change
A7, SR and PC, as in the code. Stack pointers are numbers of frames, with `User`
for the user stack; of the registers only A7 is kept, the others are in
`Restart`. `HandleBusError`
restores what `needed` and `saved` tell it to. `Jits` says which loop runs.
`SplitVectors` says whether the vectors of interrupts and of bus errors may
fault separately; on the 68030 they share the vector table's page unless VBR is
not page-aligned, and FALSE is the normal layout.

The JIT is modelled as far as faults go: a block is any number of instructions
whose load may fault, and a block that bails out at its first instruction falls
back to the interpreter.

### Mmu

`desc` is the guest's page tables: per root a top descriptor, which maps a large
page or leads to one descriptor per page. `atc` is `m_atc`, a direct-mapped
cache whose lines `Index` gives to keys (function code and page); `data` and
`fetch` are the CPU's one-page caches. In the code these hold no function code;
the `fc` in the model is a ghost, the code under which they were filled.
`Translate` and `TableWalk` return the frame with the ATC and the tables they
leave, as the code threads them through one access. Accesses are `Read`,
`Fetch`, `Write` and `Moves`; the guest's instructions are `Flush` (PFLUSHA,
PFLUSH with and without address), `Pmove`, `Pload`; `PmoveFaults` is a PMOVE
whose operand cannot be read, which leaves 0 in the register. `EditTable` is the
guest writing a descriptor. `stale` remembers which cached translations it
changed and has not flushed, `dirty` which descriptors were written through.

A hit of a page cache is no step. An access whose page is cached may still be
translated again, as for the last bytes of a page. Left out: the used bit, which
no answer depends on; limits and page sizes; PTEST and MMUSR; the JIT's
blocks, which `OnFlush` and `SetSR` drop too (module `Jit`). An ATC entry for
function code 0 and page 0 has tag 0, which means invalid; the model has no
function code 0.

### Restart

`m` is the machine in the middle of a handler: registers, condition codes, PC,
eight cells of memory on pages of two, which pages are mapped and how, the state
`HandleBusError` does not take back (`kept`: SFC, an MMU register, an FPU
register, the stopped state, the debugger's shadow stack), the pending fault and
the handler's temporaries. A handler is an operator that threads `m` through
`Fetch`, `Resolve`, `Load`, `SetReg`, `Store` and `Flags` in the order of its C++
statements; one operator stands for every instruction of the same shape. `Touch`
is where a fault arises and where later accesses are short-circuited. `Execute`
runs a whole handler, as the loop does; `HandleBusError` takes back what the code
saved; `PageIn` is the guest's operating system, which maps the page it was told
of and may take another away. `ideal` is what the same instruction does when
nothing is missing.

### Jit

An instruction is a word known by its effect on flags and control flow.
`TryCompile` scans physical memory from the sampled address (`Scanned`) and keeps
the set of instructions whose flags are needed (`Live`, the backward pass of the
code). `blocks` is the direct-mapped cache, `count` and `barred` are `m_counts`
and `m_uncompilable`. Looking a block up and running it are two steps, since the
UI thread can act between them (`SetJit` is that part of `ApplyConfig`).
`hits` says which loads of a block find the data page cache; the first that does
not, and every store, bails out. The supervisor remaps either mode, replaces code
with a flush (`Replace`) or clears its instruction cache through CACR (`Patch`), all
privileged, and returns to user mode by `SetSR`, which empties the cache.
`SetSupervisorMode`, by which exceptions, bus errors and interrupts come back, empties
the page caches only and keeps the blocks; so do a reset of the CPU and an edit of SR in
the debugger (`Kept`). `kept` remembers that, until the cache is emptied. A loaded
program or an edited word of memory, which are not announced either, are a `Patch` to
the cache. A run of a block leaves in `ran` how it compares with the interpreter
on the memory of that moment: a flag is known by the instruction that wrote it
last.

### Alu, Datapath and MultiWord

`Alu` has one operator for what `Core/Alu.cpp` writes once per operand size; the
size is a modulus, the condition codes are the set of flags that are 1.

`Datapath` runs two machines side by side. `Interpret` is the handler of
`Core/InstructionDecoder.cpp` for the fields of an opcode, `Compile` what
`TryCompile` makes of them once, `Execute` what `CompiledBlock::Execute` does with
that. A flag the JIT leaves out as dead is `stale` until an instruction writes it;
which flags may be left out is the business of `Jit`. A load may hit or miss the
data page, a miss hands the instruction to the interpreter. Stores are
not in it: their ops always bail out. The one parameter of the sizes is `Width`, the
bits of a byte; a word has two bytes, a long word two words, as in the code. The
host's operators &, | and ^ are the recursive function `Logic`, from the lowest bit up.

`MultiWord` is one guest routine: pointers, a counter in `DBcc`, and the
instruction of the loop, which is the handler for its `-(An)` or `(An)+` form (MULU.L
and DIVU.L on registers, with the moves around them). `start` remembers the
numbers, so that an invariant can compare what the loop leaves with one operation on a
register as wide as the whole number. Single MULS.L and DIVS.L of two words
are routines without a loop; `"dead"` is the host's exception on a quotient it
cannot represent.

`MCAlu` checks both in one run: a behaviour is of one part, and the other part's
variables are parked.

### SlirpTcp

One key (guest port, host address and port), opened again and again:
`sess[s]` is the `TcpSession` of the s-th SYN, `map` the entry of
`m_tcpSessions`. `conn[s]` and `loop[s]` are the program counters of the two
detached threads, cut where they touch shared state; `cpu` is the CPU thread in
the middle of answering a FIN. `GuestConnect`, `GuestSend`, ... are `HandleTcp` on
a segment of the guest's TCP, which is external: it retransmits SYNs and data,
takes segments in order, gives up by RST, and advertises what room it has.
Hosts send, close and reset at any time. Sequence numbers count segments; sessions
start `Gap` apart. `hist` and the guest's counters are ghosts.
`ConnectAnswers` is one step from setting the state to starting the loop; the
guest's answer needs the SYN+ACK that it enqueues. `WaitTimesOut` may happen
whenever the wait is on, since 30 s are no time a model knows.

### Lance, Tap and MCLance

`csr0` is the set of the bits that are 1; `rx` and `tx` are the rings in guest
memory, a descriptor being its OWN bit and its frame. `WriteCsr0` is `WriteCsr`
with `DoInit`, `Tick` is `ProcessTxRing` (when a demand is pending) followed by
`ProcessRxRing`, each to its end. `Handled` is what
`VirtualNetworkHandler` does with each kind of frame, connection state included.
The driver follows the data sheet: it fills a descriptor and then demands, reads
the causes of an interrupt, clears those, serves them. `Tap` is `ReadLoop`, one
step per call to the host, with the reads it leaves outstanding. `MCLance` puts
both on one queue: `handler` says which network is behind the chip.

### Serial

`ch` holds per channel the receive FIFO, the enables of WR1 and the transmit
state; `pending` is the staging queue of channel A that the UI thread fills
(`QueueInput`). `Tick` does what `Z8530Channel::Tick` does on both channels:
completes a character, prods, forces TIE while the CPU is stopped, promotes
staged keys. The composite line is recomputed exactly where the code calls
`UpdateInterrupt`. The driver first polls, then attaches and takes interrupts,
with a copy of TIE of its own that the device's forcing does not change.

### Fifo

`chan` is under way, `out` came out, `up` says whether the chip runs. `Put` adds
at the end, `Get` moves from the front of `chan` to the end of `out`; only when
the chip goes off, or is off, may items be lost. `MCLance` maps its receive ring
with the handler's queue behind it (`RxUnderWay`) and its transmit ring
(`TxUnderWay`) to it, `Serial` the receive FIFO with the staging queue.

## 3. The runs

| Run | Question | Result |
|---|---|---|
| `Pcc` | Is the CPU's request always the one the ICRs call for, are level-sensitive lines never dismissed, does the driver keep its window, does a stopped CPU wake? | holds |
| `PccTimer` | Are ticks conserved, does the clock never run back, does the timer overflow? | holds |
| `Wd33c93` | The controller under a driver and under any guest | holds |
| `RunControl` | Do the flags tell the truth about the thread, does no goal outlive its run, is nothing rebuilt under a thread, does Stop return? | holds |
| `CpuFault` | Are faults taken at their instruction, and the stacks balanced? | holds |
| `Restart` | Is a restarted instruction as good as one that never faulted, and does the frame name what stopped it? | holds, with the exceptions the property names |
| `Mmu` | Do the ATC and the page caches agree with the tables unless the guest owes a flush? Is every write marked and authorised? | holds |
| `Jit` | Does a block do what the interpreter would, flags included? | holds, with the exceptions the properties name |
| `Alu` | Do interpreter and JIT compute the same? Are numbers of several words computed exactly, flags included? | holds, with the exceptions the property names |
| `SlirpTcp` | Are segments lost, sent without room, acknowledged and not forwarded; are sockets orphaned; do threads end? | holds, with the exceptions the properties name |
| `Lance` | Are both rings channels, is finished work announced, do frames arrive, when does the TAP reader lose one? | holds |
| `Serial` | Is the console input a channel, does it not stop, does output drain? | holds |

An exception in a property (`hist.early`, `ran.aliased`, `Unsaved`, ...) is a
finding: the property says that the defect is the only way, and section 4 what
it is. Deadlock is checked but for five runs: a `Restart` ends with its
instruction and `Alu` with its routine; the guests of `SlirpTcp`, `Lance` and `Jit`
have a bounded number of things to do.

### Bounds, and why they are enough

* `Pcc`: one source of each kind, levels {0, 7}, masks {0, 1}, two vector bases,
  a window of 2 turns. Two levels give equal levels and a winner; 7 is the level
  that no mask stops and 0 the one that never interrupts. Two
  sources of one kind differ from two of different kinds only in their index,
  which the proofs cover: they hold for any set of sources.
* `PccTimer`: a counter modulo 4, 2 clock units per tick, at most 7 units
  credited. One Tick can then overflow the counter more than once, leave a
  fraction, and fill the overflow counter (3). `MaxGap` bounds the time between
  two Ticks; that it does not exceed `MaxCredit` is the condition
  without which finding 2 breaks `ClockMonotonic`. `given` stops counting when the overflow counter
  saturates.
* `Wd33c93`: data phases of up to 3 bytes and transfer counts up to 4, so that a
  transfer is cut into two and three segments, ends short of the count, and is
  asked for more than there is. Two disks and one CD-ROM give a wrong target to
  write to and a target that goes away.
* `RunControl`: two clean-ups in the queue. A third needs a third run that
  stopped by itself between two UI messages; it differs from the second in
  nothing a handler looks at. The proofs hold for any bound.
* `CpuFault`: two words of code (an instruction and another), exceptions nested
  two deep (interrupt within bus error and the reverse) and, beyond, a frame
  that may be built but not kept.
* `Mmu`: two address spaces, user (a table with a protected and a writable page)
  and kernel (one large page), two pages, four frames, and the null root of a
  reset. All four function codes compete for the one ATC line of a page, so
  entries are evicted and refilled. One edit of the tables, out of one that
  protects a whole table, one that moves a page, and one that turns a large page
  into a table: a second only makes more entries stale. The TT registers cover a
  page in both directions and `LoadCovered` is FALSE: with a one-way TT register,
  or a PLOAD of a covered page, finding 10 breaks `CachesCoherent`.
* `Restart`: each instruction from every assignment of "absent" and "read-only"
  to four pages of data and two of code, two values per address register, one of
  which puts a long operand across two pages, and one page taken away meanwhile.
  An operand touches at most two pages and an instruction at most six, so more
  pages add nothing; one eviction makes an access fault that has succeeded before.
* `Jit`: two pages of two words, entered at the first word of each: any two
  instructions before one that sets all flags, a Bcc, or the end of what the JIT
  knows. A flag is decided by two instructions and an end; a block crosses a page or
  does not. The pages of a mode are in order, exchanged, or both on one frame, so a
  frame has the same address in both modes, another, or two. A threshold of one
  sample, two bail-outs to the blacklist, a cache of two entries so that blocks
  collide, one change of code, translation or reset, one of the settings, and any
  number of changes of mode. Without any one of its six exceptions `StaleExplained`
  is violated within these bounds.
* `Alu`: bytes of two bits, words of four, long words of eight; every pair of compiled
  instructions on two registers of each kind, from values with and without their
  sign bits at each size. One step shows an op that computes
  something else, two that flags and registers are handed on. Numbers of three words
  of two bits, all of them for the binary instructions, so that there is a first, an
  inner and a last word, and a carry that runs through; packed words of two digits of
  base 3 in fields of two bits, one pattern being no digit, as six of sixteen are
  in the code.
* `SlirpTcp`: two sessions of one key and two segments of host data for a
  window of one: a session can be closed, erased or superseded at each step of its
  threads, and the second segment must wait for room.
* `Lance`: rings of two, three frames each way, one of them too big for a buffer:
  the rings wrap around, fill up, and are torn down and set up again. Two reads of
  the adapter may be outstanding.
* `Serial`: two keys and two characters per channel, a prod after 2 ticks instead
  of 16. The proof of the refinement needs no bounds.

### Fairness

* `Pcc`: weak fairness of a CPU turn and of the guest's step. The emulation
  thread calls the turn in a loop until somebody stops it. No fairness is
  assumed of devices or resets.
* `PccTimer`: time passes and the loop Ticks. The guest owes nothing;
  `OverflowComes` is about guests that from some moment on only watch.
* `RunControl`: both threads are scheduled, and the dispatcher takes queued
  clean-ups. Goals of the guest program and commands of the user are not fair:
  nothing makes a program reach a breakpoint. `StopReturns` rests on the
  emulation thread looking at the stop request between batches.
* `SlirpTcp`: the detached threads run (weak fairness of each thread's next step;
  their waits have time-outs), and the CPU thread finishes an answer it began.
  Neither guest nor host owes anything.
* `Lance`: the loop Ticks, and the driver goes on with a demand or an interrupt it
  is in. Sending and stopping are not promised.
* `Serial`: ticks, interrupts taken when requested, and a guest that runs its
  handler and its polling loop. `Start`, `IsrTx` and `IsrDone` are strongly fair:
  interrupts come between, again and again, but a handler serves both channels and
  ends, and the prod, the only source of interrupts with nothing to do, comes after
  16 ticks of 256 instructions each, in which a program gets on.
* `Wd33c93`, `CpuFault`, `Restart`, `Mmu`, `Jit` and `Alu` state safety only and have
  no fairness.

## 4. Findings

Disagreements between the code and a comment, test or document of the
repository; `PROJECT.json` quotes both sides. Those with *(how: ...)* can be seen by changing one line of a
configuration or adding the named definition to it; those with *(exception)* are
what a property excepts, and show by removing the exception. The others were met
while modelling.

1. `PccDevice.cpp:60` - a board reset forgets device lines that are still
   driven; a later acknowledgement does not latch them again.
2. `PccDevice.cpp:119` - after a pause of more than 100 ms a read shows time that
   the next Tick throws away: the guest's clock goes backwards. *(how: `PccTimer`
   with MaxCredit = 4, MaxGap = 8)*
3. `Wd33c93Device.cpp:388` - a CD-ROM unmounted in the middle of a Level II read
   leaves `m_satInProgress` set; the next Level I transfer ends without a status
   phase. *(how: `Wd33c93` with Guests and Swaps {"driver"}, MaxLen = 2)*
4. `MainViewModel.cpp:1461` - a `FinalizeStop` queued by one run joins the thread
   of a later run: the UI thread hangs until that program stops by itself. *(how:
   `StopAvailable` of `RunControl`)*
5. `MainWindow.xaml.cpp:860` - menu and key handlers bypass the commands'
   `CanExecute`: Step and Reset use the CPU under the emulation thread.
6. `MC68030.cpp:729` - `ExecuteNextJit` interprets a block's first instruction
   after a bail-out and does not look at `BusErrorPending` afterwards. *(how:
   `FaultTakenByAny` of `CpuFault` with Jits = {TRUE})*
7. `MC68030.cpp:612` - an interrupt whose vector read faults after a
   register-only instruction keeps the half-built stack; the user program's
   stack pointer becomes the supervisor's. *(how: `CpuFault` with SplitVectors = TRUE)*
8. `InstructionDecoder.cpp:1172` - STOP whose operand fetch faults still stops.
9. `InstructionDecoder.cpp:966` - MOVES empties the data cache before it reads
   user space, not after: the supervisor's next read of that page number is
   answered from user space. *(how: `CacheForCurrentFc` of `Mmu`)*
10. `Mmu.h:73` - reads ask the ATC before the TT registers, everything else after:
    a page transparent to reads only is read through the tables once it has been
    written.
11. `InstructionDecoder.cpp:2564` - a PMOVE whose operand read faults leaves 0 in
    the register; TC becomes 0 and the MMU is off when the handler runs.
12. `MC68030.cpp:919` - every bus error overwrites MMUSR, which only PTEST should.

13. `MainViewModel.cpp:1838` - switching the JIT off while the loop runs frees
    blocks under the emulation thread, and keeps later flushes from emptying the
    cache it goes on using. *(how: `SafeToToggle` of `Jit`)*
14. `SlirpNetworkHandler.cpp:85` - the destructor waits 500 ms for threads that may
    take 10 s. *(how: `DestructorOutlivesThreads` of `SlirpTcp`)*
15. `SlirpNetworkHandler.cpp:597` - a failed connect erases the session of a newer
    SYN. *(exception)*
16. `SlirpNetworkHandler.cpp:609` - a session closed while it connects gets a socket
    that nobody closes. *(exception)*
17. `SlirpNetworkHandler.cpp:745` - after 30 s without room a segment is sent into a
    full window, and is lost. *(exception)*
18. `SlirpNetworkHandler.cpp:658` - data in the segment of a FIN are dropped;
    retransmitted data reach the host twice. *(exception; the latter by
    `GuestSend`)*
19. `SlirpNetworkHandler.cpp:732` - a reset by the host is not told to the guest; nor
    are data taken after the host's FIN.
20. `TapNetworkHandler.cpp:123` - a read given up is not cancelled. *(exception)*
21. `VirtualNetworkHandler.cpp:243` - the padding of an ACK is echoed as data.
22. `LanceDevice.cpp:265` - a transmit frame of several buffers vanishes.
23. `FpuInstructionDecoder.cpp:84` - an FPU instruction whose operand faults has
    changed its register when it is restarted. *(exception; how: `FpRestarts` of
    `Restart` with Instr <- MCFpuInstr)*
24. `MC68030.cpp:300` - a read-modify-write across two pages may be done by half and
    then again. *(exception)*
25. `InstructionDecoder.cpp:1482` - a MOVEC that cannot be fetched writes SFC.
    *(exception)*
26. `JitCompiler.cpp:1204` - flags before a BRA, and X before a MOVE or CMP, are thrown
    away. *(exception)*
27. `JitCompiler.cpp:1133` - blocks run over the end of their page, and hold the PCs of
    one of several mappings. *(exception)*
28. `InstructionDecoder.cpp:1484` - clearing the instruction cache leaves the blocks.
    *(exception)*
29. `MC68030.cpp:754` - an address sampled to its threshold before a flush is never
    compiled again.
30. `InstructionDecoder.cpp:2786` - V of a MULS.L to one register misses the products
    that would fit without a sign. *(exception)*
31. `Alu.cpp:537` - a DIVS.L of the least 64-bit number by -1 divides on the host,
    whose processor traps: the emulator ends. *(exception)*
32. `JitCompiler.cpp:99` - the JIT's logical operations and the fast handlers clear
    bits 5 to 7 of the condition codes, the other handlers keep them.
33. `InstructionDecoder.cpp:1100` - the test for TAS takes ILLEGAL ($4AFC) too, whose
    own test is never reached.
34. `Disassembler.cpp:341` - the outer displacement of a pre-indexed operand is not
    counted: StepOver sets its stop inside the JSR and the guest runs on.
35. `InstructionDecoder.cpp:879` - CMP2/CHK2.B and .L compare words.
36. `Disassembler.cpp:1455` - FMOVEM.X is shown with its directions swapped.
37. `MC68030.h:265` - exceptions, interrupts and resets keep the blocks of the mode they
    leave; found again from another address, a block has the wrong PCs. *(exception)*

Findings 33 to 36 come from reading the two decoders side by side; no module models
the disassembler.

`CpuFault`'s run states `FaultTaken` for the interpreter and fixes `SplitVectors`
to FALSE (findings 6, 7). `RunControl` models Step and Reset without the guard that
finding 5 misses, and `Pcc` the reset of finding 1; what their runs state holds
all the same.

## 5. What is proved

TLAPS checks these for every value of the constants that the modules' named
assumptions admit.

**`PccProofs`** (from `SourceAssumption`, `VecAssumption`, `LevelAssumption`,
`BaseAssumption`: the three kinds of source are disjoint, vectors are numbers,
levels and masks fit three bits, the default base is a base, the window is a
number). The inductive invariant is

    IInv == TypeOK /\ RequestCurrent /\ ActiveIsLatched /\ ActiveIsDriven /\ Window

`RequestCurrent` rests on a lemma of its own, `UpdateIPL` returning the winner
of any ICRs. `ActiveIsLatched` needs `TypeOK` only; each handler's effect on one
ICR is a lemma. `DriverWindow` is an action property about `ran`, which the code
has no trace of; it becomes provable with `Window == suppress + ran >=
SuppressFor`: what was counted down was spent in turns with an eligible request.
When an interrupt is taken the counter is 0, so `ran` is the whole window.
`LevelSensitive` is `LineKept`, the conjunction of `ActiveIsLatched` and
`ActiveIsDriven`. Theorems: `TypeCorrect`, `RequestFollowsIcrs`, `LevelSensitive`,
`WindowKept`.

*The timers* (`PccTimer`, from `WrapAssumption`, `TimeAssumption`, `PreloadAssumption`).
The heart is `TicksAdvance`, the arithmetic of `AdvanceTimer`: `t` ticks move the
reading (overflow counter times period, plus count, less preload) by exactly `t`,
over any number of overflows. `NoTickLost` follows action by action. `ClockMonotonic`
needs the invariant `ReadBehind`: the last reading is never ahead of what the guest
would read now. Time makes the guess grow (`GuessGrows`), and a Tick credits at least
what was guessed (`TickCatchesUp`), provided that it credits all the time since the
Tick before. That is the premise `MaxGap <= MaxCredit` of the theorem. Without it the
clock runs back (section 4). Theorems: `TimerTypeCorrect`, `TicksKept`, `ClockKept`.

**`DeviceProofs`**: the SCSI controller and the serial controller.

*The SCSI controller* (`Wd33c93`, from `TargetAssumption`, `BoundAssumption`: no target is
`None`, a data phase has a maximal length, which may be any). The invariant has two
layers.

    IInv == SafeOK /\ (guest = "driver" => DriverOK)

`SafeOK` holds of any guest. Its core is `Awaited`: a command without an answer has a
transfer armed *and finds the bus in a phase*. `NoSilentCommand` alone is not
inductive: a transfer that ends on an idle bus answers nothing
(`CompletePhaseTransfer`, last case), so the proof must know that no command waits
there. `DriverOK` holds of a guest with the driver's discipline. `Carried` relates
bus and job byte by byte: in a data phase the buffer's offset is what the target has
moved, but for the byte that `XFER_INFO` with SBT has put in register $19 and
nobody has read; `Whole` and `Untorn` say what that comes to at the end. The
operators the commands share (`DataDone`, `Dma`, `CompletePhaseTransfer`) each have
their lemmas, which the actions' steps cite. Theorems: `TypeCorrect`,
`TargetAndPhaseAgree`, `EveryCommandAnswered`, `StatusComesLast`, `WritesWhole`,
`FollowUpNeverStale`, and, if nobody swaps media under the driver,
`LevelOneEnds` (with swaps it is false: finding 3).

*The serial controller* (`Serial`, from no assumption: neither the bounds nor the prod's period
matter). `ConsoleImplementsFifo` is a refinement: `Serial`'s staging queue and
receive FIFO, put together, are the channel of `Fifo`. The invariant `SerialOK`
says that the queues and what the guest got are sequences of keys
(`ConsoleTypeCorrect`). Each action of `Serial` is then one of three things to the
pair (channel, keys got): `PutStep` (the UI thread), `GetStep` (a key is read, from
whichever queue the code takes it) or `IdleStep` (everything else, the promotion
of `SerialTick` among it). Lemmas about sequences turn each into a step of `Fifo` or a
stutter; `StepOfChannel` has a step per action.

**`CpuProofs`**: the CPU's loop, the thread that runs it, and the long numbers of its guest.

*The loop* (`CpuFault`, from `FaultAssumptions`). `StacksKept` is `StackBalanced` for
any depth of exceptions, interpreter and JIT, under `~SplitVectors` (finding 7 is
what happens without). Inside a turn A7 is not balanced, and the invariant says where
it will be: `AtCheck`, once an access has faulted, that the *rolled back* A7 and the
saved SR are balanced; a fault in a push or a vector read cannot be rolled back, but
there the bus error faults as well and halts the CPU. `AtTurn` says of a fault that the
JIT leaves over that it is an access's and its snapshot was taken, without which
an interrupt before it is noticed would restore the wrong A7. `InterpreterLooks` is
`FaultTaken`, wherever the vectors are: only the JIT runs the decoder as a fallback
and only it begins a turn without looking at the flag.

*The thread* (`RunControl`, from `QueueAssumption`). The invariant is the conjunction
of the four checked ones. None is inductive alone: the handlers decide by `m_isRunning`
where they mean the thread, so `RebuildAlone` and `NoStaleGoal` need
`RunningIsTruthful`, which in turn needs to know that no rebuild runs beside a
thread. Theorems: `RunTypeCorrect`, `RunningTruth`, `GoalsCleared`, `RebuildSafe`.

*The long numbers* (`MultiWord`, from `WordAssumption`: the modulus of a word is even, as
a power of two is, and a number has more than one word; and `DigitAssumption`: a digit's
base is no more than its bit patterns, and decimal numbers begin with digits).
`LongNumbersExact` is `NumbersExact` for words of any width, numbers of any length and
any condition codes at the start; TLC has words of two bits and numbers of two. The
property compares a finished loop with one operation on the whole; the invariant,
`LongInvariant`, says the same of every prefix the loop has reached, one part per
kind of routine:

* `ChainInv` (ADDX, SUBX, NEGX, ABCD, SBCD, NBCD, ROXL; from the last word up): the words
  written are the sum or difference of those read, modulo the power of the radix they
  fill, and X is what that leaves (`Chained`); C is X, Z says whether they are all zero
  and Z was set at the start, N and V are those of the word just written, which for
  the first word are those of the whole. A decimal word is a digit of radix
  `Base * Base`, a rotation through X adds a number to itself, so that one lemma,
  `ChainGrows`, takes all seven a word further.
* `RoxrInv`, `DivideInv` (from the first word down): the words written are half of those
  read, or their quotient, and X or the carried register is the remainder. A
  remainder below the divisor is why the next DIVU.L cannot overflow.
* `CompareInv`: the words read are alike while the loop goes on, and when DBNE ends it,
  C and Z tell the order of those read, which is that of the whole (`Decides`).
* `MultiplyInv`: words written and the word carried are together the product so far; the
  product of two words leaves room for one word more, so that what is carried stays
  a word and ADDX.L cannot overflow.
* `SingleInv`: MULS.L and DIVS.L, one instruction each. `Truncates` and `OnlyQuotient` say
  that the host's division has the one quotient whose remainder has the dividend's sign;
  `SignedFits` which products MULS.L to one word finds too long, the case of finding
  30 included.

`Climbs` and `Recursion` replace the induction that the prover lacks: a least place at
which a statement fails, and the function that a recursion from 0 to N defines. From
them come `PowersUnfold`, `LeadingUnfolds`, `TrailingUnfolds` (the number of the first
and of the last words), `Splits` (a number is that of its first words, shifted, and of
its last ones) and `Bounded`. The handlers are reduced to integers once, in
`ExtendedExact`, `AddBcdExact`, `SubBcdExact`, `RotatesLeft`, `RotatesRight`,
`CmpmTells`, `LongProduct` and `SignedProduct`. Theorems: `LongComputes` (the invariant),
`LongNumbersExact`.

**`RestartProofs`** (from `InstrAssumption`, `ValueAssumption`: an instruction is of one
of the coded forms, with operands it can be coded with; registers begin as numbers).
For any instructions, any first values, any pages missing or read-only and any number
of pages taken away meanwhile. `RestartExact` compares the end of the last attempt with
a run in which every page is mapped, and nothing in the state of the machine says by
itself where an attempt is going. So the proof runs each handler twice side by side: on
the machine, and on the first state with everything mapped. `Sim` says how far the two
agree.

* `Same`: no fault yet, and no cell read that an earlier attempt left changed. Then the
  runs agree in registers, condition codes, memory and what is kept (`Alike`).
* Whether or not: the first has written no cell that the second does not; it has changed
  of what `HandleBusError` does not take back only what this instruction may; a fault it
  has noted is of an access the page does not allow.

Each access keeps `Sim` (`LoadSim`, `StoreSim`, `FetchSim`), then each operand
(`ResolveSim`, `ReadValueSim`), then each of the 27 handlers, then the dispatch
(`HandlerSim`) and the instruction with its first word (`ExecutedSim`). After a fault a
handler goes on with zeros, so that where it branches on what it read (CAS, CAS2,
FRESTORE, the FPU) the two runs may part; `Forked` and `Either` show that this changes
nothing `Sim` says. The invariant of the loop is

    IInv == /\ phase \in {"exec", "check", "fault", "done"}
            /\ StartOK /\ Shape(m) /\ KeptOK /\ BeforeOK /\ FaultOK /\ DoneOK
            /\ phase = "done" => Ok(m) /\ ideal = Whither
            /\ TrapTellsCause

`BeforeOK`: an attempt begins as the first did, but for what earlier ones left in memory
(`LeftOK`): nothing, or, for an instruction that does not read what it writes
(`Repeatable`), only cells that it writes anyway. This is why such an instruction may be
repeated after half of a store, and what fails in finding 24. `DoneOK` is what `Sim` says
of an attempt without a fault. (TLC agrees on `IInv` over the run's 5.5 million states,
with a module that extends `MCRestart` and `RestartProofs`.)
Theorems: `RestartInvariant`, `RestartIsExact`, `TrapIsTrue`.

**`JitProofs`**: the block cache, and the instructions of a block.

*The block cache* (`Jit`, from `BoundsAssumption`: sizes and thresholds are positive,
images and maps are functions on the pages there are). A block is right when it is made
(`CompiledRight`). `BlocksOK` and `HeldOK` say what keeps it right in the cache and in
the hands of the emulation thread (`Right`): its words are those in memory but for the
patched ones, and its address still leads to the words it was made from. The second is
given up when an exception, a reset or the debugger brings another translation
(`TakeOverPreserves`), both when a flush is missed or the block freed. What is never
given up is that a block lies at the same place of its page as of its frame
(`Compiled`). The rest of `StaleIsExplained` is arithmetic on pages
(`RightRunsCurrent`): if no other page leads to the block's frame, the program counter
is the block's own address, whatever the translation, and a block that stays in its page
is translated word by word as its first word is.
`FlagsAreExplained` is about blocks of any length, so it needs the recursion of the
liveness pass. The theorem of induction is out of reach (below), but that the
numbers are well-founded is not: `Least` has a least number of any nonempty set, and
`LiveUnfolds` finds the equation of `Live` at the least number where it fails.
`DeadIsOverwritten` follows in the same way, and `WrongFlag` says what is left for a
flag that is dead and yet seen. `Live` is written with disjunctions, as a recursive
function whose recursive use is inside a CASE is misread by this version of the
prover. Theorems: `StaleIsExplained`, `FlagsAreExplained`.

*The instructions* (`Datapath`, from `WidthAssumption`: a word has two bytes, a long word
two words; and from `GuestAssumption`: quick data is at most 7 and an index is scaled by
2^3 at most, and registers and memory hold long words). For every width of a byte, eight
bits among them, every number of registers and every contents of the memory. The
invariant adds to `JitAgrees` only the types of the two machines; what is hard is one
instruction. `Alike` names what both leave, whatever the flags before: registers, the
flags written, and where to go on. Each group of instructions has a lemma with its
witnesses (`ArithAlike`, `LogicAlike`, ...), and `EachAlike` collects them.
`BranchAlike` is apart: it is what needs the flags other than X to be fresh. The two
programs differ, and each difference rests on a lemma of arithmetic:

* The interpreter applies AND, OR and EOR to whole registers and cuts the result, the JIT
  cuts its operands first (`LogicCuts`, by the powers of two, bit by bit; EOR has its
  operands the other way round, `EorCommutes`).
* The JIT scales an unsigned index and cuts it, the interpreter scales a signed one
  (`IndexAlike`, from `WideParts`: a remainder may be taken of the parts of a sum or
  product).
* The JIT writes each register as a whole, the interpreter through `WriteRegValue`, which
  keeps the high part (`PutIs`).
* The JIT counts the displacement of a branch from two bytes before the end of the
  instruction, the interpreter from behind the opcode (`TargetIs`).

The recursive functions `Power`, `Logic` and the steps of a shift are reached by
`Recursion`: a function that solves the equation is built number by number, so that
the one chosen solves it too. Theorems: `DataInvariant`, `ExecutesAlike`.

**`MmuProofs`** (from `SizeAssumption`, `ConfigAssumption`, which say of which
sets configurations and tables are). The invariant is

    IInv == TypeOK /\ atc \in Atc /\ Fits(atc, desc) /\ Marked(desc, dirty)

`Fits` says of each line of the ATC what `AtcCoherent` does, and of a line with the M bit
that the descriptor it came from has it too: without the second part a write
through the ATC could go unmarked, and `DirtyMarked` is not inductive. What
`Translate` and `TableWalk` return is described once, as a *kind* of outcome: the
ATC fits the tables, the tables grew by marks only, and the frame is that of the
tables; kinds chain over the accesses of one instruction. `CachesCoherent` needs
one more fact, that no line of the ATC covers a page of a TT register
(`Uncovered`), and this is not so in the code: finding 10. `CachesTellTranslation`
has the hypothesis `NoShadow`, which excludes the two ways to such a line, no PLOAD
of a covered page and no TT register for reads only; `Mmu.cfg` satisfies it.
Theorems: `TypeCorrect`, `AtcTellsTables`, `WritesAreMarked`, `CachesTellTranslation`.

**`SlirpTcpProofs`** (from `BoundAssumption`). For any number of sessions of one key,
any window and any amount of data. None of the four properties is inductive, or
nearly: each speaks of the guest or of the session, and what happens in between is
in the program counters of the detached threads and in the queue. The invariant is
built in layers, each proved from those before it:

* `Base` ties a session's fields to where its two threads stand (no socket before
  `publish`, `FinWait` only after the loop), the map to sessions that are not
  cancelled, and the guest to sessions that exist.
* `OrphanOK` says what `OrphansExplained` does, one step earlier: from the moment a
  connect thread is on its way to a socket.
* `EofOK` counts. While a session belongs to the guest's connection, its `ourSeq` is
  determined by what its receive thread has read, every segment in the queue lies
  below, and the FIN's number is that behind all the host sent. The sessions of
  older SYNs may do as they like.
* `WriterOK`: a guest that writes gets no data, so that an orphaned FIN cannot be taken
  twice.
* `AckOK` bounds what any packet in the queue acknowledges by what the host's socket
  had. A session that may exceed the bound is `Silent`; the one packet that may, the
  FIN answering the guest's FIN behind one of the host's own, is never in order.
* `WindowOK`: the window a session compares with is the one it was granted; the right
  edge of the guest never moves back, so that a segment that fit when the mutex was
  released still fits when it is sent.

The effect of each handler on the sessions is a lemma (`HandleDataIs`, `ReceiveIs`,
`ConnectIs`, ...), and each layer has one step per operation that cites them.
Theorems: `TypeCorrect`, `EndOfFileIsLast`, `OrphansAreExplained`,
`AcknowledgedIsForwarded`, `WindowIsRespected` (an action property).

**`LanceProofs`** (from `RingAssumption`, `KindAssumption`, `FramesAssumption`). For rings
of any length, any kinds of frames and any frames from the adapter. The driver and
the chip each walk the rings with an index of their own, modulo the ring's length,
and only the OWN bits tell them how far the other is. The invariant is

    IInv == Types /\ RxInv /\ TxInv /\ Signals /\ Reading

`RxInv`: there is a number c so that, from the driver's index on, the first c receive
descriptors are filled and no other, the chip owns the rest while the driver works,
and `m_rxRingIndex` is behind them. `TxInv`: there is a number r so that, of the
`used` descriptors from the driver's `clean` on, the chip has yet to send exactly the
last r, `m_txRingIndex` is at their start and the driver's next free one behind them.
These name the elements of both channels (`UnderWayIs`, `SendingIs`), and each action
becomes a statement about a sequence: `Tick` moves frames from the queue behind the
filled descriptors and leaves the channel as it was, or longer by what the built-in
network answered (`Fills`, `ProcessedGrows`); the driver takes the first
(`GivesBack`), puts one behind (`HandsOver`), or frees what is out already
(`Cleans`). `Signals` says of every cause that it is in CSR0 or among those the driver
is serving while there is work of its kind; this, and not the property alone, is
inductive, since between `DriverInterrupt` and `DriverServed` the line may be down.
`Reading` says for each place of `ReadLoop` how many reads are outstanding and whether
a frame is in the buffer. The arithmetic modulo the ring's length is confined to
`AtAt`, `AtUnique`, `PlaceFrom` and their like. Theorems: `RingsAreCorrect`,
`FramesKeepOrder` (the refinement of `Fifo`, twice), `WorkSignalled`,
`TapKeepsFrames`.

The type invariants of `Pcc`, `PccTimer`, `RunControl`, `Wd33c93` and `Mmu` are proved
and no run checks them again; those of the other modules can be added to their
configurations.

Only model-checked: the liveness properties (`WakesFromStop`, `OverflowComes`,
`StopReturns`, `RxDelivered`, `CancelledEnds`, `KeysDelivered`, `OutputDrains`),
which need fairness and `ENABLED`, out of the prover's reach. Every other property of a
run is proved. `DestructorOutlivesThreads` of `SlirpTcp`, a claim of a comment, does not
hold (section 4); no run lists it.
RECURSIVE operators and the library's theorems of induction are out of reach too: no
module has a RECURSIVE operator, and of the recursive functions `Live` of `Jit` is
proved about by least counterexample, `Processed` of `Lance`, those of `Datapath` and
`Powers` and `Leading` of `MultiWord` by building the function they define.

## 6. What is left

The modules were written in the order of their importance to a guest that runs an
operating system: interrupts, exceptions, disk, memory management, the JIT,
network, console, arithmetic. What would come next:

* `ScsiTargets`: sense data and unit attention of `IO/ScsiDisk` and `IO/ScsiCdrom`.
* UDP and ICMP of the user-mode network: one detached thread per packet, which
  shares nothing but the queue.

## 7. What is not modelled, and why

* The rest of what instructions compute: bit fields, PACK, UNPK, CHK2, CAS, and the FPU's
  arithmetic, are sequential, per opcode, and covered by unit tests. `Restart` models
  what every handler does in which order, `Datapath` the values of those the JIT
  compiles too, `MultiWord` of those that make chains.
* The syscall interception in `RaiseException` (`MC68030.cpp:873-895`: TIOCDRAIN returns
  at once, TIOCSETAW/F are rewritten), and the zero-divide or CHK exception taken on the 0
  of an operand that faulted, which `RaiseException` takes back while `BusErrorPending`
  (`MC68030.cpp:790-796`).
* Byte contents: SCSI data, packets, disk images, the clock's BCD. `Wd33c93`
  counts bytes, `SlirpTcp` segments; what they say matters to no property here.
* `Core/Memory`: decoding over a region list that is fixed while the machine runs.
* `IO/Uart16550Device`: its interrupt output is connected to nothing, the guest
  polls it, and the rest is a bounded queue under one mutex.
* `Core/ConditionEvaluator`, the terminal's escape sequences, the disassembler, the
  loader: sequential functions of a text or a file, without state that outlives a
  call or shared with another thread.
* Input, framebuffer, clock and console devices, the generic board's disk: register
  files and host I/O without a protocol.
* The PCC's DMA address and count registers, printer data, CSR1-3 of the LANCE,
  the Z8530's baud-rate registers: plain storage.
* The shadow call stack (but for its pushes and pops in `Restart`), trace and
  address-error details of the CPU loop, the fields of bus-error frames.
* Breakpoints and watchpoints in `RunControl` are one reason, among several, for
  a thread to stop itself.
* Real-time rates: how many instructions pass between two Ticks, and the
  throttle. Every interleaving is allowed instead.
* Settings file, windows, installer, scripts, and vendored code: formatting and I/O.

Measured in lines the models stand for a small part of the repository: a third of
its C++ is one vendored header (`nlohmann/json.hpp`), another third tests, and the
largest of the rest are windows, settings pages, the disassembler and a decoder of
many handlers of few shapes, one of which is mapped for all of its kind.
