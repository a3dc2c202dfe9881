# A TLA+ development of the SlayerOS kernel

SlayerOS is a small x86_64 kernel in C++ (`src/src/kernel`, headers in
`src/src/include`). It runs on one CPU, boots through Limine, and ends in a
cooperative scheduler. This directory models its core in TLA+, checks the
models with TLC on small instances, and proves with TLAPS, for all values of the
constants, every safety property that the passing runs check.

## The parts of the system

| Part | Source | State | Operations that change it | Hard behaviour | Modules |
|---|---|---|---|---|---|
| Frame allocator | `mem/frames/frames.cc` | `frames` flags, `latest_frame` | `alloc`, `allocs`, `free`, `init` | a search index that moves both ways; 32-bit offsets; flags never cleared | `Frames` |
| Heap | `mem/heap/heap.cc` | list of pages, list of segments per page, `free_size` | `kmalloc`, `kfree` | split/merge arithmetic, recursion, running out of frames | `Heap` |
| Scheduler | `task/scheduler.cc` | circular list, `current`, pids, states | `spawn_process`, `kill_*`, `yield`, `sleep`, `start_scheduler`, ... | freeing nodes under a walk; nested entry calls | `Scheduler`, `TaskRing` |
| Memory map, mapper | `bootloader/limine.cc`, `mem/map` | order of entries; what is mapped | `sort_memmap`, `full_map` | which entries become memory and flags, and whether they stay reachable | `Memmap`, `BootMemory` |
| Paging | `mem/paging` | four-level tables | `map`, `unmap` | out of frames in the middle of a walk; the TLB | `Paging`, `AddressSpace` |
| TSS stacks | `cpu/tss/tss.cc` | seven IST stacks | `init_stacks` | stacks from `allocs(4)` | `KernelMemory` |
| IDT, IRQ, I/O APIC, uACPI handlers | `cpu/interrupts`, `ioapic.cc`, `acpi_kapi.cc` | gates, handler tables, redirection entries | `IDT::init`, `IRQ::init`, `IOAPIC::set`, install, uninstall, `irq_handler` | an interrupt between any two stores | `Interrupts` |
| Interrupt entry, exceptions, report | `isr.s`, `macros.s`, `handler.cc`, `err/dump.cc`, `err/meta_resolver.cc` | registers, stack, symbol table | the stubs, `isr_handler`, `dump_at_addr`, `backtrace` | frame layouts against struct layouts; faults inside the report; NMIs | `InterruptEntry`, `CrashDump`, `Exceptions` |
| PIT, timer, local APIC timer | `pit.cc`, `timer.cc`, `lapic.cc` | tick count, timer registers | `tick`, `sleep_*`, `calibrate_frequency`, `set_frequency` | check-then-halt, truncation, 32-bit products | `Timers` |
| Boot order | `kern.cc` | what is initialised | `_kernel_pre_setup`, `_start` | use before initialisation | its parts in `BootMemory`, `KernelMemory`, `Interrupts`, `Scheduler` |

How the parts interact: `Frame::init` takes memory from the sorted memory map;
`TSS::init_stacks`, paging and the heap take frames; the scheduler, the symbol
table and uACPI take heap blocks; interrupts (timer, uACPI handlers, exceptions)
run on the TSS stacks. There is no preemption: no interrupt handler of the
repository calls the scheduler, and the only one that allocates is the fatal
exception path (the demangler's buffer), after which the interrupted code does
not continue. That is why calls of the allocators are single steps in these
models. (Handlers that uACPI installs are library code and are assumed not to
allocate.)

## Modules

**`Frames`**. `frames`, `latest_frame` are the code's variables; `ret` is the last
return value. `holders` (how many callers hold a frame) and `heads` (frames at which
a run began) are history variables: no guard reads them, except that `MaxHolders`
bounds `holders`. `alloc` is `AllocNull` or `AllocFrame(f)`; `allocs(n)` is
`AllocsNull(n)` or `AllocsRun(s, n)`. The scan of `allocs` is described by what its
locals hold when it breaks (`RunAt`, `ScanStopsAt`). `free` may be called for any
frame held. `Spec` has all operations; in `BootSpec` nothing is freed, since nothing
in the kernel calls `Frame::free`. Offsets are taken modulo `Wrap` = 2^32 /
FRAME_SIZE.

**`Heap`**. `pages` is the list of heap pages, each with its sequence of segments
(addresses are offsets in the page). Each call is one step: a `kmalloc` is
`TakeSegment` (first fit), `Grow` (a new page, and the recursive call that then
succeeds in it) or `OutOfFrames`; a `kfree` is `Found` or `NotFound`. `size` of a
page is not stored by the code; it is the ghost of `alloc_size`. `live` (blocks
callers hold) and `splits` are history. Callers free only what they hold, once.
The runs of frames under pages are taken as fresh here. `Frames` does not give
that for pages of several frames (see "What the models show about the code"), so
`LiveDisjoint` is about blocks of one page; blocks of
two pages are disjoint only as far as the pages are.

**`Scheduler`**. The Task fields are functions on addresses; `head`, `tail`,
`current`, `count`, `next_pid` are `process_list`. Each loop makes one step per
iteration, and `phase` names the loop that is running: `lookup` (`get_by_pid`),
`cleanup` (`cleanup_terminated`), `scan` (the search in `yield`), `start`. While
a loop runs no other action is enabled, as in the code. A switch is a call of
the task's entry function, so `stack` holds the entered tasks; `task_returns`
ends the innermost one and leaves `current` as it is. `ring` is the list as a
sequence, a history variable. Heap addresses may be reused after a free.

**`TaskRing`** says what the list is for, without pointers: a sequence, a current
element, and a switch that passes over no runnable task. `ImplementsTaskRing` in
`Scheduler` states the refinement (the variables have the same names, so the
mapping is the identity on `ring`, `current`, `state`).

The scheduler relies on heap blocks that do not
overlap, which is again true within a heap page.

**`KernelMemory`** extends `Frames` with its callers, in boot order:
`init_stacks` (one round of its loop per step), `PagingInit`, then, in any order,
`MapTable` (a table that `map` lacks) and `create_heap_page(n)`. `ist`, `tables`
and `heap` record who was given what. A caller that does not survive a null
result ends in `boot = "stopped"`.

**`Paging`**. `mem` is what the table frames hold, `op` the call of `map` or `unmap`
that is running, which makes one step per level, one for the leaf and one for the
flush. `Fill` is the processor, which may walk the tables between any two steps once
`load_cr3` was done. An entry is a table, a leaf (page and flags as one value),
`None`, or `Null`, the entry that `map` makes of a null frame. `unmap` is part of
the interface; nothing in the kernel calls it yet. `map_range`, `map_mmio` and
`full_map` are sequences of `map`, and the model allows any. The TLB and the page
walk are the processor's, modelled as external. That an access through a null table
faults is an assumption about the bootloader's tables before `load_cr3`, and about
what the mapper maps after it. **`AddressSpace`** is what paging promises: a
function of which a step changes one place. The mapping is `mapped[v] <-
Translation(v)`.

**`Memmap`**. `sort_memmap`, one step per round of the inner loop. `entries` are
places in `given`, the map the bootloader left, so that exchanging pointers and
losing regions can be told apart. **`BootMemory`** extends it by what happens to the
sorted map: `Frame::init` takes entries 0 and 1 for memory and flags, each loop
of `Mapper::full_map` enters the regions of one type, and `load_cr3` makes the
rest unreachable. One loop is one step: nothing else runs yet.

**`Timers`**. A clock of `PitFreq` cycles a second that raises the timer line every
`TickLen` of them (`PIT::set_frequency` rounds the divisor down, so that a second of
ticks is `PitFreq % Freq` cycles short), `Tick` (the handler chain down to
`PIT::tick`), and one call at a time: the sleeps with the test and the `hlt` as
separate steps, so that a tick may come between them and the processor still halts,
`calibrate_frequency` with each read of a clock a step of its own, `set_frequency`
with the divider search. `W32` is the width of the products. An edge that comes
while the last one is pending is lost. `Lag` is the one assumption about speed: from
one read of the calibration to the next, and from the edge that ends its spin loop
to the read behind it, take at most `Lag` cycles, less than a tick. So a tick may
come between any two reads.

**`Interrupts`**. The gates (`Extra` is 0xF0, `Spurious` 0xFF), `irq_handlers`, the
redirection entries and the local APIC's request and service bits, in the order
`kern.cc` starts them. `madt` is the firmware's table, which `IoapicEntry` copies an
entry at a time. `RouteLow` and `RouteHigh` are the two register writes of
`IOAPIC::set`. `Install` and `Uninstall` make one store per step; `BridgeCall` is
what the bridge would call if an interrupt came at that moment. That the compiler
keeps the stores in source order is assumed: nothing in the code demands it. `given`
is history. Local APIC, IOAPIC and wires are external.

**`InterruptEntry`** runs the assembly stubs on a symbolic stack, where a word is
the name of the register it came from, and lists the fields of the two C++
structures. **`CrashDump`** has the symbol sort and search and the window of the
disassembly as operators. **`Exceptions`** composes both: an interrupt enters on the
IST stack, its stub runs instruction by instruction, `isr_handler` runs part by
part; NMIs may come at any step, and parts of the report may fault, which enters
the same IST stack from its top. After that the `rbp` chain is any of: ending,
circular, leading to unmapped memory. Each function the report names costs a `kmalloc`
and the demangler (`search_repr`). A name is the sequence of what the demangler comes to
in it, and `Stays` holds the components its loop does not get past; then the report is
"stuck", and `Runaway` is the fault that writing on may end in. `heap` says whether the
allocator still has frames; without, the report ends in the heap's own `hlt`. DWARF
lookup and disassembler are external. Vectors 17, 21, 29 and 30 are not raised
(`Raised`): the processor pushes an error code for them and their stubs do not expect
one, but they need privilege level 3, CET, SEV-ES or SVM, which the kernel does not use.

`MCPaging`, `MCScheduler`, `MCInterrupts` and `MCExceptions` add what only TLC uses.
`KernelMemoryProofs` (also for `Frames`, `Memmap` and `BootMemory`), `HeapProofs`,
`SchedulerProofs`, `PagingProofs`, `TimersProofs`, `InterruptsProofs`,
`ExceptionsProofs` and `ReportProofs` (also `CrashDump`) hold the theorems.
Definitions marked "Mutant" are slips one could make in the code; each makes the
property it is paired with fail, which shows that the property depends on that code.

## Runs

| Run | Checks | Shows |
|---|---|---|
| `frames_free` | `SharedOnlyAtRunStart`, `HeldIsMarked`, `RoomMeansFound` | what the allocator keeps even with `free` and flags left unset |
| `frames_adjacent` | `HandedOutWasFree` (violated) | `allocs` hands out a frame in use |
| `memory_boot` | `NullMeansFull`, `TablesPrivate`, `StacksPrivate`, `StackRoom`, `SinglePagesPrivate` | when `alloc` fails, and which of the callers' frames stay their own; a stack shares at most its lowest frame with earlier ones |
| `paging_tlb` | `NoStaleTlb`, `ImplementsAddressSpace`, `MapTakesEffect` | the tables are a function of pages, and the TLB follows it |
| `memmap_sort` | `KeepsRegions`, `PassedPlacesSettled`, `AllocatorMapped` | what the sort achieves, and that the allocator's regions stay mapped |
| `memmap_order` | `UsableDecreasing` (violated) | it does not order usable regions |
| `scheduler_safety` | `RingOK`, `NoDanglingTask`, `KillReachesTarget`, `YieldOverlooksNobody`, `CleanupFreesAll`, `NoRevival`, `ImplementsTaskRing` | list integrity, no use after free, and what each walk achieves |
| `scheduler_live` | `LoopsTerminate` | every walk ends |
| `heap_blocks` | `PagesTiled`, `LiveBacked`, `LiveDisjoint`, `FirstPageNoLeak`, `FreeSizeDrift` | blocks of a page never overlap; what is and is not freed |
| `timers` | `SleepsLongEnough`, `CalibrationClose`, `ProgrammedRate`, `CallsReturn` | how exact sleeps and the calibrated timer are with a rounded divisor and ticks at any moment, and that no wake-up is missed |
| `interrupts` | `TimerRouted`, `GateBeforeRoute`, `HandlerGetsItsContext`, `TimerServed` | the timer's way from pin to handler on eight machines, and uACPI handlers against interrupts |
| `exceptions` | `FrameFaithful`, `ReturnRestores`, `CrashIsFinal`, `ReportLocates`, `ReportEnds` | handlers read the interrupted state, interrupts are invisible, a crash is final, and what it takes for its report to end |

Bounds. *Frames*: 7 frames and runs of up to 4 let two runs of 4 overlap (the
kernel's interrupt stacks); with `free`, runs of one to three frames alternate in 5
frames of which 3 flags are cleared. `MaxHolders` cuts off only the repetition of
the same sharing. *Scheduler*: four addresses allow a head, a tail and two middle
tasks, every place of `current` among them, and two neighbours freed in one pass; a
fifth pid forces the reuse of an address; three nested entries allow a return into a
task whose `current` is stale. Symmetry over addresses is used for safety only.
*Heap*: headers of 2, frames of 12, and sizes 1, 4, 9: a request that splits twice,
one that leaves less than a header (no split), and one that needs two frames; three
frames give a second page and exhaustion; `U32` = 14 makes `free_size` wrap.
`heap_blocks` does not check deadlock because the CPU may halt. *KernelMemory*: the
kernel's numbers (seven stacks of four frames, nine-frame pages for the stacks of
processes), and 36 frames, enough for all stacks and a few pages and tables, and few
enough to run out; it may stop then. *Paging*: two indices per level and five pages
that share none, one, two or three levels of tables with the first; seven table
frames of the ten that all pages need, so that a missing table of each level can be
the one for which there is no frame, where the CPU stops. *Memmap*: four entries of
four types, so that two are left behind the two that `Frame::init` takes; three
lengths give ties and all orders; the loops end, so deadlock is not checked.
*Timers*: 11 cycles and four ticks a second, so that a tick is two cycles, a sleep
can begin in the middle of one and three cycles a second are lost to the divisor; a
`Lag` of one cycle lets a tick come between any two reads; 32 for 2^32, so that
products and counts wrap and the divider search has work; `MaxTicks` = 7 leaves room
for a sleep before and after a calibration of two ticks; the clock keeps so many
ticks back (`Reserve`) that a calibration or a `hlt` that has begun can end.
*Interrupts*: two exceptions, two lines, seven vectors, so that every kind of vector
exists; machines with one and two IOAPICs in either order, with overrides to first,
middle and last pins and to none; two irqs, handlers and contexts, so that they can
be mixed up. The machine may be powered off. *Exceptions*: vectors with and without
error code and message, an irq and the spurious vector; nine images with functions
in either order, names from which the demangler comes back, does not, or may not,
empty and full line tables; windows of four instructions, so that a fault can be
before, in and past the first window. The machine may halt.

Fairness. A CPU that can execute does: `WF(LoopStep)` in `Scheduler`, `WF(Running)`
in `Timers`, `WF(Handler)` in `Exceptions`. An interrupt that is requested and not
masked is taken: `WF(Tick)` in `Timers`, `WF(Interrupt)` in `Interrupts`; a gate
clears the interrupt flag and `iretq` sets it again, so that it does not stay
disabled. The PIT runs: `WF(Clock)`. Nothing is assumed of callers: tasks need never
yield or return, uACPI need never uninstall, NMIs need never come, and a demangler
that runs away need never meet a fault (`Runaway` is not under fairness).

## Proofs

*Frames*, for all sizes (`FramesAssumption`) with `Available <= Wrap`, that is
memory of at most 4 GiB, so that 32-bit offsets are exact (lemma `AddressExact`):
- `TypeCorrect`: indices and results stay in range.
- `SharingCorrect`: inductive invariant `Sharing`, the conjunction of
  `SharedOnlyAtRunStart` and `HeldIsMarked`; each alone is not inductive, since a
  frame is safe from a second `alloc` only because it is marked.
- `NullCorrect`, also assuming that `init` zeroes every flag (`Available <=
  Cleared`): the invariant `UsedPrefix` says that the used frames are the first
  ones, and that every frame below `latest_frame` is used. It holds only because
  `allocs` advances by one frame: the frame it passes is inside the run, or
  already used.
- `PrefixCorrect`: that `UsedPrefix` invariant itself.
- `RoomCorrect`: `RoomMeansFound`, whatever was allocated and freed. The scan of
  `allocs` takes a used frame as the first of a run; lemma `RunBeforeRoom` goes back
  from a free run to the last used frame before it, where a run begins that the scan
  completes.

*KernelMemory*, for all sizes with `Available <= Wrap` and `Available <= Cleared`:
- `CallersImplementBoot`: each step of a caller is a step of `BootSpec`, so that
  `PrefixCorrect` applies.
- `CallersCorrect`: `TablesPrivate`, `StacksPrivate`, `StackRoom` and
  `SinglePagesPrivate`. The inductive invariant `KInv` says of each thing given out
  where it lies against `latest_frame`: `alloc` always moves the index past the
  frame it returns, and past everything used, so tables, and stacks once
  `Paging::init` has run, are behind the index for good; so is a one-frame page.
  A longer run is not. `StackRoom` needs that the frames of stacks are marked: every
  frame of a new run but its first was free.

*Scheduler*, for any set of tasks, with `NULL` no task and no state:
- `ListCorrect`: `TypeOK`, `RingOK`, `NoDanglingTask` and `PidsUnique` always hold.
  The inductive invariant `ListInv` joins them and strengthens pids to "below
  `next_pid`". `RingOK` and `NoDanglingTask` need each other: unlinking is safe only
  for a task in the list, and following `next` stays on live tasks only in a circle.
  The history sequence `ring` turns pointer reachability into arithmetic on
  positions (lemmas `LinkKeepsRing`, `UnlinkKeepsRing`).
- `KillComplete`, `YieldComplete`, `CleanupComplete`, `NoTaskRevived`: the action
  properties, with the exceptions each states. Each says what a walk has achieved
  when it ends, so the invariant `WalkInv` says how far a walk has come: at which
  place of `ring` its pointer stands, and what is true of the tasks passed.
- `ListImplementsRing`: `ImplementsTaskRing`. The step that matters is a switch, for
  which `WalkInv` gives that every task passed over was not runnable, and the
  unlinking of a task, which is removing it from the sequence (`CutIsWithout`).
- `WalksShorten`: while a walk runs only its own steps are possible, and each leaves
  fewer. `StepsLeft` counts what is left of the circle from the pointer's place in
  `ring`, and for `cleanup` the search of `yield` behind it, so it is at most twice
  the count and one. A cleanup step that frees a task takes a place away on both
  sides (`CleanupShortens`).

*Heap*, for all header, frame and request sizes with `size + headers` below 2^32
(`HeapAssumption`):
- `HeapCorrect`: `TypeOK`, `PagesTiled`, `LiveBacked` and `LiveDisjoint` always
  hold. They are about one page each, and about blocks as far as pages lie apart
  (see `Heap`). The invariant `HeapInv` adds that the order of segments is the order
  of addresses (which would follow from tiling by induction and is carried along
  instead) and that no two held blocks share an address (so that freeing one cannot
  take away another's segment). `SplitTiling`, `MergeTiling` and `MarkTiling` are
  the arithmetic of one changed list; `AllocSegsOK` and `FreeSegsOK` tie them to the
  code's operations.
- `DriftCorrect`: `FreeSizeDrift`, an equation modulo 2^32 about a sum over a page's
  segments: a header too much for every split so far, which a merge does not undo.
  `FreeBytesShift` says that the sum over a tail does not depend on what is in front
  of it, `FreeTotalAround` splits a sum around the changed place, and `AllocTotal`
  and `FreeTotalGrows` compare the sums before and after a split, a mark and a
  merge; `AllocAccount` and `FreeAccount` are the modular arithmetic.
- `NoLeakCorrect`: `FirstPageNoLeak`. `AllocUsed` and `FreeUsed` say which places of
  a list are allocated after an operation: those before, moved by the split or
  merge, and the one given out or back.
- `RetryFindsNewPage`: the recursion of `kmalloc` has one level. Below the 32-bit
  limit the first segment of a new page is large enough, and the old pages are as
  they were, so the second search stops there. This is why `Grow` can be one step.

*Timers*, for all clock and tick rates, arguments, dividers, lags below a tick and
bus rates whose count over a calibration and four lags fits 32 bits
(`TimersAssumption`; the dividers' squares do, too, the largest being 128).
`TimersInv` relates four clocks: the edges of the line (counted ticks and the
pending one), the time since a call began, the age of the APIC count and the phase.
`SleepInv` says that the edges since a sleep began take no more than its time and a
tick; `CalInv` that during a calibration no edge is lost, that edges and phase
account for the age of the count up to a tick and a lag, and that the loop is left
within a lag of the edge it waits for.
- `SleepsCorrect`: `SleepsLongEnough`. `AskedCovers` is the rounding of the target.
- `CalibrationCorrect`: `CalibrationClose`, from `CalibrationResult`, which bounds
  the quotient of counts and ticks by products.
- `ProgrammedCorrect`: `ProgrammedRate`. `SetFrequencyRate` takes the least divider
  whose count fits; `FrequencyFits` shows that there is one for each calibrated
  rate.

*BootMemory*, for any number of entries, types and lengths (`MemmapAssumption`):
`RegionsKept`, `PlacesSettled` and `AllocatorReachable` for `KeepsRegions`,
`PassedPlacesSettled` and `AllocatorMapped`. `SortInv` adds to these that no region
is listed twice and what the round under way has settled; `BootInv` adds which types
are entered after which step. A permutation of a finite set is not needed: "every
place holds a region, no two the same, and every region is listed" is preserved by
an exchange.

*Paging*, for any pages, table frames and depth-four indices (`PagingAssumption`):
- `TablesAreTree`: the inductive invariant `TreeInv`. Every table in use has a level,
  its entries lead to tables one level down (or to leaves at the last), and no two
  entries lead to the same table; a running call stands where the processor's walk of
  its page stands; the TLB disagrees only for the page of a call about to flush.
  Without the tree, one store could change the walks of other pages.
- `TlbNeverStale`, `MapEffective`, `WalksEndAtLeaves` (`TypeOK`) follow from it.
- `TablesImplementAddressSpace`: a leaf store changes one page's translation
  (`LeafWrite`), linking a fresh, empty table changes none (`LinkWrite`).

*Interrupts*, for any numbers of exceptions, lines and vectors, any MADT and any
irqs, handlers and contexts (`InterruptsAssumption`). `MadtAssumption` is about the
firmware: no two IOAPICs of a machine have a global interrupt in common, on which the
first match of `IOAPIC::set` relies.
- `ContextsKept`: `HandlerGetsItsContext`. `SlotInv` says which fields of a slot are
  settled after each store of the call under way.
- `GatesFirst`: `GateBeforeRoute`. `GateInv` says that from the registration on the
  timer's vector has its gate and handler, and that only this vector is ever routed.
- `TimerCounted`: a timer interrupt taken is counted, unless uACPI took irq 0. This
  is the safety half of `TimerServed`.
- `RoutingCorrect`: `TimerRouted`. `CopyInv` is the invariant of `IOAPIC::init`'s walk:
  all IOAPICs seen so far are copied, and the first override of irq 0 in the copy is the
  first in the table. `RouteInv` adds what the redirection entries are before, between
  and after the two writes. `PinFound` is the heart: the pin written is the timer's if
  some IOAPIC holds it below its last pin or the last IOAPIC holds it, and is no pin
  at all otherwise.

*Exceptions*, for all sets of vectors (`ExceptionsAssumption`) and all kernel
images. The stubs are fixed programs of 34 and 63 or 64 instructions. `IsrAt` and
`IrqAt` give the n-th instruction and `IsrWord` and `IrqWord` the n-th word of a
stack; `StubIsr` and `StubIrq` show that the concatenations of the macros are these
instructions. The invariant `EntryInv` says that a running stub is in the state
after some n of its instructions: the rest of the code, as many of the words as have
been pushed and not popped, and the registers that are unchanged or back. Behind the
call only a line or a spurious interrupt is left, since `isr_handler` does not
return otherwise.
- `FrameCorrect`: `FrameFaithful`. `IsrLayout` and `IrqLayout` match the fields of
  the C++ structures with the pushed words.
- `ReturnCorrect`: `ReturnRestores`, from the state in front of `iretq`.
- `CrashFinal`: `CrashIsFinal`.
- `HandlersShorten`: each step of a handler leaves fewer of at most `MaxFrames` +
  71, the longest stub (64), the call and the parts of the report with the
  backtrace's rounds. The exceptions are the two faults of the report, a vector
  without a message and an unmapped frame. A report stops before its end only at a
  name that the demangler may not come back from, or with a heap that is out of
  frames (`CutsWithReason`). `PartsInv` bounds the rounds of the backtrace.

*The report*, for every image whose symbols have a non-empty code (`Symbols`,
`ExceptionsAssumption`) and all windows of at least three and at most `Ring`
instructions before the address (`CrashDumpAssumption`; the code's numbers are 4 and
32):
- `ReportCorrect`: `ReportLocates`. `ReportInv` ties the report's fields to the
  image; the rest is about the loops that compute them, whose values `LoopRuns`
  names one turn at a time. `FunctionsKept`: `init_symbols` keeps the named
  functions and nothing else. `PlaceSettled` and `TableSorted`: the exchange sort
  has `Settled` the places passed, and holds the least address seen in the place it
  works on (`LeastSeen`). `Resolved`: the search in a sorted table stops at the last
  function not above the address. `ScanEnds` and `WindowStart`: the scan stops
  behind the instruction that holds the address, and the slot read from the ring is
  not yet overwritten, since it is fewer than `Ring` entries back. `WindowMarks`
  puts these together.

Induction. The library's induction theorems take an operator as a parameter and
cannot be used. Where a proof needs induction over a bound, lemma `LeastNumber` takes
the least number at which the claim fails (from `WFMin` and `NatLessThanWellFounded`).

Only model-checked is liveness, which is outside the prover: `LoopsTerminate`,
`CallsReturn`, the second half of `TimerServed` and `ReportEnds`. For
`LoopsTerminate` and `ReportEnds` the part that is about the code is proved:
`WalksShorten` and `HandlersShorten` give a number that each step of the loop or
handler lowers, so that only "a step that stays enabled is taken" is left to TLC.
`CallsReturn` has no such number: an interrupt of another line ends a `hlt` without
bringing the sleep nearer its end, and only the clock's fairness does.

## What the models show about the code

- `allocs` counts a used frame as the first of its run (`frames.cc:31`), against its
  comment "find adjacent free frames": `frames_adjacent`. Sharing is confined to
  first frames of runs (`SharingCorrect`).
- The same search, with the index moved on by one frame per run (`frames.cc:46`),
  can return the same frame again: after `allocs(3)` = 0..2 and `allocs(2)` = 2..3,
  `allocs(1)` is 2. So a heap page may be placed inside an earlier page of several
  frames, which is why `SinglePagesPrivate` is about one-frame pages. Page tables
  and interrupt stacks are out of its reach (`CallersCorrect`), the stacks only
  because `Paging::init` calls `alloc` before the first heap page.
- `sort_memmap` never moves a usable entry back (`limine.cc:42`), so the first
  usable region, however short, is the kernel's memory if it comes first
  (`memmap_order`); if a non-usable region is the longest it may be, too.
  `PassedPlacesSettled` says what the loops do achieve. The mapper leaves out every
  type but usable, bootloader and framebuffer, so a region of another type that gets
  to the front is not mapped when cr3 is loaded (`AllocatorMapped`).
- `kfree` searches only the first page (`heap.cc:91`: `segment` is not set again for
  the next page), so blocks in later pages are never reused. `FirstPageNoLeak` says
  what remains true.
- `free_size` grows by one header with every split (`FreeSizeDrift`); the code never
  reads it after a page is created.
- A cleanup pass that removes the head stops there (`CleanupFreesAll` states the
  exception).
- After `kill_current`, `current` is a task that was never entered; `yield` looks
  behind it, and if it is the only runnable one nothing runs. With `current` null,
  before the first switch or after the last task freed itself, `yield` gives up
  whatever has been spawned (`YieldOverlooksNobody` states both exceptions).
- `start_scheduler` with no runnable task enters the head whatever its state
  (`NoRevival` states the exception).
- Sleeps: the tick under way counts as a whole one and the division drops a
  fraction, so a sleep may end up to two ticks early; the rounded divisor makes it,
  and the uptime, short by another 182 cycles a second. A sleep below a tick, or
  before `Timer::init`, returns at once. The test-then-`hlt` of the loops misses no
  wake-up for good, since the next tick comes anyway (`CallsReturn`).
- A tick between the calibration's last read of the APIC count and its read of the
  tick count makes the frequency up to a tick in ten too low (`CalibrationClose`).
- The branches of `set_frequency` for a count too large and of the calibration for
  no elapsed tick are never taken (`ProgrammedRate`). A target above the calibrated
  frequency gives a count of 0, which stops the timer. Its vector, 0x21, has no
  gate.
- `IOAPIC::set` does not find an interrupt on the last pin of an IOAPIC unless that
  is the last one listed (`TimerRouted` states the exception). It unmasks the entry
  before it writes the destination.
- Installing a uACPI handler for irq n sets gate n, not 32+n, and routes nothing, so
  only line 0, which the kernel routed itself, reaches the bridge. Installing on irq
  0 takes the timer's entry, and uninstalling does not give it back (`TimerServed`
  states the exception). A shutdown that fails leaves interrupts disabled.
- A spurious interrupt returns with r15 changed (`ReturnRestores`). In an exception
  frame `rsp` is the IST stack's and `rip` the stub's own; `return_address` is the
  program's.
- An exception from 22 on has a null message, which faults again in the report. An
  `rbp` chain into unmapped memory does so in the backtrace (`ReportEnds` excludes
  both). An exception inside a handler starts at the top of the same stack and
  overwrites the first one's frames.
- The loop of `unmangle_name` (`mangle.cc:38`) steps over components with a length
  only. At a constructor, an operator, a template argument or a `const` member
  function's mark it stays where it is and appends "::" without end; so a report
  that names such a function does not reach its `cli; hlt`, and `ReportEnds` is
  about the other names. Each name is also a `kmalloc` that is never freed.
- `find_rip` looks up the byte before the interrupted instruction, so the line shown
  may be the previous one's. A fault more than a window behind the start of a
  function but within the threshold is not marked, nor is one at the first
  instruction of a function, if that is looked up in the one before
  (`ReportLocates`).

## Not modelled

- *No state that changes*: GDT (constant descriptors), the legacy PIC (two writes),
  logger, serial port, CPUID, SSE.
- *Never run*: `task_switch` (`switch.s`) is not called; the scheduler calls entry
  functions.
- *Not in the repository*: drivers, klib, uACPI, limine headers and `Spinlock` are
  submodules; their use is modelled as external where a component depends on it. So
  mutexes of the uACPI interface, ELF and DWARF parsing and the disassembler have no
  model of their own, nor has what `ACPI::init` and `load` make uACPI do.
- *Pure I/O*: PCI and port accesses for uACPI, `dump_entries`, enabling the local
  APIC.
- *Left out of a modelled part*: the rounding of `map_range` and `map_mmio`
  (addresses are page numbers; `uacpi_kernel_map` passes an address that need not be
  aligned, whose low bits then count as flags), the flags of mappings, the limits of
  24 MADT entries and 1024 symbols, the characters the demangler writes, the bytes
  of TSS and IDT descriptors, messages and feature tests of the start-up.
