---------------------------- MODULE KernelMemory ----------------------------
(***************************************************************************)
(* Who asks the frame allocator for what, from Frame::init on: the         *)
(* interrupt stacks of TSS::init_stacks (cpu/tss/tss.cc), the page tables  *)
(* of Paging::init and Paging::map (mem/paging/paging.cc), and the heap    *)
(* pages of create_heap_page (mem/heap/heap.cc), in the order of           *)
(* _kernel_pre_setup (kern.cc).                                            *)
(*                                                                         *)
(* The allocator is Frames itself: each step here is one of its calls      *)
(* together with what the caller does with the result.                     *)
(***************************************************************************)
EXTENDS Frames, Sequences

CONSTANTS
  Stacks,       \* 7: stacks init_stacks makes
  StackFrames,  \* IST_STACK_SIZE / FRAME_SIZE
  HeapRuns,     \* the values num_pages takes in create_heap_page
  MaxPages      \* bound: heap pages

ASSUME KernelMemoryAssumption ==
  /\ Stacks \in Nat \ {0}
  /\ StackFrames \in RunLengths /\ HeapRuns \subseteq RunLengths
  /\ MaxPages \in Nat

VARIABLES
  boot,    \* where _kernel_pre_setup is
  ist,     \* the first frames of ist_stacks[1], ist_stacks[2], ...
  tables,  \* frames that hold page tables
  heap     \* the pages of the heap in order: [start, len]

kvars == <<vars, boot, ist, tables, heap>>

Run(s, n) == s .. s + n - 1

KInit ==
  /\ Init
  /\ boot = "stacks"
  /\ ist = <<>>
  /\ tables = {}
  /\ heap = <<>>

\* One round of init_stacks' loop.  Without a run it returns, the stacks that
\* are left stay unset, and start-up goes on.
init_stacks ==
  /\ boot = "stacks"
  /\ allocs(StackFrames)
  /\ IF ret'.frame = NULL
       THEN boot' = "paging" /\ ist' = ist
       ELSE /\ ist' = Append(ist, ret'.frame)
            /\ boot' = IF Len(ist) + 1 = Stacks THEN "paging" ELSE "stacks"
  /\ UNCHANGED <<tables, heap>>

\* A frame for a table.  nullptr is not tested, but written through: the model
\* stops there.
TableFrame(next) ==
  /\ alloc
  /\ IF ret'.frame = NULL
       THEN boot' = "stopped" /\ tables' = tables
       ELSE boot' = next /\ tables' = tables \cup {ret'.frame}
  /\ UNCHANGED <<ist, heap>>

\* Mutant: the top table is a static array and takes no frame.
PagingInitStatic ==
  /\ boot = "paging"
  /\ boot' = "running"
  /\ UNCHANGED <<vars, ist, tables, heap>>

\* Paging::init takes the frame of pml4 before anything else.
PagingInit == boot = "paging" /\ TableFrame("running")

\* Mutant: map's table comes from allocs.
MapTableRun ==
  /\ boot = "running"
  /\ allocs(2)
  /\ IF ret'.frame = NULL
       THEN boot' = "stopped" /\ tables' = tables
       ELSE boot' = boot /\ tables' = tables \cup {ret'.frame}
  /\ UNCHANGED <<ist, heap>>

\* A table that map lacks (pml3, pml2 or pml1), in full_map and ever after.
MapTable == boot = "running" /\ TableFrame("running")

\* create_heap_page: the run under a new heap page; the CPU halts without one.
create_heap_page(n) ==
  /\ boot = "running"
  /\ Len(heap) < MaxPages
  /\ allocs(n)
  /\ IF ret'.frame = NULL
       THEN boot' = "stopped" /\ heap' = heap
       ELSE boot' = boot /\ heap' = Append(heap, [start |-> ret'.frame, len |-> n])
  /\ UNCHANGED <<ist, tables>>

KNext ==
  \/ init_stacks
  \/ PagingInit
  \/ MapTable
  \/ \E n \in HeapRuns : create_heap_page(n)

KSpec == KInit /\ [][KNext]_kvars

-----------------------------------------------------------------------------
HeapFrames == UNION {Run(heap[i].start, heap[i].len) : i \in DOMAIN heap}

StackArea == UNION {Run(ist[i], StackFrames) : i \in DOMAIN ist}

\* A page table is never anything else: no later stack, heap page or table is
\* given its frame, although allocs hands out frames in use.
TablesPrivate ==
  \A f \in tables : holders[f] = 1 /\ f \notin StackArea \cup HeapFrames

\* The interrupt stacks stay out of the heap.  init_stacks leaves the search
\* index among their frames; it is Paging::init's alloc that moves it past them.
StacksPrivate == StackArea \cap (tables \cup HeapFrames) = {}

\* An interrupt stack shares at most its own lowest frame with the ones made
\* before it (init_stacks).  That frame is the topmost of the other, where its
\* first pushes go: stacks grow down, so two of them meet as soon as the later
\* one is used down into its lowest frame, and not before.
StackRoom ==
  \A i, j \in DOMAIN ist :
    i < j => Run(ist[i], StackFrames) \cap Run(ist[j], StackFrames) \subseteq {ist[j]}

Overlap(p, q) == Run(p.start, p.len) \cap Run(q.start, q.len) # {}

\* A heap page of one frame is never given out again; one of several may be.
SinglePagesPrivate ==
  \A i, j \in DOMAIN heap :
    i < j /\ Overlap(heap[i], heap[j]) => heap[i].len > 1

=============================================================================
