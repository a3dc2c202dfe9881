------------------------------- MODULE Paging -------------------------------
(***************************************************************************)
(* The four-level page tables of src/src/kernel/mem/paging/paging.cc, and  *)
(* the processor's TLB, which reads them at any time.                      *)
(*                                                                         *)
(* A virtual page is the tuple of its four table indices.  map and unmap   *)
(* take one step per level, so that the processor may look at the tables   *)
(* in between.  Table frames are numbered in the order in which            *)
(* Frame::alloc hands them out; that they are nobody else's is             *)
(* TablesPrivate of KernelMemory.                                          *)
(***************************************************************************)
EXTENDS Integers, Sequences

CONSTANTS
  Index,      \* table indices: 0..511
  Virt,       \* the virtual pages that are mapped, <<i4, i3, i2, i1>>
  Leaf,       \* what they are mapped to: physical page and flags
  None,       \* an entry without PAGE_PRESENT
  Null,       \* the entry made of nullptr, whose address is outside memory
  MaxTables   \* frames Frame::alloc has for tables

ASSUME PagingAssumption ==
  /\ Virt \subseteq [1 .. 4 -> Index]
  /\ None \notin Leaf /\ Null \notin Leaf /\ None # Null
  /\ MaxTables \in Nat \ {0}
  /\ \A t \in 1 .. MaxTables : t \notin Leaf \cup {None, Null}

VARIABLES
  mem,     \* the entries of each table frame
  tables,  \* table frames taken: 1..tables, the first is pml4's
  active,  \* cr3 holds pml4
  tlb,     \* what the processor has cached for each page
  op       \* the call that is running: [kind, virt, leaf, level, table]

vars == <<mem, tables, active, tlb, op>>

Table == 1 .. MaxTables

Zeroed == [i \in Index |-> None]

pml4 == 1

Idle == [kind |-> "idle", virt |-> None, leaf |-> None, level |-> 0, table |-> 0]

Stopped == [Idle EXCEPT !.kind = "stopped"]

\* Mutant: the shift of the third level is used for the second, too.
PmlIndexShift(v, level) == v[IF level = 2 THEN 2 ELSE 5 - level]

\* (virt >> 39), (virt >> 30), (virt >> 21) and (virt >> 12), & 0x1ff.
PmlIndex(v, level) == v[5 - level]

NoTlb == [v \in Virt |-> None]

\* Paging::init up to full_map: pml4 is one zeroed frame.
Init ==
  /\ mem = [t \in Table |-> Zeroed]
  /\ tables = 1
  /\ active = FALSE
  /\ tlb = NoTlb
  /\ op = Idle

Begin(kind, v, e) ==
  /\ op = Idle
  /\ op' = [kind |-> kind, virt |-> v, leaf |-> e, level |-> 4, table |-> pml4]
  /\ UNCHANGED <<mem, tables, active, tlb>>

\* map is called by full_map, map_range, map_mmio and the APIC drivers, always
\* with PAGE_PRESENT in its flags.
map(v, e) == Begin("map", v, e)

unmap(v) == Begin("unmap", v, None)

Entry == mem[op.table][PmlIndex(op.virt, op.level)]

Down(t) == op' = [op EXCEPT !.level = @ - 1, !.table = t]

Descend ==
  /\ op.level > 1
  /\ Entry # None
  /\ Down(Entry)
  /\ UNCHANGED <<mem, tables, active, tlb>>

\* The level is missing: map links a zeroed frame.
Extend ==
  /\ op.level > 1 /\ op.kind = "map"
  /\ Entry = None
  /\ tables < MaxTables
  /\ tables' = tables + 1
  /\ mem' = [mem EXCEPT ![op.table][PmlIndex(op.virt, op.level)] = tables + 1,
                        ![tables + 1] = Zeroed]
  /\ Down(tables + 1)
  /\ UNCHANGED <<active, tlb>>

\* Frame::alloc returned nullptr.  map links it like a table and reads through
\* it, which is taken to fault (page 0 is not mapped by this kernel, and not by
\* the bootloader); the fault handler does not return.
OutOfFrames ==
  /\ op.level > 1 /\ op.kind = "map"
  /\ Entry = None
  /\ tables = MaxTables
  /\ mem' = [mem EXCEPT ![op.table][PmlIndex(op.virt, op.level)] = Null]
  /\ op' = Stopped
  /\ UNCHANGED <<tables, active, tlb>>

Absent ==
  /\ op.level > 1 /\ op.kind = "unmap"
  /\ Entry = None
  /\ op' = Idle
  /\ UNCHANGED <<mem, tables, active, tlb>>

\* Mutant: map never flushes.
FlushesUnmap == op.kind = "unmap"

\* perm_mod in map; unmap always flushes.
Flushes == op.kind = "unmap" \/ Entry # None

\* Mutant: the last table is cleared also when it was found, not added.
WriteLeafClears ==
  /\ op.level = 1
  /\ mem' = [mem EXCEPT ![op.table] =
                           [Zeroed EXCEPT ![PmlIndex(op.virt, 1)] = op.leaf]]
  /\ op' = IF Flushes THEN [op EXCEPT !.level = 0] ELSE Idle
  /\ UNCHANGED <<tables, active, tlb>>

WriteLeaf ==
  /\ op.level = 1
  /\ mem' = [mem EXCEPT ![op.table][PmlIndex(op.virt, 1)] = op.leaf]
  /\ op' = IF Flushes THEN [op EXCEPT !.level = 0] ELSE Idle
  /\ UNCHANGED <<tables, active, tlb>>

flush_tlb ==
  /\ op.level = 0 /\ op.kind \in {"map", "unmap"}
  /\ tlb' = NoTlb
  /\ op' = Idle
  /\ UNCHANGED <<mem, tables, active>>

\* The end of Paging::init; writing cr3 empties the TLB.
load_cr3 ==
  /\ op = Idle /\ ~active
  /\ active' = TRUE
  /\ tlb' = NoTlb
  /\ UNCHANGED <<mem, tables, op>>

\* The processor's own walk: what virtual page v is mapped to.  An entry that is
\* not present, or points outside memory, ends it without a translation.
Through(entry, i) == IF entry \in Table THEN mem[entry][i] ELSE None

Translation(v) ==
  Through(Through(Through(mem[pml4][v[1]], v[2]), v[3]), v[4])

\* The processor walks the tables when it likes, and keeps what is present.
Fill(v) ==
  /\ active
  /\ Translation(v) # None
  /\ tlb' = [tlb EXCEPT ![v] = Translation(v)]
  /\ UNCHANGED <<mem, tables, active, op>>

WalkStep == Descend \/ Extend \/ OutOfFrames \/ Absent \/ WriteLeaf \/ flush_tlb

Next ==
  \/ \E v \in Virt : unmap(v) \/ (\E e \in Leaf : map(v, e)) \/ Fill(v)
  \/ WalkStep
  \/ load_cr3

Spec == Init /\ [][Next]_vars

-----------------------------------------------------------------------------
\* Tables hold entries, the call that runs stands on a table that exists, and a
\* walk never takes a table for a leaf or a leaf for a table.
TypeOK ==
  /\ tables \in 1 .. MaxTables
  /\ mem \in [Table -> [Index -> Table \cup Leaf \cup {None, Null}]]
  /\ active \in BOOLEAN
  /\ tlb \in [Virt -> Leaf \cup {None}]
  /\ op.kind \in {"idle", "map", "unmap", "stopped"}
  /\ op.level \in 0 .. 4 /\ (op.level > 0 => op.table \in 1 .. tables)
  /\ \A v \in Virt : Translation(v) \in Leaf \cup {None}

\* The processor never uses a translation that is gone: what the TLB holds for
\* a page is what the tables say, except for the page whose entry the running
\* call has just overwritten, until that call's flush.
NoStaleTlb ==
  \A v \in Virt :
    tlb[v] # None /\ tlb[v] # Translation(v) => v = op.virt /\ op.level = 0

Abstract == INSTANCE AddressSpace WITH mapped <- [v \in Virt |-> Translation(v)]

\* map and unmap of a page change the translation of that page and of no other,
\* in one step, although pages share tables and map adds tables on the way.
ImplementsAddressSpace == Abstract!Spec

\* When map returns, its page is mapped to what the caller asked for, whatever
\* tables were found or added on the way.
MapTakesEffect ==
  [][\A v \in Virt :
       op.kind = "map" /\ op.virt = v /\ op' = Idle
         => Translation(v)' = op.leaf]_vars
=============================================================================
