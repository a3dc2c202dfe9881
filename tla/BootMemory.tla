----------------------------- MODULE BootMemory -----------------------------
(***************************************************************************)
(* What becomes of the memory map after sort_memmap (Memmap): Frame::init  *)
(* takes the first two regions, Paging::init has Mapper::full_map enter    *)
(* the regions into new page tables type by type and then loads them.      *)
(* From then on only the regions that were entered can be used.            *)
(***************************************************************************)
EXTENDS Memmap

VARIABLES
  step,    \* the next step of the boot
  memory,  \* the region of the frames
  flags,   \* the region of their flags
  mapped   \* the regions in the page tables

bvars == <<given, entries, outer, inner, step, memory, flags, mapped>>

BInit ==
  /\ MInit
  /\ step = "sort_memmap" /\ memory = 0 /\ flags = 0 /\ mapped = {}

SortStep == step = "sort_memmap" /\ MNext /\ UNCHANGED <<step, memory, flags, mapped>>

\* Frame::init: which regions the allocator uses.
FrameInit ==
  /\ step = "sort_memmap" /\ Sorted
  /\ flags' = entries[2] /\ memory' = entries[1]
  /\ step' = "map_bootloader_memory"
  /\ UNCHANGED <<given, entries, outer, inner, mapped>>

\* Mutant: a loop over the entries that starts behind the first.
RegionsTail(type) == {entries[k] : k \in {l \in Place \ {1} : Type(l) = type}}

\* The entries one of the mapper's loops enters.
Regions(type) == {entries[k] : k \in {l \in Place : Type(l) = type}}

MapLoop(name, type, then) ==
  /\ step = name
  /\ mapped' = mapped \cup Regions(type)
  /\ step' = then
  /\ UNCHANGED <<given, entries, outer, inner, memory, flags>>

map_bootloader_memory == MapLoop("map_bootloader_memory", "bootloader", "map_framebuffer_memory")
map_framebuffer_memory == MapLoop("map_framebuffer_memory", "framebuffer", "map_found_memory")
map_found_memory == MapLoop("map_found_memory", "usable", "map_hhdm_memory")
map_hhdm_memory == MapLoop("map_hhdm_memory", "usable", "map_kernel_code")

\* map_kernel_code: the image at its own addresses, not through the map.
map_kernel_code ==
  /\ step = "map_kernel_code"
  /\ step' = "load_cr3"
  /\ UNCHANGED <<given, entries, outer, inner, memory, flags, mapped>>

load_cr3 ==
  /\ step = "load_cr3"
  /\ step' = "running"
  /\ UNCHANGED <<given, entries, outer, inner, memory, flags, mapped>>

BNext ==
  \/ SortStep \/ FrameInit
  \/ map_bootloader_memory \/ map_framebuffer_memory \/ map_found_memory \/ map_hhdm_memory
  \/ map_kernel_code \/ load_cr3

BSpec == BInit /\ [][BNext]_bvars

-----------------------------------------------------------------------------
\* Once cr3 is loaded, memory and flags of the frame allocator are two regions that
\* full_map has entered.  The one exception is a region full_map leaves out that is
\* no shorter than any usable one left for its place (limine.cc:42, mapper.cc:92).
AllocatorMapped ==
  step = "running" =>
    /\ memory # flags
    /\ \A r \in {memory, flags} :
         \/ r \in mapped
         \/ /\ given[r].type \notin {"usable", "bootloader", "framebuffer"}
            /\ \A q \in Place \ {memory, flags} :
                 given[q].type = "usable" => given[q].length <= given[r].length
=============================================================================
