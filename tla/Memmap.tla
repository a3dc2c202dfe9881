------------------------------- MODULE Memmap -------------------------------
(***************************************************************************)
(* sort_memmap of src/src/kernel/bootloader/limine.cc: the loops that      *)
(* reorder the boot memory map before Frame::init takes its first entry    *)
(* for frames and its second for their flags.  One step is one round of    *)
(* the inner loop.                                                         *)
(***************************************************************************)
EXTENDS Integers, Sequences

CONSTANTS
  Types,    \* types of memory-map entries
  Lengths,  \* lengths of memory-map entries
  Count     \* memmap_entries_count

ASSUME MemmapAssumption ==
  "usable" \in Types /\ Lengths \subseteq Nat /\ Count \in Nat \ {0, 1}

VARIABLES
  given,         \* the map as the bootloader left it
  entries,       \* memmap_entries: the pointers, as places in given
  outer, inner   \* the loop counters i and j, from 1

mvars == <<given, entries, outer, inner>>

Place == 1 .. Count

Type(k) == given[entries[k]].type

Length(k) == given[entries[k]].length

\* Limine's map: at least as many entries as Frame::init reads.
MInit ==
  /\ given \in [Place -> [type : Types, length : Lengths]]
  /\ entries = [k \in Place |-> k]
  /\ outer = 1 /\ inner = 2

\* Mutant: the comparison is turned round.
SwapsLonger == Type(outer) # "usable" /\ Length(outer) > Length(inner)

Swaps == Type(outer) # "usable" /\ Length(outer) < Length(inner)

\* Mutant: the second write of the exchange is lost.
ExchangedOnce == [entries EXCEPT ![outer] = entries[inner]]

Exchanged == [entries EXCEPT ![outer] = entries[inner], ![inner] = entries[outer]]

InnerRound ==
  /\ outer <= Count /\ inner <= Count
  /\ entries' = IF Swaps THEN Exchanged ELSE entries
  /\ inner' = inner + 1
  /\ UNCHANGED <<given, outer>>

OuterRound ==
  /\ outer <= Count /\ inner > Count
  /\ outer' = outer + 1 /\ inner' = outer + 2
  /\ UNCHANGED <<given, entries>>

MNext == InnerRound \/ OuterRound

MSpec == MInit /\ [][MNext]_mvars

Sorted == outer > Count

-----------------------------------------------------------------------------
\* The pointers and counters of the loops stay within the map.
MapTypeOK ==
  /\ entries \in [Place -> Place]
  /\ outer \in 1 .. Count + 1 /\ inner \in 2 .. Count + 2

\* The exchanges lose no region and list none twice, so that the memory and the
\* flags that Frame::init takes are different regions.
KeepsRegions == \A k, l \in Place : entries[k] = entries[l] => k = l

\* What the loops do achieve, at every moment: a place they have passed holds a
\* usable region, or one no shorter than any behind it.
PassedPlacesSettled ==
  \A k \in 1 .. outer - 1 :
    Type(k) = "usable" \/ \A l \in k + 1 .. Count : Length(k) >= Length(l)

\* limine.cc:39, "reverse sort the memory map by usable memory size": in the end
\* usable regions come in order of decreasing length.
UsableDecreasing ==
  Sorted => \A k, l \in Place :
    k < l /\ Type(k) = "usable" /\ Type(l) = "usable" => Length(k) >= Length(l)
=============================================================================
