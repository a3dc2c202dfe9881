---------------------------- MODULE AddressSpace ----------------------------
(* What Mem::Paging promises: a function from virtual pages to what they   *)
(* are mapped to, of which a step changes one place.                       *)
CONSTANTS Virt, Leaf, None

VARIABLE mapped

Init == mapped = [v \in Virt |-> None]

Map(v, e) == mapped' = [mapped EXCEPT ![v] = e]

Unmap(v) == mapped' = [mapped EXCEPT ![v] = None]

Next == \E v \in Virt : Unmap(v) \/ \E e \in Leaf : Map(v, e)

Spec == Init /\ [][Next]_mapped
=============================================================================
