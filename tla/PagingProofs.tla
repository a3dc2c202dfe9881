---------------------------- MODULE PagingProofs ----------------------------
(***************************************************************************)
(* For any set of pages and any number of table frames: the page tables    *)
(* implement a function from pages to mappings, and the TLB is stale only  *)
(* for the page being changed.  The inductive invariant says that the      *)
(* tables are a tree: every table has a level, entries lead one level      *)
(* down, and no two entries lead to the same table.  Then two pages with   *)
(* the same last entry are the same page.                                  *)
(***************************************************************************)
EXTENDS Paging, TLAPS

\* The provers of the leaves that name none.
USE SMTT(30), ZenonT(30)

\* The tables a walk for v passes below pml4, None or Null where it ends.
Third(v) == mem[pml4][v[1]]
Second(v) == Through(Third(v), v[2])
First(v) == Through(Second(v), v[3])

At(v, level) == IF level = 4 THEN pml4
                ELSE IF level = 3 THEN Third(v)
                ELSE IF level = 2 THEN Second(v) ELSE First(v)

\* lev is a level for each table that makes them a tree.
Tree(lev) ==
  /\ lev \in [Table -> 1 .. 4] /\ lev[pml4] = 4
  /\ \A t \in Table, n \in Index :
       /\ lev[t] > 1 => mem[t][n] \in {None, Null} \cup 2 .. tables
       /\ mem[t][n] \in Table => lev[mem[t][n]] = lev[t] - 1
       /\ lev[t] = 1 => mem[t][n] \in Leaf \cup {None}
       /\ t > tables => mem[t][n] = None
  /\ \A t, u \in Table, n, k \in Index :
       mem[t][n] \in Table /\ mem[t][n] = mem[u][k] => t = u /\ n = k

Calls == {"map", "unmap"}

Types ==
  /\ tables \in Table
  /\ mem \in [Table -> [Index -> Table \cup Leaf \cup {None, Null}]]
  /\ active \in BOOLEAN
  /\ tlb \in [Virt -> Leaf \cup {None}]
  /\ op \in [kind : {"idle", "stopped"} \cup Calls, virt : Virt \cup {None},
             leaf : Leaf \cup {None}, level : 0 .. 4, table : 0 .. MaxTables]

\* Where the running call stands.
Standing(lev) ==
  /\ op.kind \in {"idle", "stopped"} => op.level = 0
  /\ op.kind \in Calls => op.virt \in Virt
  /\ op.kind = "map" => op.leaf \in Leaf
  /\ op.kind = "unmap" => op.leaf = None
  /\ op.kind # "stopped" => \A t \in Table, n \in Index : mem[t][n] # Null
  /\ op.level > 0 => /\ op.table \in 1 .. tables /\ lev[op.table] = op.level
                     /\ op.table = At(op.virt, op.level)
  /\ op.kind = "map" /\ op.level = 0 => Translation(op.virt) = op.leaf

\* A stale entry only while a call that wrote the entry is about to flush.
Fresh ==
  \A v \in Virt : tlb[v] # None /\ tlb[v] # Translation(v)
                  => v = op.virt /\ op.level = 0 /\ op.kind \in Calls

TreeInv == Types /\ Fresh /\ \E lev : Tree(lev) /\ Standing(lev)

\* No entry is two things: a table, a leaf, absent, nullptr.
LEMMA Disjoint ==
  /\ 1 \in Table /\ Table \subseteq Nat
  /\ None \notin Table /\ Null \notin Table /\ \A e \in Leaf : e \notin Table
  /\ None \notin Leaf /\ None # Null /\ Null \notin Leaf
BY PagingAssumption DEF Table

\* A page is four table indices.
LEMMA Indices == \A v \in Virt : \A n \in 1 .. 4 : v[n] \in Index
BY PagingAssumption

\* What a walk meets at each level.
LEMMA WalkTypes ==
  ASSUME Types, NEW lev, Tree(lev), NEW v \in Virt
  PROVE  /\ Third(v) \in {None, Null} \cup {t \in 2 .. tables : lev[t] = 3}
         /\ Second(v) \in {None, Null} \cup {t \in 2 .. tables : lev[t] = 2}
         /\ First(v) \in {None, Null} \cup {t \in 2 .. tables : lev[t] = 1}
         /\ Translation(v) \in Leaf \cup {None}
<1> USE Disjoint
<1>1. v[1] \in Index /\ v[2] \in Index /\ v[3] \in Index /\ v[4] \in Index
  BY Indices
<1>2. \A t \in 2 .. tables : t \in Table /\ t \in Nat
  BY PagingAssumption DEF Types, Table
<1>3. pml4 \in Table
  BY DEF pml4
<1>4. Third(v) \in {None, Null} \cup {t \in 2 .. tables : lev[t] = 3}
  <2>1. lev[pml4] = 4
    BY DEF Tree
  <2>2. mem[pml4][v[1]] \in {None, Null} \cup 2 .. tables
    BY <1>1, <1>3, <2>1 DEF Tree
  <2>3. mem[pml4][v[1]] \in Table => lev[mem[pml4][v[1]]] = 3
    BY <1>1, <1>3, <2>1 DEF Tree
  <2> QED  BY <1>2, <2>2, <2>3 DEF Third
<1>5. Second(v) \in {None, Null} \cup {t \in 2 .. tables : lev[t] = 2}
  BY <1>1, <1>2, <1>4 DEF Tree, Second, Through
<1>6. First(v) \in {None, Null} \cup {t \in 2 .. tables : lev[t] = 1}
  BY <1>1, <1>2, <1>5 DEF Tree, First, Through
<1>7. Translation(v) \in Leaf \cup {None}
  <2>1. Translation(v) = Through(First(v), v[4])
    BY DEF Translation, First, Second, Third
  <2> QED  BY <1>1, <1>2, <1>6, <2>1 DEF Tree, Through
<1> QED  BY <1>4, <1>5, <1>6, <1>7

\* Two pages whose walks end in the same place of the same table are one page.
LEMMA SamePage ==
  ASSUME Types, NEW lev, Tree(lev), NEW v \in Virt, NEW w \in Virt,
         First(v) \in Table, First(v) = First(w), v[4] = w[4]
  PROVE  v = w
<1>1. /\ v[1] \in Index /\ v[2] \in Index /\ v[3] \in Index
      /\ w[1] \in Index /\ w[2] \in Index /\ w[3] \in Index
  BY Indices
<1>2. Second(v) \in Table /\ Second(w) \in Table
  BY Disjoint DEF First, Through
<1>3. Third(v) \in Table /\ Third(w) \in Table
  BY <1>2, Disjoint DEF Second, Through
<1>a. \A t, u \in Table, n, k \in Index :
        mem[t][n] \in Table /\ mem[t][n] = mem[u][k] => t = u /\ n = k
  BY DEF Tree
<1>4. v[3] = w[3] /\ Second(v) = Second(w)
  <2>1. First(v) = mem[Second(v)][v[3]] /\ First(w) = mem[Second(w)][w[3]]
    BY <1>2 DEF First, Through
  <2>2. mem[Second(v)][v[3]] \in Table /\ mem[Second(v)][v[3]] = mem[Second(w)][w[3]]
    BY <2>1, Zenon
  <2> QED  BY <1>1, <1>2, <1>a, <2>2
<1>5. v[2] = w[2] /\ Third(v) = Third(w)
  <2>1. Second(v) = mem[Third(v)][v[2]] /\ Second(w) = mem[Third(w)][w[2]]
    BY <1>3 DEF Second, Through
  <2>2. mem[Third(v)][v[2]] \in Table /\ mem[Third(v)][v[2]] = mem[Third(w)][w[2]]
    BY <1>2, <1>4, <2>1, Zenon
  <2> QED  BY <1>1, <1>3, <1>a, <2>2
<1>6. v[1] = w[1]
  <2>1. Third(v) = mem[pml4][v[1]] /\ Third(w) = mem[pml4][w[1]] /\ pml4 \in Table
    BY Disjoint DEF Third, pml4
  <2>2. mem[pml4][v[1]] \in Table /\ mem[pml4][v[1]] = mem[pml4][w[1]]
    BY <1>3, <1>5, <2>1, Zenon
  <2> QED  BY <1>1, <1>a, <2>1, <2>2
<1>7. \A n \in 1 .. 4 : v[n] = w[n]
  BY <1>4, <1>5, <1>6
<1>8. v \in [1 .. 4 -> Index] /\ w \in [1 .. 4 -> Index]
  BY PagingAssumption
<1> QED  BY <1>7, <1>8

\* A leaf written for page v changes the translation of v and of no other page.
LEMMA LeafWrite ==
  ASSUME Types, NEW lev, Tree(lev), NEW v \in Virt, First(v) \in Table, NEW e,
         mem' = [mem EXCEPT ![First(v)][v[4]] = e], NEW w \in Virt
  PROVE  Translation(w)' = IF w = v THEN e ELSE Translation(w)
<1> DEFINE t == First(v)
<1>1. w[1] \in Index /\ w[2] \in Index /\ w[3] \in Index /\ w[4] \in Index /\ v[4] \in Index
  BY Indices
<1>2. \A u \in Table, k \in Index :
        mem'[u][k] = IF u = t /\ k = v[4] THEN e ELSE mem[u][k]
  BY <1>1 DEF Types
<1>3. t \in Table /\ lev[t] = 1
  BY WalkTypes, Disjoint
<1> HIDE DEF t
<1>4. pml4 # t /\ pml4 \in Table
  BY <1>3, Disjoint DEF Tree, pml4
<1>5. Third(w)' = Third(w)
  BY <1>1, <1>2, <1>4 DEF Third, pml4
<1>6. Second(w)' = Second(w)
  <2>1. Third(w) # t
    <3>1. Third(w) \in Table => lev[Third(w)] = 3
      BY WalkTypes, Disjoint
    <3> QED  BY <1>3, <3>1
  <2> QED  BY <1>1, <1>2, <1>5, <2>1 DEF Second, Through
<1>7. First(w)' = First(w)
  <2>1. Second(w) # t
    <3>1. Second(w) \in Table => lev[Second(w)] = 2
      BY WalkTypes, Disjoint
    <3> QED  BY <1>3, <3>1
  <2> QED  BY <1>1, <1>2, <1>6, <2>1 DEF First, Through
<1>8. /\ Translation(w) = IF First(w) \in Table THEN mem[First(w)][w[4]] ELSE None
      /\ Translation(w)' = IF First(w)' \in Table THEN mem'[First(w)'][w[4]] ELSE None
  BY Zenon DEF Translation, First, Second, Third, Through
<1>9. First(w) = t /\ w[4] = v[4] => w = v
  BY <1>3, SamePage DEF t
<1>10. w = v => First(w) = t /\ w[4] = v[4]
  BY DEF t
<1> QED  BY <1>1, <1>2, <1>3, <1>7, <1>8, <1>9, <1>10

\* A table linked above the last level, or nullptr in its place, changes none.
LEMMA LinkWrite ==
  ASSUME Types, NEW lev, Tree(lev), NEW t \in Table, lev[t] > 1, NEW n \in Index,
         mem[t][n] = None, NEW x, x \in Table => x # t /\ \A k \in Index : mem[x][k] = None,
         \A u \in Table, k \in Index :
           mem'[u][k] = IF u = t /\ k = n THEN x ELSE mem[u][k],
         NEW w \in Virt
  PROVE  Translation(w)' = Translation(w)
<1> DEFINE Same(a, b) == b = a \/ (a = None /\ b = x)
<1>1. w[1] \in Index /\ w[2] \in Index /\ w[3] \in Index /\ w[4] \in Index
  BY Indices
<1>2. ASSUME NEW a, NEW b, Same(a, b), NEW k \in Index
      PROVE  Same(IF a \in Table THEN mem[a][k] ELSE None,
                  IF b \in Table THEN mem'[b][k] ELSE None)
  <2>1. CASE b = a
    BY <2>1
  <2>2. CASE a = None /\ b = x
    BY <2>2, Disjoint, Zenon
  <2> QED  BY <1>2, <2>1, <2>2
<1>3. Same(Third(w), Third(w)')
  <2>1. 1 \in Table
    BY Disjoint
  <2> QED  BY <1>1, <2>1 DEF Third, pml4
<1>4. /\ Second(w) = IF Third(w) \in Table THEN mem[Third(w)][w[2]] ELSE None
      /\ Second(w)' = IF Third(w)' \in Table THEN mem'[Third(w)'][w[2]] ELSE None
  BY DEF Second, Third, Through
<1>5. /\ First(w) = IF Second(w) \in Table THEN mem[Second(w)][w[3]] ELSE None
      /\ First(w)' = IF Second(w)' \in Table THEN mem'[Second(w)'][w[3]] ELSE None
  BY DEF First, Second, Third, Through
<1>6. /\ Translation(w) = IF First(w) \in Table THEN mem[First(w)][w[4]] ELSE None
      /\ Translation(w)' = IF First(w)' \in Table THEN mem'[First(w)'][w[4]] ELSE None
  BY DEF Translation, First, Second, Third, Through
<1>7. First(w) # t
  <2>1. First(w) \in Table => lev[First(w)] = 1
    BY WalkTypes, Disjoint
  <2> QED  BY <2>1
<1> HIDE DEF Same
<1>8. Same(Second(w), Second(w)')
  BY <1>1, <1>2, <1>3, <1>4
<1>9. Same(First(w), First(w)')
  BY <1>1, <1>2, <1>5, <1>8
<1>10. CASE First(w)' = First(w)
  BY <1>1, <1>6, <1>7, <1>10
<1>11. CASE First(w) = None /\ First(w)' = x
  BY <1>1, <1>6, <1>11, Disjoint, ZenonT(30)
<1> QED  BY <1>9, <1>10, <1>11 DEF Same

-----------------------------------------------------------------------------
\* pml4 alone, all zero, is a tree.
LEMMA InitTree == Init => TreeInv
<1> SUFFICES ASSUME Init PROVE TreeInv
  OBVIOUS
<1> USE Disjoint DEF Init
<1>1. Types
  <2>1. tables \in Table /\ active \in BOOLEAN
    BY Zenon
  <2>2. mem \in [Table -> [Index -> Table \cup Leaf \cup {None, Null}]]
    BY DEF Zeroed
  <2>3. tlb \in [Virt -> Leaf \cup {None}]
    BY DEF NoTlb
  <2>4. 0 \in 0 .. MaxTables
    BY PagingAssumption
  <2>5. op \in [kind : {"idle", "stopped"} \cup Calls, virt : Virt \cup {None},
                leaf : Leaf \cup {None}, level : 0 .. 4, table : 0 .. MaxTables]
    BY <2>4 DEF Idle
  <2> QED  BY <2>1, <2>2, <2>3, <2>5 DEF Types
<1>2. Fresh
  BY DEF Fresh, NoTlb
<1> DEFINE lev == [t \in Table |-> 4]
<1>3. Tree(lev)
  BY DEF Tree, Zeroed, pml4
<1>4. Standing(lev)
  BY DEF Standing, Idle, Calls, Zeroed
<1> QED  BY <1>1, <1>2, <1>3, <1>4 DEF TreeInv

\* Steps that leave the tables alone leave every walk alone.
LEMMA TablesKept ==
  ASSUME UNCHANGED <<mem, tables>>
  PROVE  /\ \A lev : Tree(lev) => Tree(lev)'
         /\ \A v : Translation(v)' = Translation(v)
         /\ \A v, level : At(v, level)' = At(v, level)
<1>1. \A lev : Tree(lev) => Tree(lev)'
  BY DEF Tree
<1>2. \A v : Translation(v)' = Translation(v)
  BY DEF Translation, Through
<1>3. \A v, level : At(v, level)' = At(v, level)
  BY DEF At, Third, Second, First, Through
<1> QED  BY <1>1, <1>2, <1>3

\* A call begins at pml4.
LEMMA BeginKeeps ==
  ASSUME TreeInv, NEW v \in Virt, NEW kind \in Calls, NEW e,
         kind = "map" => e \in Leaf, kind = "unmap" => e = None, Begin(kind, v, e)
  PROVE  TreeInv'
<1> USE DEF Begin
<1>1. PICK lev : Tree(lev) /\ Standing(lev)
  BY DEF TreeInv
<1>2. Types'
  BY Disjoint DEF TreeInv, Types, Calls, pml4, Table
<1>3. Fresh'
  BY TablesKept DEF TreeInv, Fresh, Idle, Calls
<1>4. Tree(lev)'
  BY <1>1, TablesKept
<1>5. Standing(lev)'
  BY <1>1, PagingAssumption DEF TreeInv, Types, Table, Standing, Idle, Tree, At, pml4, Calls
<1> QED  BY <1>2, <1>3, <1>4, <1>5 DEF TreeInv

\* The entry the call stands at is the next step of the processor's own walk.
LEMMA EntryIsNext ==
  ASSUME TreeInv, NEW lev, Tree(lev), Standing(lev), op.level > 0
  PROVE  /\ op.kind \in Calls /\ op.virt \in Virt /\ op.level \in 1 .. 4
         /\ op.table \in Table /\ op.table \in 1 .. tables /\ lev[op.table] = op.level
         /\ PmlIndex(op.virt, op.level) \in Index
         /\ op.level > 1 => Entry \in {None} \cup {t \in 2 .. tables : lev[t] = op.level - 1}
         /\ op.level > 1 /\ Entry # None => Entry = At(op.virt, op.level - 1)
         /\ op.level = 1 => op.table = First(op.virt) /\ Entry = Translation(op.virt)
<1>1. op.kind \in Calls /\ op.virt \in Virt /\ op.level \in 1 .. 4
  BY DEF TreeInv, Types, Standing, Calls
<1>2. op.table \in 1 .. tables /\ op.table \in Table /\ lev[op.table] = op.level
  BY PagingAssumption DEF TreeInv, Types, Standing, Table
<1>3. PmlIndex(op.virt, op.level) \in Index
  BY <1>1, Indices DEF PmlIndex
<1>4. op.table = At(op.virt, op.level)
  BY DEF Standing
<1>5. Entry # Null
  BY <1>1, <1>2, <1>3 DEF Standing, Entry, Calls
<1>6. op.level > 1 => Entry \in {None} \cup {t \in 2 .. tables : lev[t] = op.level - 1}
  <2> SUFFICES ASSUME op.level > 1
               PROVE  Entry \in {None} \cup {t \in 2 .. tables : lev[t] = op.level - 1}
    OBVIOUS
  <2>1. Entry \in {None, Null} \cup 2 .. tables
    BY <1>2, <1>3 DEF Entry, Tree
  <2>2. Entry \in Table => lev[Entry] = op.level - 1
    BY <1>2, <1>3 DEF Entry, Tree
  <2>3. \A t \in 2 .. tables : t \in Table
    BY PagingAssumption DEF TreeInv, Types, Table
  <2> QED  BY <1>5, <2>1, <2>2, <2>3
<1>7. op.level > 1 => Entry = At(op.virt, op.level - 1)
  <2>1. CASE op.level = 4
    BY <1>4, <2>1 DEF Entry, At, PmlIndex, Third
  <2>2. CASE op.level = 3
    BY <1>2, <1>4, <2>2 DEF Entry, At, PmlIndex, Second, Through
  <2>3. CASE op.level = 2
    BY <1>2, <1>4, <2>3 DEF Entry, At, PmlIndex, First, Through
  <2> QED  BY <1>1, <2>1, <2>2, <2>3
<1>8. op.level = 1 => op.table = First(op.virt) /\ Entry = Translation(op.virt)
  <2>1. Translation(op.virt) = Through(First(op.virt), op.virt[4])
    BY DEF Translation, First, Second, Third
  <2> QED  BY <1>2, <1>4, <2>1 DEF Entry, At, PmlIndex, Through
<1> QED  BY <1>1, <1>2, <1>3, <1>6, <1>7, <1>8

\* The call follows an entry one level down.
LEMMA DescendKeeps == ASSUME TreeInv, Descend PROVE TreeInv'
<1> USE DEF Descend, Down
<1>1. PICK lev : Tree(lev) /\ Standing(lev)
  BY DEF TreeInv
<1>2. op.level > 0
  BY DEF TreeInv, Types
<1>3. /\ op.kind \in Calls /\ op.virt \in Virt /\ op.level \in 2 .. 4
      /\ Entry \in {t \in 2 .. tables : lev[t] = op.level - 1}
      /\ Entry = At(op.virt, op.level - 1)
  BY <1>1, <1>2, EntryIsNext
<1>4. op' = [op EXCEPT !.level = op.level - 1, !.table = Entry]
  OBVIOUS
<1>5. Types'
  <2>1. op.level - 1 \in 0 .. 4 /\ Entry \in 0 .. MaxTables
    BY <1>3, PagingAssumption DEF TreeInv, Types, Table
  <2>2. op' \in [kind : {"idle", "stopped"} \cup Calls, virt : Virt \cup {None},
                 leaf : Leaf \cup {None}, level : 0 .. 4, table : 0 .. MaxTables]
    BY <1>4, <2>1, Zenon DEF TreeInv, Types
  <2> QED  BY <2>2 DEF TreeInv, Types
<1> DEFINE o == op'
<1>6. /\ o.kind = op.kind /\ o.virt = op.virt /\ o.leaf = op.leaf
      /\ o.level = op.level - 1 /\ o.table = Entry
  BY <1>4 DEF TreeInv, Types
<1> HIDE DEF o
<1>7. Fresh'
  <2>1. \A v \in Virt : tlb[v] = None \/ tlb[v] = Translation(v)
    BY <1>2 DEF TreeInv, Fresh
  <2>2. \A v \in Virt : Translation(v)' = Translation(v) /\ tlb' = tlb
    BY TablesKept
  <2> QED  BY <2>1, <2>2 DEF Fresh
<1>8. Tree(lev)'
  BY <1>1, TablesKept
<1>9. Standing(lev)'
  <2>2. Standing(lev)
    BY <1>1
  <2>3. o.table \in 1 .. tables /\ lev[o.table] = o.level /\ o.level \in 1 .. 3
    BY <1>3, <1>6 DEF TreeInv, Types, Table
  <2>4. o.table = IF o.level = 4 THEN pml4
                  ELSE IF o.level = 3 THEN Third(op.virt)
                  ELSE IF o.level = 2 THEN Second(op.virt) ELSE First(op.virt)
    BY <1>3, <1>6 DEF At
  <2>5. o.table = At(op.virt, op.level)'
    BY <1>6, <2>4, Zenon DEF o, At, Third, Second, First, Through
  <2> QED  BY <1>3, <1>6, <2>2, <2>3, <2>5 DEF Standing, o, Calls
<1> QED  BY <1>5, <1>7, <1>8, <1>9 DEF TreeInv

\* unmap returns at a missing level.
LEMMA AbsentKeeps == ASSUME TreeInv, Absent PROVE TreeInv'
<1> USE DEF Absent
<1>1. PICK lev : Tree(lev) /\ Standing(lev)
  BY DEF TreeInv
<1>2. 0 \in 0 .. MaxTables
  BY PagingAssumption
<1>3. Types'
  BY <1>2 DEF TreeInv, Types, Idle
<1>4. Fresh'
  <2>1. \A v \in Virt : tlb[v] = None \/ tlb[v] = Translation(v)
    BY DEF TreeInv, Fresh, Types
  <2> QED  BY <2>1, TablesKept DEF Fresh
<1>5. Tree(lev)'
  BY <1>1, TablesKept
<1>6. Standing(lev)'
  BY <1>1 DEF Standing, Idle, Calls
<1> QED  BY <1>3, <1>4, <1>5, <1>6 DEF TreeInv

\* The flush ends the call and empties the TLB.
LEMMA FlushKeeps == ASSUME TreeInv, flush_tlb PROVE TreeInv'
<1> USE DEF flush_tlb
<1>1. PICK lev : Tree(lev) /\ Standing(lev)
  BY DEF TreeInv
<1>2. 0 \in 0 .. MaxTables
  BY PagingAssumption
<1>3. Types'
  BY <1>2 DEF TreeInv, Types, Idle, NoTlb
<1>4. Fresh'
  BY DEF Fresh, NoTlb
<1>5. Tree(lev)'
  BY <1>1, TablesKept
<1>6. Standing(lev)'
  BY <1>1 DEF Standing, Idle, Calls
<1> QED  BY <1>3, <1>4, <1>5, <1>6 DEF TreeInv

\* Steps that leave tables and call alone leave the call where it stands.
LEMMA StandingKept ==
  ASSUME UNCHANGED <<mem, tables, op>>, NEW lev, Standing(lev)
  PROVE  Standing(lev)'
BY Zenon DEF Standing, At, Third, Second, First, Translation, Through

\* The processor fills its TLB from the tables; cr3 is loaded.
LEMMA ProcessorKeeps ==
  ASSUME TreeInv, load_cr3 \/ \E v \in Virt : Fill(v)
  PROVE  TreeInv'
<1>1. PICK lev : Tree(lev) /\ Standing(lev)
  BY DEF TreeInv
<1>2. UNCHANGED <<mem, tables, op>>
  BY DEF load_cr3, Fill
<1>3. Tree(lev)' /\ Standing(lev)'
  BY <1>1, <1>2, TablesKept, StandingKept
<1>4. CASE load_cr3
  <2>1. Types'
    BY <1>2, <1>4 DEF load_cr3, TreeInv, Types, NoTlb
  <2>2. Fresh'
    BY <1>4 DEF load_cr3, Fresh, NoTlb
  <2> QED  BY <1>3, <2>1, <2>2 DEF TreeInv
<1>5. ASSUME NEW v \in Virt, Fill(v) PROVE TreeInv'
  <2>1. Translation(v) \in Leaf \cup {None}
    BY <1>1, WalkTypes DEF TreeInv
  <2>2. Types'
    BY <1>2, <1>5, <2>1 DEF Fill, TreeInv, Types
  <2>3. \A w \in Virt : Translation(w)' = Translation(w)
    BY <1>2, TablesKept
  <2>4. Fresh'
    BY <1>2, <1>5, <2>3 DEF Fill, TreeInv, Types, Fresh
  <2> QED  BY <1>3, <2>2, <2>4 DEF TreeInv
<1> QED  BY <1>4, <1>5

\* map links a zeroed table: the tree grows by a leaf of its own.
LEMMA ExtendKeeps ==
  ASSUME TreeInv, Extend
  PROVE  TreeInv' /\ \A w \in Virt : Translation(w)' = Translation(w)
<1> DEFINE t == op.table
           n == PmlIndex(op.virt, op.level)
           x == tables + 1
<1>1. PICK lev : Tree(lev) /\ Standing(lev)
  BY DEF TreeInv
<1>2. op.level > 1 /\ op.level > 0
  BY DEF Extend, TreeInv, Types
<1>3. /\ op.kind \in Calls /\ op.virt \in Virt /\ op.level \in 2 .. 4
      /\ t \in Table /\ t \in 1 .. tables /\ lev[t] = op.level /\ n \in Index
  BY <1>1, <1>2, EntryIsNext
<1>4. mem[t][n] = None
  BY DEF Extend, Entry
<1>5. x \in Table /\ x # t /\ x \in Nat /\ x > tables /\ x # pml4
  BY <1>3, PagingAssumption DEF Extend, TreeInv, Types, Table, pml4
<1>6. \A k \in Index : mem[x][k] = None
  BY <1>1, <1>5 DEF Tree
<1>7. mem' \in [Table -> [Index -> Table \cup Leaf \cup {None, Null}]]
  BY <1>3, <1>5, Zenon DEF Extend, TreeInv, Types, Zeroed
<1>8. \A u \in Table, k \in Index :
        mem'[u][k] = IF u = t /\ k = n THEN x ELSE mem[u][k]
  BY <1>3, <1>5, <1>6 DEF Extend, TreeInv, Types, Zeroed
<1>9. /\ tables' = x /\ tlb' = tlb /\ active' = active
      /\ op' = [op EXCEPT !.level = op.level - 1, !.table = x]
  BY DEF Extend, Down
<1>o. op \in [kind : {"idle", "stopped"} \cup Calls, virt : Virt \cup {None},
              leaf : Leaf \cup {None}, level : 0 .. 4, table : 0 .. MaxTables]
  BY DEF TreeInv, Types
<1> HIDE DEF t, n, x
<1>10. \A w \in Virt : Translation(w)' = Translation(w)
  <2>1. Types
    BY DEF TreeInv
  <2> QED  BY <1>1, <1>2, <1>3, <1>4, <1>5, <1>6, <1>8, <2>1, LinkWrite
<1>11. Types'
  <2>1. op.level - 1 \in 0 .. 4 /\ x \in 0 .. MaxTables
    BY <1>3, <1>5, PagingAssumption DEF Table
  <2>2. op' \in [kind : {"idle", "stopped"} \cup Calls, virt : Virt \cup {None},
                 leaf : Leaf \cup {None}, level : 0 .. 4, table : 0 .. MaxTables]
    BY <1>9, <1>o, <2>1, Zenon
  <2>3. active' \in BOOLEAN /\ tlb' \in [Virt -> Leaf \cup {None}]
    BY <1>9 DEF TreeInv, Types
  <2> QED  BY <1>5, <1>7, <1>9, <2>2, <2>3 DEF Types
<1>12. Fresh'
  <2>1. \A v \in Virt : tlb[v] = None \/ tlb[v] = Translation(v)
    BY <1>2 DEF TreeInv, Fresh
  <2> QED  BY <1>9, <1>10, <2>1 DEF Fresh
<1>a. PICK lv : lv = [lev EXCEPT ![x] = op.level - 1]
  BY Zenon
<1>13. /\ lv \in [Table -> 1 .. 4] /\ lv[pml4] = 4 /\ lv[x] = op.level - 1 /\ lv[t] = op.level
       /\ \A u \in Table : u # x => lv[u] = lev[u]
  <2>1. lev \in [Table -> 1 .. 4] /\ lev[pml4] = 4
    BY <1>1 DEF Tree
  <2>2. pml4 \in Table
    BY Disjoint DEF pml4
  <2> QED  BY <1>3, <1>5, <1>a, <2>1, <2>2
<1>14. Tree(lv)'
  <2>1. tables \in Nat /\ 2 .. tables \subseteq 2 .. x /\ x \in 2 .. x /\ x = tables + 1
    BY <1>5, PagingAssumption DEF TreeInv, Types, Table, x
  <2>2. ASSUME NEW u \in Table, NEW k \in Index
        PROVE  /\ lv[u] > 1 => mem'[u][k] \in {None, Null} \cup 2 .. x
               /\ mem'[u][k] \in Table => lv[mem'[u][k]] = lv[u] - 1
               /\ lv[u] = 1 => mem'[u][k] \in Leaf \cup {None}
               /\ u > x => mem'[u][k] = None
    <3>1. CASE u = t /\ k = n
      BY <1>2, <1>3, <1>5, <1>8, <1>13, <2>1, <3>1
    <3>2. CASE u = x
      BY <1>3, <1>5, <1>6, <1>8, <2>1, <3>2, Disjoint
    <3>3. CASE u # x /\ ~ (u = t /\ k = n)
      <4>1. mem'[u][k] = mem[u][k] /\ lv[u] = lev[u] /\ lev[u] \in 1 .. 4
        BY <1>1, <1>8, <1>13, <3>3 DEF Tree
      <4>2. /\ lev[u] > 1 => mem[u][k] \in {None, Null} \cup 2 .. tables
            /\ mem[u][k] \in Table => lev[mem[u][k]] = lev[u] - 1
            /\ lev[u] = 1 => mem[u][k] \in Leaf \cup {None}
            /\ u > tables => mem[u][k] = None
        BY <1>1 DEF Tree
      <4>3. mem[u][k] \in Table => mem[u][k] # x
        <5>1. mem[u][k] \in Table => mem[u][k] \in 2 .. tables
          BY <4>1, <4>2, Disjoint
        <5> QED  BY <5>1, <1>5, <2>1
      <4>4. u > x => u > tables
        BY <2>1, Disjoint
      <4> QED  BY <1>13, <2>1, <4>1, <4>2, <4>3, <4>4
    <3> QED  BY <3>1, <3>2, <3>3
  <2>3. ASSUME NEW u \in Table, NEW y \in Table, NEW j \in Index, NEW k \in Index,
               mem'[u][j] \in Table, mem'[u][j] = mem'[y][k]
        PROVE  u = y /\ j = k
    <3>1. \A z \in Table, i \in Index : mem[z][i] # x
      <4> TAKE z \in Table, i \in Index
      <4>1. x \notin {None, Null} \cup 2 .. tables
        BY <1>5, <2>1, Disjoint
      <4>2. x \notin Leaf \cup {None}
        BY <1>5, Disjoint
      <4>3. lev[z] > 1 \/ lev[z] = 1
        BY <1>1 DEF Tree
      <4> QED  BY <1>1, <4>1, <4>2, <4>3 DEF Tree
    <3>2. mem[u][j] \in Table /\ mem[u][j] = mem[y][k] => u = y /\ j = k
      BY <1>1 DEF Tree
    <3> QED  BY <1>8, <2>3, <3>1, <3>2
  <2> QED  BY <1>9, <1>13, <2>2, <2>3 DEF Tree, pml4
<1>15. Standing(lv)'
  <2>1. PICK v \in Virt : v = op.virt
    BY <1>3
  <2>2. PICK l \in 2 .. 4 : l = op.level
    BY <1>3
  <2>3. t = At(v, l) /\ n = v[5 - l]
    BY <1>1, <1>2, <2>1, <2>2 DEF Standing, t, n, PmlIndex
  <2>4. pml4 \in Table /\ lev[pml4] = 4 /\ lev[t] = l
    BY <1>1, <1>3, <2>2, Disjoint DEF Tree, pml4
  <2>5. v[1] \in Index /\ v[2] \in Index /\ v[3] \in Index
    BY Indices
  <2>6. At(v, l - 1)' = x
    <3>1. CASE l = 4
      <4>1. mem'[pml4][v[1]] = x
        BY <1>8, <2>3, <2>4, <2>5, <3>1 DEF At
      <4> QED  BY <3>1, <4>1 DEF At, Third, pml4
    <3>2. CASE l = 3
      <4>1. t = Third(v) /\ n = v[2] /\ pml4 # t
        BY <2>3, <2>4, <3>2 DEF At
      <4>2. Third(v)' = t
        BY <1>8, <2>4, <2>5, <4>1 DEF Third, pml4
      <4>3. Second(v)' = mem'[t][v[2]]
        BY <1>3, <4>2 DEF Second, Through
      <4> QED  BY <1>3, <1>8, <3>2, <4>1, <4>3 DEF At
    <3>3. CASE l = 2
      <4>1. t = Second(v) /\ n = v[3] /\ pml4 # t
        BY <2>3, <2>4, <3>3 DEF At
      <4>2. Third(v) \in Table /\ t = mem[Third(v)][v[2]]
        BY <1>3, <4>1, Disjoint DEF Second, Through
      <4>3. Third(v) # t
        <5>1. Types
          BY DEF TreeInv
        <5>2. lev[Third(v)] = 3
          BY <1>1, <4>2, <5>1, WalkTypes, Disjoint
        <5> QED  BY <2>4, <3>3, <5>2
      <4>4. Third(v)' = Third(v)
        BY <1>8, <2>4, <2>5, <4>1 DEF Third, pml4
      <4>5. mem'[Third(v)][v[2]] = t
        BY <1>8, <2>5, <4>2, <4>3
      <4>6. Second(v)' = t
        BY <4>2, <4>4, <4>5 DEF Second, Through
      <4>7. First(v)' = mem'[t][v[3]]
        BY <1>3, <4>6 DEF First, Through
      <4> QED  BY <1>3, <1>8, <3>3, <4>1, <4>7 DEF At
    <3> QED  BY <3>1, <3>2, <3>3
  <2>7. /\ op'.kind = op.kind /\ op'.virt = v /\ op'.leaf = op.leaf
        /\ op'.level = l - 1 /\ op'.table = x
    BY <1>9, <1>o, <2>1, <2>2
  <2>8. op'.kind # "stopped" => \A u \in Table, k \in Index : mem'[u][k] # Null
    <3>1. \A u \in Table, k \in Index : mem[u][k] # Null
      BY <1>1, <1>3 DEF Standing, Calls
    <3> QED  BY <1>5, <1>8, <3>1, Disjoint
  <2>9. op'.table = At(op.virt, op.level)'
    BY <2>6, <2>7, Zenon DEF At, Third, Second, First, Through
  <2>10. x \in 1 .. tables' /\ lv[x] = l - 1 /\ l - 1 > 0 /\ l - 1 # 0
    BY <1>5, <1>9, <1>13, <2>2 DEF Table
  <2>11. /\ op.kind = "map" => op.leaf \in Leaf
         /\ op.kind = "unmap" => op.leaf = None
    BY <1>1 DEF Standing
  <2> QED  BY <1>3, <2>7, <2>8, <2>9, <2>10, <2>11 DEF Standing, Calls
<1> QED  BY <1>10, <1>11, <1>12, <1>14, <1>15 DEF TreeInv

\* A place of a table that gets no table as its entry leaves the tree a tree.
LEMMA EntryKeepsTree ==
  ASSUME Types, NEW lev, Tree(lev), NEW t \in Table, NEW n \in Index, NEW x,
         lev[t] > 1 => x = Null, lev[t] = 1 => x \in Leaf \cup {None}, t \in 1 .. tables,
         tables' = tables,
         \A u \in Table, k \in Index :
           mem'[u][k] = IF u = t /\ k = n THEN x ELSE mem[u][k]
  PROVE  Tree(lev)'
<1>1. lev[t] \in 1 .. 4 /\ x \notin Table /\ tables \in Nat /\ ~ (t > tables)
  BY Disjoint DEF Tree, Types, Table
<1>2. ASSUME NEW u \in Table, NEW k \in Index
      PROVE  /\ lev[u] > 1 => mem'[u][k] \in {None, Null} \cup 2 .. tables
             /\ mem'[u][k] \in Table => lev[mem'[u][k]] = lev[u] - 1
             /\ lev[u] = 1 => mem'[u][k] \in Leaf \cup {None}
             /\ u > tables => mem'[u][k] = None
  <2>1. CASE u = t /\ k = n
    BY <1>1, <2>1
  <2>2. CASE ~ (u = t /\ k = n)
    BY <2>2 DEF Tree
  <2> QED  BY <2>1, <2>2
<1>3. ASSUME NEW u \in Table, NEW y \in Table, NEW j \in Index, NEW k \in Index,
             mem'[u][j] \in Table, mem'[u][j] = mem'[y][k]
      PROVE  u = y /\ j = k
  <2>1. mem[u][j] = mem'[u][j] /\ mem[y][k] = mem'[y][k]
    BY <1>1, <1>3, Zenon
  <2>2. \A a, b \in Table, c, d \in Index :
          mem[a][c] \in Table /\ mem[a][c] = mem[b][d] => a = b /\ c = d
    BY Zenon DEF Tree
  <2>3. mem[u][j] \in Table /\ mem[u][j] = mem[y][k]
    BY <1>3, <2>1
  <2> QED  BY <2>2, <2>3
<1>4. lev \in [Table -> 1 .. 4] /\ lev[pml4] = 4
  BY DEF Tree
<1> QED  BY <1>2, <1>3, <1>4 DEF Tree, pml4

\* map links nullptr, which no walk gets through.
LEMMA OutOfFramesKeeps ==
  ASSUME TreeInv, OutOfFrames
  PROVE  TreeInv' /\ \A w \in Virt : Translation(w)' = Translation(w)
<1> DEFINE t == op.table
           n == PmlIndex(op.virt, op.level)
<1>1. PICK lev : Tree(lev) /\ Standing(lev)
  BY DEF TreeInv
<1>2. op.level > 1 /\ op.level > 0 /\ Types
  BY DEF OutOfFrames, TreeInv, Types
<1>3. t \in Table /\ t \in 1 .. tables /\ lev[t] = op.level /\ n \in Index
  BY <1>1, <1>2, EntryIsNext
<1>4. mem[t][n] = None
  BY DEF OutOfFrames, Entry
<1>5. mem' \in [Table -> [Index -> Table \cup Leaf \cup {None, Null}]]
  BY <1>3 DEF OutOfFrames, TreeInv, Types
<1>6. \A u \in Table, k \in Index :
        mem'[u][k] = IF u = t /\ k = n THEN Null ELSE mem[u][k]
  BY <1>3 DEF OutOfFrames, TreeInv, Types
<1>7. tables' = tables /\ tlb' = tlb /\ active' = active /\ op' = Stopped
  BY DEF OutOfFrames
<1> HIDE DEF t, n
<1>8. \A w \in Virt : Translation(w)' = Translation(w)
  BY <1>1, <1>2, <1>3, <1>4, <1>6, LinkWrite, Disjoint
<1>9. Types'
  <2>1. op' \in [kind : {"idle", "stopped"} \cup Calls, virt : Virt \cup {None},
                 leaf : Leaf \cup {None}, level : 0 .. 4, table : 0 .. MaxTables]
    <3>1. 0 \in 0 .. MaxTables
      BY PagingAssumption
    <3> QED  BY <1>7, <3>1 DEF Stopped, Idle
  <2>2. active' \in BOOLEAN /\ tlb' \in [Virt -> Leaf \cup {None}] /\ tables' \in Table
    BY <1>2, <1>7 DEF Types
  <2> QED  BY <1>5, <2>1, <2>2 DEF Types
<1>10. Fresh'
  <2>1. \A v \in Virt : tlb[v] = None \/ tlb[v] = Translation(v)
    BY <1>2 DEF TreeInv, Fresh
  <2> QED  BY <1>7, <1>8, <2>1 DEF Fresh
<1>11. Tree(lev)'
  <2>1. lev[t] # 1
    BY <1>2, <1>3 DEF Types
  <2> QED  BY <1>1, <1>2, <1>3, <1>6, <1>7, <2>1, EntryKeepsTree
<1>12. Standing(lev)'
  BY <1>7 DEF Standing, Stopped, Idle, Calls
<1> QED  BY <1>8, <1>9, <1>10, <1>11, <1>12 DEF TreeInv

\* The entry of the call's page, and no other page's, is written.
LEMMA WriteLeafKeeps ==
  ASSUME TreeInv, WriteLeaf
  PROVE  /\ TreeInv'
         /\ op.kind \in Calls /\ op.virt \in Virt
         /\ op.kind = "map" => op.leaf \in Leaf
         /\ op.kind = "unmap" => op.leaf = None
         /\ \A w \in Virt :
              Translation(w)' = IF w = op.virt THEN op.leaf ELSE Translation(w)
<1>1. PICK lev : Tree(lev) /\ Standing(lev)
  BY DEF TreeInv
<1>2. op.level = 1 /\ op.level > 0 /\ Types
  BY DEF WriteLeaf, TreeInv
<1>3. /\ op.kind \in Calls /\ op.virt \in Virt /\ Entry = Translation(op.virt)
      /\ op.table = First(op.virt) /\ op.table \in Table /\ op.table \in 1 .. tables
      /\ lev[op.table] = 1
  BY <1>1, <1>2, EntryIsNext
<1>4. /\ op.kind = "map" => op.leaf \in Leaf
      /\ op.kind = "unmap" => op.leaf = None
  BY <1>1 DEF Standing
<1>5. PICK v \in Virt : v = op.virt
  BY <1>3
<1>6. PICK e \in Leaf \cup {None} : e = op.leaf
  BY <1>3, <1>4 DEF Calls
<1>7. PICK t \in Table : t = op.table
  BY <1>3
<1>8. v[4] \in Index /\ PmlIndex(op.virt, 1) = v[4]
  BY <1>5, Indices DEF PmlIndex
<1>9. mem' = [mem EXCEPT ![t][v[4]] = e] /\ t = First(v)
  BY <1>3, <1>5, <1>6, <1>7, <1>8, Zenon DEF WriteLeaf
<1>10. \A w \in Virt : Translation(w)' = IF w = v THEN e ELSE Translation(w)
  BY <1>1, <1>2, <1>9, LeafWrite, Zenon
<1>11. \A u \in Table, k \in Index :
         mem'[u][k] = IF u = t /\ k = v[4] THEN e ELSE mem[u][k]
  BY <1>2, <1>8, <1>9 DEF Types
<1>12. tables' = tables /\ tlb' = tlb /\ active' = active
  BY DEF WriteLeaf
<1>13. Tree(lev)'
  BY <1>1, <1>2, <1>3, <1>7, <1>8, <1>11, <1>12, EntryKeepsTree
<1>14. op' = Idle \/ op' = [op EXCEPT !.level = 0]
  BY DEF WriteLeaf
<1>15. Types'
  <2>1. mem' \in [Table -> [Index -> Table \cup Leaf \cup {None, Null}]]
    BY <1>2, <1>8, <1>9 DEF Types
  <2>2. 0 \in 0 .. MaxTables
    BY PagingAssumption
  <2>3. op' \in [kind : {"idle", "stopped"} \cup Calls, virt : Virt \cup {None},
                 leaf : Leaf \cup {None}, level : 0 .. 4, table : 0 .. MaxTables]
    BY <1>2, <1>14, <2>2 DEF Types, Idle
  <2> QED  BY <1>2, <1>12, <2>1, <2>3 DEF Types
<1>16. Fresh'
  <2>1. \A w \in Virt : tlb[w] = None \/ tlb[w] = Translation(w)
    BY <1>2 DEF TreeInv, Fresh
  <2>2. CASE Flushes
    <3>1. op'.virt = v /\ op'.level = 0 /\ op'.kind \in Calls
      BY <1>2, <1>3, <1>5, <2>2 DEF WriteLeaf, Types
    <3> QED  BY <1>10, <1>12, <2>1, <3>1 DEF Fresh
  <2>3. CASE ~ Flushes
    <3>1. Translation(v) = None
      BY <1>3, <1>5, <2>3 DEF Flushes
    <3> QED  BY <1>10, <1>12, <2>1, <3>1 DEF Fresh
  <2> QED  BY <2>2, <2>3
<1>17. Standing(lev)'
  <2>1. \A u \in Table, k \in Index : mem'[u][k] # Null
    <3>1. \A u \in Table, k \in Index : mem[u][k] # Null
      BY <1>1, <1>3 DEF Standing, Calls
    <3> QED  BY <1>6, <1>11, <3>1, Disjoint
  <2>2. CASE op' = Idle
    BY <2>1, <2>2 DEF Standing, Idle, Calls
  <2>3. CASE op' = [op EXCEPT !.level = 0]
    <3>1. op'.kind = op.kind /\ op'.virt = v /\ op'.leaf = e /\ op'.level = 0
      BY <1>2, <1>5, <1>6, <2>3 DEF Types
    <3>2. Translation(v)' = e
      BY <1>10
    <3>3. Translation(op.virt)' = op'.leaf
      BY <3>1, <3>2, Zenon DEF Translation, Through
    <3> QED  BY <1>3, <1>4, <1>6, <2>1, <3>1, <3>3 DEF Standing, Calls
  <2> QED  BY <1>14, <2>2, <2>3
<1>18. \A w \in Virt : Translation(w)' = IF w = op.virt THEN op.leaf ELSE Translation(w)
  BY <1>5, <1>6, <1>10
<1>19. TreeInv'
  BY <1>13, <1>15, <1>16, <1>17 DEF TreeInv
<1> QED  BY <1>3, <1>4, <1>18, <1>19

\* Every step keeps the tree, and only WriteLeaf changes a translation.
LEMMA StepTree ==
  ASSUME TreeInv, [Next]_vars
  PROVE  /\ TreeInv'
         /\ WriteLeaf \/ \A w \in Virt : Translation(w)' = Translation(w)
<1>1. CASE UNCHANGED vars
  <2>1. UNCHANGED <<mem, tables, op>> /\ UNCHANGED <<active, tlb>>
    BY <1>1 DEF vars
  <2>2. PICK lev : Tree(lev) /\ Standing(lev)
    BY DEF TreeInv
  <2>3. Tree(lev)' /\ Standing(lev)'
    BY <2>1, <2>2, TablesKept, StandingKept
  <2>4. \A w \in Virt : Translation(w)' = Translation(w)
    BY <2>1, TablesKept
  <2>5. Types' /\ Fresh'
    BY <2>1, <2>4 DEF TreeInv, Types, Fresh
  <2> QED  BY <2>3, <2>4, <2>5 DEF TreeInv
<1>2. ASSUME NEW v \in Virt, unmap(v)
      PROVE  TreeInv' /\ \A w \in Virt : Translation(w)' = Translation(w)
  <2>1. TreeInv'
    BY <1>2, BeginKeeps DEF unmap, Calls
  <2> QED  BY <1>2, <2>1, TablesKept DEF unmap, Begin
<1>3. ASSUME NEW v \in Virt, NEW e \in Leaf, map(v, e)
      PROVE  TreeInv' /\ \A w \in Virt : Translation(w)' = Translation(w)
  <2>1. TreeInv'
    BY <1>3, BeginKeeps DEF map, Calls
  <2> QED  BY <1>3, <2>1, TablesKept DEF map, Begin
<1>4. ASSUME load_cr3 \/ \E v \in Virt : Fill(v)
      PROVE  TreeInv' /\ \A w \in Virt : Translation(w)' = Translation(w)
  <2>1. UNCHANGED <<mem, tables>>
    BY <1>4 DEF load_cr3, Fill
  <2> QED  BY <1>4, <2>1, ProcessorKeeps, TablesKept
<1>5. ASSUME Descend \/ Absent \/ flush_tlb
      PROVE  TreeInv' /\ \A w \in Virt : Translation(w)' = Translation(w)
  <2>1. UNCHANGED <<mem, tables>>
    BY <1>5 DEF Descend, Absent, flush_tlb
  <2> QED  BY <1>5, <2>1, DescendKeeps, AbsentKeeps, FlushKeeps, TablesKept
<1>6. CASE Extend
  BY <1>6, ExtendKeeps
<1>7. CASE OutOfFrames
  BY <1>7, OutOfFramesKeeps
<1>8. CASE WriteLeaf
  BY <1>8, WriteLeafKeeps
<1> QED  BY <1>1, <1>2, <1>3, <1>4, <1>5, <1>6, <1>7, <1>8 DEF Next, WalkStep

\* Paging::map never links a table twice, or a table at the wrong level.
THEOREM TablesAreTree == Spec => []TreeInv
<1>1. TreeInv /\ [Next]_vars => TreeInv'
  BY StepTree
<1> QED  BY <1>1, InitTree, PTL DEF Spec

\* Paging::map and unmap, whatever pages share tables: a cached translation
\* differs from the tables' only for the page of a call that will still flush.
THEOREM TlbNeverStale == Spec => []NoStaleTlb
<1>1. TreeInv => NoStaleTlb
  BY DEF TreeInv, Fresh, NoStaleTlb
<1> QED  BY <1>1, TablesAreTree, PTL

\* A walk ends at a leaf or nowhere: it never takes a table for a leaf.
THEOREM WalksEndAtLeaves == Spec => []TypeOK
<1>1. TreeInv => TypeOK
  <2> SUFFICES ASSUME TreeInv PROVE TypeOK
    OBVIOUS
  <2>1. PICK lev : Tree(lev) /\ Standing(lev)
    BY DEF TreeInv
  <2>2. \A v \in Virt : Translation(v) \in Leaf \cup {None}
    BY <2>1, WalkTypes DEF TreeInv
  <2>3. op.level > 0 => op.table \in 1 .. tables
    BY <2>1 DEF Standing
  <2>4. active \in BOOLEAN
    BY DEF TreeInv, Types
  <2> QED  BY <2>2, <2>3, <2>4 DEF TreeInv, Types, TypeOK, Table, Calls
<1> QED  BY <1>1, TablesAreTree, PTL

\* When Paging::map returns, its page has the mapping its caller asked for.
THEOREM MapEffective == Spec => MapTakesEffect
<1> DEFINE Effect == \A v \in Virt : op.kind = "map" /\ op.virt = v /\ op' = Idle
                                    => Translation(v)' = op.leaf
<1>1. ASSUME TreeInv, [Next]_vars PROVE [Effect]_vars
  <2> SUFFICES ASSUME vars' # vars, NEW v \in Virt,
                      op.kind = "map", op.virt = v, op' = Idle
               PROVE  Translation(v)' = op.leaf
    OBVIOUS
  <2>1. PICK lev : Tree(lev) /\ Standing(lev)
    BY <1>1 DEF TreeInv
  <2>2. CASE WriteLeaf
    BY <1>1, <2>2, WriteLeafKeeps
  <2>3. CASE flush_tlb
    <3>1. Translation(op.virt) = op.leaf
      BY <2>1, <2>3 DEF flush_tlb, Standing
    <3> QED  BY <2>3, <3>1, TablesKept DEF flush_tlb
  <2>4. op # Idle /\ op' # op /\ op'.kind = "idle"
    BY DEF Idle
  <2>5. ~ (\E u \in Virt : unmap(u) \/ (\E e \in Leaf : map(u, e)) \/ Fill(u)) /\ ~ load_cr3
    BY <2>4 DEF unmap, map, Begin, Fill, load_cr3
  <2>6. ~ Descend /\ ~ Extend
    <3>1. Descend \/ Extend => op'.kind = op.kind
      BY <1>1, Zenon DEF Descend, Extend, Down, TreeInv, Types
    <3> QED  BY <2>4, <3>1
  <2>7. ~ OutOfFrames /\ ~ Absent
    BY <2>4 DEF OutOfFrames, Absent, Stopped, Idle
  <2> QED  BY <1>1, <2>2, <2>3, <2>5, <2>6, <2>7 DEF Next, WalkStep
<1> QED  BY <1>1, TablesAreTree, PTL DEF Spec, MapTakesEffect

\* The tables implement a function from pages to mappings: a step of map, unmap
\* or the processor changes the translation of one page, or of none.
THEOREM TablesImplementAddressSpace == Spec => ImplementsAddressSpace
<1>1. Init => Abstract!Init
  <2> SUFFICES ASSUME Init, NEW v \in Virt PROVE Translation(v) = None
    BY DEF Abstract!Init
  <2>1. v[1] \in Index
    BY Indices
  <2> QED  BY <2>1, Disjoint DEF Init, Translation, Through, Zeroed, pml4
<1>2. ASSUME TreeInv, [Next]_vars
      PROVE  [Abstract!Next]_([v \in Virt |-> Translation(v)])
  <2>1. CASE \A w \in Virt : Translation(w)' = Translation(w)
    BY <2>1
  <2>2. CASE WriteLeaf
    <3>1. PICK v \in Virt : v = op.virt
      BY <1>2, <2>2, WriteLeafKeeps
    <3>2. \A w \in Virt : Translation(w)' = IF w = v THEN op.leaf ELSE Translation(w)
      BY <1>2, <2>2, <3>1, WriteLeafKeeps
    <3>3. op.leaf \in Leaf \/ op.leaf = None
      BY <1>2, <2>2, WriteLeafKeeps DEF Calls
    <3>4. [w \in Virt |-> Translation(w)]'
            = [[w \in Virt |-> Translation(w)] EXCEPT ![v] = op.leaf]
      BY <3>2, Zenon
    <3> QED  BY <3>3, <3>4, Zenon DEF Abstract!Next, Abstract!Map, Abstract!Unmap
  <2> QED  BY <1>2, <2>1, <2>2, StepTree
<1> QED  BY <1>1, <1>2, TablesAreTree, PTL DEF Spec, ImplementsAddressSpace, Abstract!Spec
=============================================================================
