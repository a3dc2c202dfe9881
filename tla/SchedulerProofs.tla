-------------------------- MODULE SchedulerProofs ---------------------------
(***************************************************************************)
(* Proofs about the process list, for every set of addresses and every     *)
(* bound: the pointers always form one circle of the allocated tasks, no   *)
(* walk over the list leaves it, and every walk achieves what it is for.   *)
(***************************************************************************)
EXTENDS Scheduler, SequenceTheorems, TLAPS

\* The provers of the leaves that name none.
USE SMTT(30), ZenonT(30)

\* Removing an element from a sequence keeps the others in order.
LEMMA WithoutSeq ==
  ASSUME NEW S, NEW s \in Seq(S), NEW i \in 1 .. Len(s)
  PROVE  /\ Without(s, i) \in Seq(S)
         /\ Len(Without(s, i)) = Len(s) - 1
         /\ \A j \in 1 .. Len(s) - 1 :
              Without(s, i)[j] = IF j < i THEN s[j] ELSE s[j + 1]
<1> DEFINE m == Len(s) - 1
           w == Without(s, i)
<1>1. m \in Nat /\ Len(s) \in Nat
  OBVIOUS
<1>2. \A j \in 1 .. m : s[j] \in S /\ s[j + 1] \in S
  BY <1>1
<1>3. w \in [1 .. m -> S]
  BY <1>2 DEF Without
<1>4. w \in Seq(S)
  BY <1>1, <1>3, IsASeq DEF Without
<1>5. Len(w) = m
  BY <1>1, <1>3, <1>4, LenProperties
<1> QED  BY <1>4, <1>5 DEF Without

\* link_process puts a new task between tail and head.
LEMMA LinkKeepsRing ==
  ASSUME TypeOK, RingOK, NEW t \in Addr,
         \A i \in Position : ring[i] # t, link_process(t)
  PROVE  RingOK' /\ Linked' = Linked \cup {t}
<1> DEFINE n == Len(ring)
<1> USE SchedulerAssumption
<1>1. /\ ring' \in Seq(Addr) /\ Len(ring') = n + 1 /\ n \in Nat
      /\ \A i \in 1 .. n : ring'[i] = ring[i] /\ ring[i] \in Addr
      /\ ring'[n + 1] = t
  BY DEF TypeOK, link_process
<1>2. count' = Len(ring')
  BY <1>1 DEF RingOK, link_process
<1>3. \A i, j \in Position' : ring'[i] = ring'[j] => i = j
  BY <1>1 DEF RingOK, Position
<1>4. Linked' = Linked \cup {t}
  BY <1>1 DEF Linked, Position
<1>5. CASE n = 0
  <2>1. ring = <<>> /\ head = NULL
    BY <1>5 DEF TypeOK, RingOK
  <2>2. next'[t] = t /\ prev'[t] = t /\ head' = t /\ tail' = t
    BY <2>1 DEF link_process, TypeOK
  <2>3. Len(ring') = 1 /\ ring'[1] = t /\ ring' # <<>>
    BY <1>1, <1>5
  <2>4. \A i \in Position' : i = 1 /\ After(i)' = 1 /\ Before(i)' = 1
    BY <2>3 DEF Position, After, Before
  <2> QED  BY <1>2, <1>3, <1>4, <2>2, <2>3, <2>4 DEF RingOK
<1>6. CASE n > 0
  <2>1. ring # <<>> /\ head = ring[1] /\ tail = ring[n] /\ head # NULL
    BY <1>1, <1>6 DEF RingOK
  <2>2. /\ next' = [next EXCEPT ![t] = head, ![tail] = t]
        /\ prev' = [prev EXCEPT ![t] = tail, ![head] = t]
        /\ head' = head /\ tail' = t
    BY <2>1 DEF link_process
  <2>3. head \in Addr /\ tail \in Addr /\ head # t /\ tail # t
    BY <1>1, <1>6, <2>1 DEF Position
  <2>4. \A i \in Position' : next'[ring'[i]] = ring'[After(i)']
    <3> SUFFICES ASSUME NEW i \in Position' PROVE next'[ring'[i]] = ring'[After(i)']
      OBVIOUS
    <3>1. CASE i = n + 1
      BY <1>1, <1>6, <2>1, <2>2, <2>3, <3>1 DEF TypeOK, After
    <3>2. CASE i = n
      BY <1>1, <1>6, <2>1, <2>2, <2>3, <3>2 DEF TypeOK, After
    <3>3. CASE i \in 1 .. n - 1
      <4>1. ring[i] # tail /\ ring[i] # t
        BY <1>1, <1>6, <2>1, <3>3 DEF RingOK, Position
      <4>2. next[ring[i]] = ring[i + 1]
        BY <1>1, <3>3 DEF RingOK, Position, After
      <4> QED  BY <1>1, <2>2, <2>3, <3>3, <4>1, <4>2 DEF TypeOK, After
    <3> QED  BY <1>1, <3>1, <3>2, <3>3 DEF Position
  <2>5. \A i \in Position' : prev'[ring'[i]] = ring'[Before(i)']
    <3> SUFFICES ASSUME NEW i \in Position' PROVE prev'[ring'[i]] = ring'[Before(i)']
      OBVIOUS
    <3>1. CASE i = n + 1
      BY <1>1, <1>6, <2>1, <2>2, <2>3, <3>1 DEF TypeOK, Before
    <3>2. CASE i = 1
      BY <1>1, <1>6, <2>1, <2>2, <2>3, <3>2 DEF TypeOK, Before
    <3>3. CASE i \in 2 .. n
      <4>1. ring[i] # head /\ ring[i] # t
        BY <1>1, <1>6, <2>1, <3>3 DEF RingOK, Position
      <4>2. prev[ring[i]] = ring[i - 1]
        BY <1>1, <3>3 DEF RingOK, Position, Before
      <4> QED  BY <1>1, <2>2, <2>3, <3>3, <4>1, <4>2 DEF TypeOK, Before
    <3> QED  BY <1>1, <3>1, <3>2, <3>3 DEF Position
  <2>6. ring' # <<>> /\ head' = ring'[1] /\ tail' = ring'[Len(ring')]
    BY <1>1, <1>6, <2>1, <2>2
  <2> QED  BY <1>2, <1>3, <1>4, <2>4, <2>5, <2>6 DEF RingOK
<1> QED  BY <1>1, <1>5, <1>6
\* unlink_process takes a task out of a ring of several.
LEMMA UnlinkKeepsCircle ==
  ASSUME TypeOK, RingOK, NEW k \in Position, Len(ring) > 1,
         unlink_process(ring[k]), ring' = Without(ring, k)
  PROVE  RingOK'
<1> DEFINE n == Len(ring)
           t == ring[k]
           Old(j) == IF j < k THEN j ELSE j + 1
<1> USE SchedulerAssumption
<1>1. /\ ring' \in Seq(Addr) /\ Len(ring') = n - 1 /\ n \in Nat /\ n > 1
      /\ \A j \in 1 .. n - 1 : ring'[j] = ring[Old(j)]
      /\ \A j \in 1 .. n : ring[j] \in Addr
      /\ k \in 1 .. n /\ count = n
  <2>1. ring \in Seq(Addr) /\ k \in 1 .. n /\ n \in Nat /\ n > 1 /\ count = n
    BY DEF TypeOK, Position, RingOK
  <2>2. /\ ring' \in Seq(Addr) /\ Len(ring') = n - 1
        /\ \A j \in 1 .. n - 1 : ring'[j] = IF j < k THEN ring[j] ELSE ring[j + 1]
    BY <2>1, WithoutSeq, ZenonT(30)
  <2>3. \A j \in 1 .. n - 1 : ring'[j] = ring[Old(j)]
    BY <2>2
  <2> QED  BY <2>1, <2>2, <2>3
<1>2. /\ next[t] = ring[After(k)] /\ prev[t] = ring[Before(k)]
      /\ After(k) \in 1 .. n /\ Before(k) \in 1 .. n
      /\ After(k) # k /\ Before(k) # k
  BY <1>1 DEF RingOK, Position, After, Before
<1>3. /\ next' = [next EXCEPT ![prev[t]] = next[t], ![t] = NULL]
      /\ prev' = [prev EXCEPT ![next[t]] = prev[t], ![t] = NULL]
      /\ head' = IF head = t THEN next[t] ELSE head
      /\ tail' = IF tail = t THEN prev[t] ELSE tail
      /\ count' = count - 1
  BY <1>1 DEF unlink_process
<1>4. \A i, j \in 1 .. n : ring[i] = ring[j] => i = j
  BY DEF RingOK, Position
<1>5. \A j \in 1 .. n - 1 : Old(j) \in 1 .. n /\ Old(j) # k
  BY <1>1
<1>6. Position' = 1 .. n - 1
  BY <1>1 DEF Position
<1>7. \A i, j \in Position' : ring'[i] = ring'[j] => i = j
  <2> SUFFICES ASSUME NEW i \in 1 .. n - 1, NEW j \in 1 .. n - 1, ring'[i] = ring'[j]
               PROVE  i = j
    BY <1>6
  <2>1. Old(i) = Old(j)
    BY <1>1, <1>4, <1>5
  <2> QED  BY <2>1, <1>1
<1>8. \A j \in Position' : next'[ring'[j]] = ring'[After(j)']
  <2> SUFFICES ASSUME NEW j \in 1 .. n - 1 PROVE next'[ring'[j]] = ring'[After(j)']
    BY <1>6
  <2>1. ring'[j] # t /\ ring'[j] \in Addr /\ t \in Addr
    BY <1>1, <1>4, <1>5
  <2>2. ring'[j] = prev[t] <=> Old(j) = Before(k)
    BY <1>1, <1>2, <1>4, <1>5
  <2>3. After(j)' = IF j = n - 1 THEN 1 ELSE j + 1
    BY <1>1 DEF After
  <2>4. After(j)' \in 1 .. n - 1
    BY <2>3, <1>1
  <2>5. CASE Old(j) = Before(k)
    <3>1. Old(After(j)') = After(k)
      BY <1>1, <2>3, <2>5 DEF After, Before
    <3>2. next'[ring'[j]] = next[t]
      BY <1>3, <2>1, <2>2, <2>5 DEF TypeOK
    <3> QED  BY <1>1, <1>2, <2>4, <3>1, <3>2
  <2>6. CASE Old(j) # Before(k)
    <3>1. Old(After(j)') = After(Old(j))
      BY <1>1, <2>3, <2>6 DEF After, Before
    <3>2. next'[ring'[j]] = next[ring[Old(j)]]
      BY <1>1, <1>3, <2>1, <2>2, <2>6 DEF TypeOK
    <3>3. next[ring[Old(j)]] = ring[After(Old(j))]
      BY <1>1, <1>5 DEF RingOK, Position
    <3> QED  BY <1>1, <2>4, <3>1, <3>2, <3>3
  <2> QED  BY <2>5, <2>6
<1>9. \A j \in Position' : prev'[ring'[j]] = ring'[Before(j)']
  <2> SUFFICES ASSUME NEW j \in 1 .. n - 1 PROVE prev'[ring'[j]] = ring'[Before(j)']
    BY <1>6
  <2>1. ring'[j] # t /\ ring'[j] \in Addr /\ t \in Addr
    BY <1>1, <1>4, <1>5
  <2>2. ring'[j] = next[t] <=> Old(j) = After(k)
    BY <1>1, <1>2, <1>4, <1>5
  <2>3. Before(j)' = IF j = 1 THEN n - 1 ELSE j - 1
    BY <1>1 DEF Before
  <2>4. Before(j)' \in 1 .. n - 1
    BY <2>3, <1>1
  <2>5. CASE Old(j) = After(k)
    <3>1. Old(Before(j)') = Before(k)
      BY <1>1, <2>3, <2>5 DEF After, Before
    <3>2. prev'[ring'[j]] = prev[t]
      BY <1>3, <2>1, <2>2, <2>5 DEF TypeOK
    <3> QED  BY <1>1, <1>2, <2>4, <3>1, <3>2
  <2>6. CASE Old(j) # After(k)
    <3>1. Old(Before(j)') = Before(Old(j))
      BY <1>1, <2>3, <2>6 DEF After, Before
    <3>2. prev'[ring'[j]] = prev[ring[Old(j)]]
      BY <1>1, <1>3, <2>1, <2>2, <2>6 DEF TypeOK
    <3>3. prev[ring[Old(j)]] = ring[Before(Old(j))]
      BY <1>1, <1>5 DEF RingOK, Position
    <3> QED  BY <1>1, <2>4, <3>1, <3>2, <3>3
  <2> QED  BY <2>5, <2>6
<1>10. head = ring[1] /\ tail = ring[n]
  BY <1>1 DEF RingOK
<1>11. head' = ring'[1]
  <2>1. CASE k = 1
    <3>1. After(k) = 2 /\ ring'[1] = ring[2]
      BY <1>1, <2>1 DEF After
    <3> QED  BY <1>2, <1>3, <1>10, <2>1, <3>1
  <2>2. CASE k # 1
    <3>1. ring'[1] = ring[1] /\ ring[1] # t
      BY <1>1, <1>4, <2>2
    <3> QED  BY <1>3, <1>10, <3>1
  <2> QED  BY <2>1, <2>2
<1>12. tail' = ring'[Len(ring')]
  <2>1. CASE k = n
    <3>1. Before(k) = n - 1 /\ ring'[n - 1] = ring[n - 1]
      BY <1>1, <2>1 DEF Before
    <3> QED  BY <1>1, <1>2, <1>3, <1>10, <2>1, <3>1
  <2>2. CASE k # n
    <3>1. ring'[n - 1] = ring[n] /\ ring[n] # t
      BY <1>1, <1>4, <2>2
    <3> QED  BY <1>1, <1>3, <1>10, <3>1
  <2> QED  BY <2>1, <2>2
<1>13. count' = Len(ring') /\ ring' # <<>>
  BY <1>1, <1>3
<1> QED  BY <1>7, <1>8, <1>9, <1>11, <1>12, <1>13 DEF RingOK
\* unlink_process removes exactly its task, whether or not it is the last.
\* process_list.current, and the pointer cleanup_terminated has saved, stay
\* in what is left of the list.
LEMMA UnlinkKeepsRing ==
  ASSUME TypeOK, RingOK, current \in Linked \cup {NULL},
         NEW t \in Linked, unlink_process(t)
  PROVE  /\ RingOK' /\ ring' \in Seq(Addr)
         /\ Linked' = Linked \ {t}
         /\ current' \in Linked' \cup {NULL}
         /\ count > 1 => next[t] \in Linked'
         /\ count' \in Nat /\ (count' > 0 <=> count > 1)
<1> USE SchedulerAssumption
<1>1. PICK k \in Position : ring[k] = t /\ ring' = Without(ring, k)
  BY DEF unlink_process, Position
<1> DEFINE n == Len(ring)
<1>2. ring \in Seq(Addr) /\ n \in Nat /\ k \in 1 .. n /\ count = n
  BY DEF TypeOK, RingOK, Position
<1>3. /\ ring' \in Seq(Addr) /\ Len(ring') = n - 1
      /\ \A j \in 1 .. n - 1 : ring'[j] = IF j < k THEN ring[j] ELSE ring[j + 1]
  BY <1>1, <1>2, WithoutSeq, Zenon
<1>4. \A i, j \in 1 .. n : ring[i] = ring[j] => i = j
  BY DEF RingOK, Position
<1>5. Linked' = Linked \ {t}
  <2>1. ASSUME NEW u \in Linked' PROVE u \in Linked \ {t}
    <3>1. PICK j \in 1 .. n - 1 : u = ring'[j]
      BY <1>3, <2>1 DEF Linked, Position
    <3>2. PICK i \in 1 .. n : u = ring[i] /\ i # k
      <4>1. CASE j < k
        BY <1>2, <1>3, <3>1, <4>1
      <4>2. CASE j >= k
        BY <1>2, <1>3, <3>1, <4>2
      <4> QED  BY <1>2, <4>1, <4>2
    <3>3. u # t
      BY <1>1, <1>2, <1>4, <3>2
    <3> QED  BY <3>2, <3>3 DEF Linked, Position
  <2>2. ASSUME NEW u \in Linked \ {t} PROVE u \in Linked'
    <3>1. PICK j \in 1 .. n : u = ring[j]
      BY <2>2 DEF Linked, Position
    <3>2. j # k
      BY <1>1, <3>1
    <3>3. CASE j < k
      <4>1. j \in 1 .. n - 1 /\ ring'[j] = u
        BY <1>2, <1>3, <3>1, <3>3
      <4> QED  BY <1>3, <4>1 DEF Linked, Position
    <3>4. CASE j > k
      <4>1. j - 1 \in 1 .. n - 1 /\ ring'[j - 1] = u
        BY <1>2, <1>3, <3>1, <3>4
      <4> QED  BY <1>3, <4>1 DEF Linked, Position
    <3> QED  BY <1>2, <3>2, <3>3, <3>4
  <2> QED  BY <2>1, <2>2
<1>6. count' = n - 1
  BY <1>2 DEF unlink_process
<1>7. CASE n = 1
  <2>1. Len(ring') = 0 /\ ring' = <<>>
    BY <1>3, <1>7
  <2>2. head' = NULL /\ tail' = NULL /\ current' = NULL
    BY <1>2, <1>7 DEF unlink_process
  <2>3. Position' = {}
    BY <2>1 DEF Position
  <2> QED  BY <1>2, <1>3, <1>5, <1>6, <1>7, <2>1, <2>2, <2>3 DEF RingOK
<1>8. CASE n > 1
  <2>1. RingOK'
    BY <1>1, <1>8, UnlinkKeepsCircle
  <2>2. next[t] \in Linked \ {t}
    <3>1. After(k) \in 1 .. n /\ After(k) # k /\ next[t] = ring[After(k)]
      BY <1>1, <1>2, <1>8 DEF After, RingOK, Position
    <3> QED  BY <1>1, <1>4, <3>1 DEF Linked, Position
  <2>3. current' = IF current = t THEN next[t] ELSE current
    BY <1>2, <1>8 DEF unlink_process
  <2> QED  BY <1>2, <1>3, <1>5, <1>6, <1>8, <2>1, <2>2, <2>3
<1> QED  BY <1>2, <1>7, <1>8

\* Following next from a task in the list stays in the list.
LEMMA NextLinked ==
  ASSUME TypeOK, RingOK, NEW t \in Linked
  PROVE  next[t] \in Linked /\ head \in Linked
<1>1. PICK k \in Position : ring[k] = t
  BY DEF Linked
<1>2. After(k) \in Position /\ 1 \in Position /\ ring # <<>>
  BY <1>1 DEF TypeOK, Position, After
<1> QED  BY <1>1, <1>2 DEF RingOK, Linked

\* A step that changes neither the list nor the tasks keeps the list's part of
\* the invariant.
LEMMA SameList ==
  ASSUME UNCHANGED <<next, prev, head, tail, count, ring>>, RingOK
  PROVE  RingOK' /\ Linked' = Linked
BY DEF RingOK, Linked, Position, After, Before

-----------------------------------------------------------------------------
\* A pid is never given out again: every one in the list is below next_pid.
PidsSpent ==
  /\ PidsUnique
  /\ \A t \in allocated : pid[t] \in Nat /\ pid[t] < next_pid

\* The inductive invariant.  NoDanglingTask needs RingOK (to know that next
\* leads back into the list), and RingOK needs NoDanglingTask (unlink_process
\* is safe only for a task that is in the list).
ListInv == TypeOK /\ RingOK /\ NoDanglingTask /\ PidsSpent

\* The empty list satisfies the invariant.
LEMMA InitList == Init => ListInv
<1> SUFFICES ASSUME Init PROVE ListInv
  OBVIOUS
<1> USE SchedulerAssumption
<1>1. TypeOK
  <2>1. stack \in Seq(Addr) /\ ring \in Seq(Addr)
    BY DEF Init
  <2>2. {head, tail, current, it} \subseteq Addr \cup {NULL}
    BY DEF Init
  <2> QED  BY <2>1, <2>2, Zenon DEF Init, TypeOK
<1>2. Position = {} /\ Linked = {}
  BY DEF Init, Position, Linked
<1> QED
  BY <1>1, <1>2 DEF Init, ListInv, RingOK, NoDanglingTask, PidsSpent, PidsUnique

\* spawn_process links a fresh task with a fresh pid.
LEMMA SpawnStep ==
  ASSUME ListInv, NEW t \in Addr, spawn_process(t)
  PROVE  ListInv'
<1> USE SchedulerAssumption DEF ListInv
<1>1. \A i \in Position : ring[i] # t
  BY DEF spawn_process, NoDanglingTask, Linked
<1>2. RingOK' /\ Linked' = Linked \cup {t}
  BY <1>1, LinkKeepsRing DEF spawn_process
<1>3. TypeOK'
  <2>1. ring' \in Seq(Addr)
    BY DEF spawn_process, link_process, TypeOK
  <2>2. next' \in [Addr -> Addr \cup {NULL}] /\ prev' \in [Addr -> Addr \cup {NULL}]
    <3>1. head \in Addr \cup {NULL} /\ tail \in Addr \cup {NULL}
      BY DEF TypeOK
    <3>2. next \in [Addr -> Addr \cup {NULL}] /\ prev \in [Addr -> Addr \cup {NULL}]
      BY DEF TypeOK
    <3>3. CASE head = NULL
      BY <3>2, <3>3 DEF spawn_process, link_process
    <3>4. CASE head # NULL
      BY <3>1, <3>2, <3>4 DEF spawn_process, link_process
    <3> QED  BY <3>3, <3>4
  <2>3. {head', tail', current', it'} \subseteq Addr \cup {NULL}
    BY DEF spawn_process, link_process, TypeOK, locals
  <2>4. state' \in [Addr -> State \cup {NULL}]
    BY DEF spawn_process, TypeOK, State
  <2>5. pid' \in [Addr -> Nat \cup {NULL}] /\ next_pid' \in Nat
    BY DEF spawn_process, TypeOK
  <2>6. count' \in Nat /\ allocated' \subseteq Addr
    BY DEF spawn_process, link_process, TypeOK
  <2> QED
    BY <2>1, <2>2, <2>3, <2>4, <2>5, <2>6
    DEF spawn_process, TypeOK, locals, control
<1>4. NoDanglingTask'
  BY <1>2 DEF spawn_process, NoDanglingTask, locals, control, CallAllowed
<1>5. PidsSpent'
  <2>1. /\ pid'[t] = next_pid /\ next_pid \in Nat /\ next_pid' = next_pid + 1
        /\ \A u \in allocated : pid'[u] = pid[u]
        /\ allocated' = allocated \cup {t}
    BY DEF spawn_process, TypeOK
  <2> QED  BY <2>1 DEF PidsSpent, PidsUnique
<1> QED  BY <1>2, <1>3, <1>4, <1>5

\* The calls that only start a loop, end one, or return.
LEMMA ControlStep ==
  ASSUME ListInv, UNCHANGED <<list, pid, allocated, next_pid>>,
         state' \in [Addr -> State \cup {NULL}],
         it' \in Addr \cup {NULL}, checked' \in Nat, wanted' \in Nat,
         scheduler_running' \in BOOLEAN, stack' \in Seq(Addr),
         phase' \in {"boot", "run", "lookup", "cleanup", "scan", "start", "halt"},
         phase' \in {"lookup", "cleanup", "scan", "start"} => it' \in allocated,
         phase' = "scan" => current # NULL
  PROVE  ListInv'
<1>1. RingOK' /\ Linked' = Linked
  BY SameList DEF ListInv, list
<1>2. TypeOK'
  BY DEF ListInv, TypeOK, list
<1>3. NoDanglingTask' /\ PidsSpent'
  BY <1>1 DEF ListInv, NoDanglingTask, PidsSpent, PidsUnique, list
<1> QED  BY <1>1, <1>2, <1>3 DEF ListInv

\* The calls of the interface other than spawn_process.
LEMMA CallStep ==
  ASSUME ListInv,
         \/ \E p \in 1 .. MaxPid : kill_process(p)
         \/ yield \/ kill_current \/ sleep
         \/ start_scheduler \/ stop_scheduler \/ task_returns
  PROVE  ListInv'
<1> USE SchedulerAssumption
<1>1. head # NULL => head \in allocated
  BY NextLinked DEF ListInv, RingOK, NoDanglingTask, TypeOK, Position, Linked
<1>2. TypeOK /\ allocated \subseteq Addr
  BY DEF ListInv, TypeOK
<1>3. ASSUME NEW p \in 1 .. MaxPid, kill_process(p) PROVE ListInv'
  BY <1>1, <1>2, <1>3, ControlStep
  DEF kill_process, tasks, TypeOK
<1>4. CASE yield
  BY <1>1, <1>2, <1>4, ControlStep DEF yield, EnterYield, tasks, TypeOK
<1>5. ASSUME NEW s \in State, MarkCurrentAndYield(s) PROVE ListInv'
  <2>1. state' \in [Addr -> State \cup {NULL}]
    BY <1>2, <1>5 DEF MarkCurrentAndYield, TypeOK
  <2> QED
    BY <1>1, <1>2, <1>5, <2>1, ControlStep
    DEF MarkCurrentAndYield, EnterYield, TypeOK
<1>6. CASE start_scheduler
  <2>1. count # 0 => head # NULL
    BY DEF ListInv, TypeOK, RingOK
  <2> QED
    BY <1>1, <1>2, <1>6, <2>1, ControlStep, Zenon DEF start_scheduler, tasks, TypeOK
<1>7. CASE stop_scheduler
  BY <1>2, <1>7, ControlStep, Zenon DEF stop_scheduler, tasks, locals, TypeOK, CallAllowed
<1>8. CASE task_returns
  <2>1. stack' \in Seq(Addr)
    BY <1>2, <1>8, SubSeqProperties DEF task_returns, TypeOK
  <2> QED
    BY <1>2, <1>8, <2>1, ControlStep DEF task_returns, tasks, locals, TypeOK
<1> QED
  BY <1>3, <1>4, <1>5, <1>6, <1>7, <1>8 DEF kill_current, sleep, State

\* The steps of the loops that leave the list alone.
LEMMA WalkStep ==
  ASSUME ListInv,
         \/ LookupHit \/ LookupMiss \/ CleanupKeep
         \/ ScanSkip \/ ScanReturns \/ StartSkip
  PROVE  ListInv'
<1> USE SchedulerAssumption
<1>1. TypeOK /\ allocated \subseteq Addr /\ NULL \notin allocated
  BY DEF ListInv, TypeOK
<1>2. phase \in {"lookup", "cleanup", "scan", "start"}
        => it \in allocated /\ next[it] \in allocated
  BY NextLinked DEF ListInv, NoDanglingTask
<1>3. current # NULL => next[current] \in allocated
  BY NextLinked DEF ListInv, NoDanglingTask
<1>4. phase = "scan" => current # NULL
  BY DEF ListInv, NoDanglingTask
<1>5. CASE LookupHit
  <2>1. state' \in [Addr -> State \cup {NULL}]
    BY <1>1, <1>5, Zenon DEF LookupHit, TypeOK, State
  <2> QED
    BY <1>1, <1>5, <2>1, ControlStep DEF LookupHit, Return, TypeOK
<1>6. CASE LookupMiss
  BY <1>1, <1>2, <1>6, ControlStep DEF LookupMiss, Return, tasks, TypeOK
<1>7. CASE CleanupKeep
  BY <1>1, <1>2, <1>3, <1>7, ControlStep
  DEF CleanupKeep, CleanupContinues, Return, tasks, list, TypeOK
<1>8. CASE ScanSkip
  BY <1>1, <1>2, <1>4, <1>8, ControlStep DEF ScanSkip, control, tasks, TypeOK
<1>9. CASE ScanReturns
  BY <1>1, <1>9, ControlStep DEF ScanReturns, Return, tasks, TypeOK
<1>10. CASE StartSkip
  BY <1>1, <1>2, <1>10, ControlStep DEF StartSkip, control, tasks, TypeOK
<1> QED  BY <1>5, <1>6, <1>7, <1>8, <1>9, <1>10

\* yield and start_scheduler enter a task of the list.
LEMMA EnterStep ==
  ASSUME ListInv, NEW t \in allocated, Enter(t), UNCHANGED scheduler_running
  PROVE  ListInv'
<1>1. RingOK' /\ Linked' = Linked
  BY SameList DEF ListInv, Enter
<1>2. TypeOK'
  <2>1. t \in Addr
    BY DEF ListInv, TypeOK
  <2>2. stack' \in Seq(Addr) /\ state' \in [Addr -> State \cup {NULL}]
    BY <2>1 DEF ListInv, TypeOK, Enter, State
  <2> QED  BY <2>1, <2>2 DEF ListInv, TypeOK, Enter
<1>3. NoDanglingTask' /\ PidsSpent'
  BY <1>1 DEF ListInv, NoDanglingTask, PidsSpent, PidsUnique, Enter
<1> QED  BY <1>1, <1>2, <1>3 DEF ListInv

\* cleanup_terminated unlinks and frees a task while it walks the list.
LEMMA ReapStep ==
  ASSUME ListInv, CleanupReap
  PROVE  ListInv'
<1> USE SchedulerAssumption
<1>1. it \in Linked /\ it \in allocated /\ allocated = Linked /\ TypeOK /\ RingOK
  BY DEF ListInv, NoDanglingTask, CleanupReap
<1>2. /\ RingOK' /\ ring' \in Seq(Addr)
      /\ Linked' = Linked \ {it}
      /\ current' \in Linked' \cup {NULL}
      /\ count > 1 => next[it] \in Linked'
      /\ count' \in Nat /\ (count' > 0 <=> count > 1)
  BY <1>1, UnlinkKeepsRing DEF CleanupReap, ListInv, NoDanglingTask
<1>3. allocated' = Linked' /\ Linked' \subseteq Addr
  BY <1>1, <1>2 DEF CleanupReap, release, TypeOK
<1>4. /\ next' \in [Addr -> Addr \cup {NULL}]
      /\ prev' \in [Addr -> Addr \cup {NULL}]
      /\ {head', tail', current'} \subseteq Addr \cup {NULL}
  <2>1. it \in Addr /\ next[it] \in Addr \cup {NULL} /\ prev[it] \in Addr \cup {NULL}
    BY <1>1 DEF TypeOK
  <2>2. next \in [Addr -> Addr \cup {NULL}] /\ prev \in [Addr -> Addr \cup {NULL}]
    BY <1>1 DEF TypeOK
  <2>3. CASE count = 1
    BY <2>1, <2>2, <2>3 DEF CleanupReap, unlink_process
  <2>4. CASE count # 1
    BY <1>1, <2>1, <2>2, <2>4, ZenonT(30) DEF CleanupReap, unlink_process, TypeOK
  <2> QED  BY <2>3, <2>4
<1>5. current' # NULL => next'[current'] \in Linked'
  <2> SUFFICES ASSUME current' # NULL PROVE next'[current'] \in Linked'
    OBVIOUS
  <2>1. PICK k \in Position' : ring'[k] = current'
    BY <1>2 DEF Linked
  <2>2. After(k)' \in Position'
    BY <1>2, <2>1 DEF Position, After
  <2> QED  BY <1>2, <2>1, <2>2 DEF RingOK, Linked
<1>6. /\ phase' \in {"boot", "run", "cleanup", "scan"}
      /\ it' \in Addr \cup {NULL} /\ checked' \in Nat /\ wanted' \in Nat
      /\ phase' \in {"cleanup", "scan"} => it' \in allocated'
      /\ phase' = "scan" => current' # NULL
  BY <1>1, <1>2, <1>3, <1>5
  DEF CleanupReap, CleanupContinues, Return, TypeOK
<1>7. TypeOK'
  <2>1. /\ state' \in [Addr -> State \cup {NULL}]
        /\ pid' \in [Addr -> Nat \cup {NULL}] /\ next_pid' \in Nat
    BY <1>1 DEF CleanupReap, release, TypeOK
  <2> QED
    BY <1>1, <1>2, <1>3, <1>4, <1>6, <2>1 DEF CleanupReap, TypeOK
<1>8. NoDanglingTask'
  BY <1>2, <1>3, <1>6 DEF NoDanglingTask
<1>9. PidsSpent'
  <2>1. \A u \in allocated' : u \in allocated /\ pid'[u] = pid[u]
    BY <1>1 DEF CleanupReap, release, TypeOK
  <2>2. next_pid' = next_pid
    BY DEF CleanupReap, release
  <2> QED  BY <2>1, <2>2 DEF ListInv, PidsSpent, PidsUnique
<1> QED  BY <1>2, <1>7, <1>8, <1>9 DEF ListInv

\* Every step keeps the invariant.
LEMMA ListStep == ListInv /\ [Next]_vars => ListInv'
<1> SUFFICES ASSUME ListInv, [Next]_vars PROVE ListInv'
  OBVIOUS
<1>1. ASSUME NEW t \in Addr, spawn_process(t) PROVE ListInv'
  BY <1>1, SpawnStep
<1>2. CASE \/ \E p \in 1 .. MaxPid : kill_process(p)
           \/ yield \/ kill_current \/ sleep
           \/ start_scheduler \/ stop_scheduler \/ task_returns
  BY <1>2, CallStep
<1>3. CASE \/ LookupHit \/ LookupMiss \/ CleanupKeep
           \/ ScanSkip \/ ScanReturns \/ StartSkip
  BY <1>3, WalkStep
<1>4. CASE CleanupReap
  BY <1>4, ReapStep
<1>5. CASE ScanSwitches
  BY <1>5, EnterStep DEF ScanSwitches, ListInv, NoDanglingTask
<1>6. CASE StartEnters
  <2>1. it \in allocated /\ head \in allocated
    BY <1>6, NextLinked DEF StartEnters, ListInv, NoDanglingTask
  <2> QED  BY <1>6, <2>1, EnterStep DEF StartEnters
<1>7. CASE UNCHANGED vars
  <2>1. UNCHANGED <<list, tasks, locals, control>>
    BY <1>7 DEF vars
  <2>2. RingOK' /\ Linked' = Linked
    BY <2>1, SameList DEF list, ListInv
  <2> QED
    BY <2>1, <2>2
    DEF list, tasks, locals, control, ListInv, TypeOK, NoDanglingTask,
        PidsSpent, PidsUnique
<1> QED
  BY <1>1, <1>2, <1>3, <1>4, <1>5, <1>6, <1>7 DEF Next, LoopStep, halted

\* Whatever tasks are spawned, killed, put to sleep and switched to, the
\* process list is one circle of exactly the live tasks, with count, head and
\* tail right; no pointer (process_list.current, or the one a loop holds while
\* it frees tasks) is left on a freed task; and pids stay distinct.
THEOREM ListCorrect ==
  Spec => []TypeOK /\ []RingOK /\ []NoDanglingTask /\ []PidsUnique
<1>1. ListInv => TypeOK /\ RingOK /\ NoDanglingTask /\ PidsUnique
  BY DEF ListInv, PidsSpent
<1> QED  BY <1>1, InitList, ListStep, PTL DEF Spec

-----------------------------------------------------------------------------
(* What the walks achieve.  The invariant says how far a walk has come:    *)
(* where it stands in the ring, and what is true of the tasks it has       *)
(* passed.  With it, the end of a walk says something of all tasks, and a  *)
(* switch is a step of TaskRing.                                           *)

\* The position k places behind i, for k up to the length of the ring.
Place(i, k) == IF i + k <= Len(ring) THEN i + k ELSE i + k - Len(ring)

WalkInv ==
  /\ phase # "scan" => checked = 0
  /\ stack = <<>> /\ phase # "halt" => current = NULL
  /\ phase = "run" => stack # <<>>
  /\ phase \in {"boot", "start"} => stack = <<>>
  /\ phase = "lookup" =>
       \E k \in Position : it = ring[k] /\ \A j \in 1 .. k - 1 : pid[ring[j]] # wanted
  /\ phase = "cleanup" =>
       \E k \in Position : it = ring[k] /\ \A j \in 1 .. k - 1 : state[ring[j]] # TERMINATED
  /\ phase = "start" =>
       \E k \in Position : it = ring[k] /\ \A j \in 1 .. k - 1 : ~ Runnable(ring[j])
  /\ phase = "scan" =>
       /\ checked <= count
       /\ \E c \in Position :
            /\ current = ring[c]
            /\ checked < count => it = ring[Place(c, checked + 1)]
            /\ \A j \in 1 .. checked : ~ Runnable(ring[Place(c, j)])

\* next leads to the following position, and from the last one to the head.
LEMMA Advance ==
  ASSUME ListInv, NEW k \in Position
  PROVE  /\ Len(ring) \in Nat /\ count = Len(ring) /\ 1 \in Position /\ k \in 1 .. Len(ring)
         /\ ring # <<>> /\ head = ring[1] /\ head \in allocated /\ ring[k] \in allocated
         /\ next[ring[k]] = ring[Place(k, 1)] /\ Place(k, 1) \in Position
         /\ IF k = Len(ring) THEN next[ring[k]] = head
            ELSE next[ring[k]] # head /\ next[ring[k]] = ring[k + 1] /\ k + 1 \in Position
<1>1. /\ ring \in Seq(Addr) /\ Len(ring) \in Nat /\ k \in 1 .. Len(ring) /\ ring # <<>>
      /\ count = Len(ring)
  BY DEF ListInv, TypeOK, Position, RingOK
<1>2. 1 \in Position /\ head = ring[1]
  BY <1>1 DEF ListInv, RingOK, Position
<1>3. head \in allocated /\ ring[k] \in allocated
  BY <1>2 DEF ListInv, NoDanglingTask, Linked
<1>4. next[ring[k]] = ring[After(k)]
  BY DEF ListInv, RingOK
<1>5. After(k) = Place(k, 1) /\ Place(k, 1) \in Position
  BY <1>1 DEF After, Place, Position
<1>6. k = Len(ring) => next[ring[k]] = head
  BY <1>2, <1>4 DEF After
<1>7. k # Len(ring) => /\ next[ring[k]] # head /\ next[ring[k]] = ring[k + 1]
                       /\ k + 1 \in Position
  <2> SUFFICES ASSUME k # Len(ring)
               PROVE  next[ring[k]] # head /\ next[ring[k]] = ring[k + 1] /\ k + 1 \in Position
    OBVIOUS
  <2>1. next[ring[k]] = ring[k + 1] /\ k + 1 \in Position /\ k + 1 # 1
    BY <1>1, <1>4 DEF After, Position
  <2>2. ring[k + 1] # ring[1]
    BY <1>2, <2>1 DEF ListInv, RingOK
  <2> QED  BY <1>2, <2>1, <2>2
<1> QED  BY <1>1, <1>2, <1>3, <1>4, <1>5, <1>6, <1>7

\* No walk is under way before the first call.
LEMMA WalkInit == Init => WalkInv
BY DEF Init, WalkInv

\* The calls that start a walk begin it at the head; the others leave none.
LEMMA WalkBegins ==
  ASSUME ListInv, WalkInv,
         \/ \E t \in Addr : spawn_process(t)
         \/ \E p \in 1 .. MaxPid : kill_process(p)
         \/ yield \/ kill_current \/ sleep
         \/ start_scheduler \/ stop_scheduler \/ task_returns
  PROVE  WalkInv'
<1>1. head # NULL => 1 \in Position /\ head = ring[1]
  BY DEF ListInv, TypeOK, RingOK, Position
<1>2. ASSUME NEW t \in Addr, spawn_process(t) PROVE WalkInv'
  BY <1>2 DEF spawn_process, CallAllowed, locals, control, WalkInv
<1>3. ASSUME NEW p \in 1 .. MaxPid, kill_process(p) PROVE WalkInv'
  <2>1. /\ phase' = "lookup" /\ it' = ring[1] /\ 1 \in Position /\ ring' = ring
        /\ checked' = checked /\ stack' = stack /\ current' = current
        /\ phase \in {"boot", "run"}
    BY <1>1, <1>3 DEF kill_process, list, CallAllowed
  <2> QED  BY <2>1 DEF WalkInv, Position
<1>4. ASSUME EnterYield PROVE WalkInv'
  <2>1. /\ phase' = "cleanup" /\ it' = ring[1] /\ 1 \in Position /\ ring' = ring
        /\ checked' = checked /\ stack' = stack /\ current' = current
        /\ phase \in {"boot", "run"}
    BY <1>1, <1>4 DEF EnterYield, list, CallAllowed
  <2> QED  BY <2>1 DEF WalkInv, Position
<1>5. CASE start_scheduler
  <2>1. count # 0 => head # NULL
    BY SchedulerAssumption DEF ListInv, TypeOK, RingOK, NoDanglingTask, Linked, Position
  <2>2. /\ ring' = ring /\ checked' = checked /\ stack' = stack /\ current' = current
        /\ phase = "boot" /\ phase' \in {"halt", "start"}
        /\ phase' = "start" => it' = ring[1] /\ 1 \in Position
    BY <1>1, <1>5, <2>1 DEF start_scheduler, list
  <2> QED  BY <2>2 DEF WalkInv, Position
<1>6. CASE stop_scheduler
  BY <1>6 DEF stop_scheduler, CallAllowed, list, locals, WalkInv
<1>7. CASE task_returns
  <2>1. phase = "run" /\ stack # <<>> /\ stack \in Seq(Addr)
    BY <1>7 DEF task_returns, WalkInv, ListInv, TypeOK
  <2>2. Len(stack) # 1 => stack' # <<>>
    <3>1. Len(stack) \in Nat /\ Len(stack) # 0
      BY <2>1
    <3>2. /\ 1 \in 1 .. Len(stack) + 1 /\ Len(stack) - 1 \in 1 - 1 .. Len(stack)
          /\ Len(stack) - 1 - 1 + 1 = Len(stack) - 1
      BY <3>1
    <3>3. Len(SubSeq(stack, 1, Len(stack) - 1)) = Len(stack) - 1
      BY <2>1, <3>1, <3>2, SubSeqProperties
    <3>4. stack' = SubSeq(stack, 1, Len(stack) - 1)
      BY <1>7 DEF task_returns
    <3> QED  BY <3>1, <3>3, <3>4
  <2>3. phase' = (IF Len(stack) = 1 THEN "halt" ELSE "run") /\ checked' = checked
    BY <1>7 DEF task_returns, locals
  <2> QED  BY <2>1, <2>2, <2>3 DEF WalkInv
<1> QED
  BY <1>2, <1>3, <1>4, <1>5, <1>6, <1>7
  DEF yield, kill_current, sleep, MarkCurrentAndYield

\* A walk over an unchanged ring moves on, ends, or enters a task.
LEMMA WalkGoesOn ==
  ASSUME ListInv, WalkInv,
         \/ LookupHit \/ LookupMiss \/ ScanReturns \/ StartSkip
         \/ ScanSwitches \/ StartEnters \/ UNCHANGED vars
  PROVE  WalkInv'
<1>1. CASE LookupHit \/ ScanReturns
  BY <1>1 DEF LookupHit, ScanReturns, Return, WalkInv, list
<1>2. CASE ScanSwitches \/ StartEnters
  <2>1. stack' # <<>> /\ phase' = "run" /\ checked' = 0
    BY <1>2 DEF ScanSwitches, StartEnters, Enter, ListInv, TypeOK
  <2> QED  BY <2>1 DEF WalkInv
<1>3. CASE LookupMiss
  <2>1. PICK k \in Position : it = ring[k] /\ \A j \in 1 .. k - 1 : pid[ring[j]] # wanted
    BY <1>3 DEF LookupMiss, WalkInv
  <2>2. ring' = ring /\ pid' = pid /\ stack' = stack /\ current' = current
    BY <1>3 DEF LookupMiss, list, tasks
  <2>3. CASE next[it] = head
    BY <1>3, <2>2, <2>3 DEF LookupMiss, Return, WalkInv
  <2>4. CASE next[it] # head
    <3>1. k + 1 \in Position /\ it' = ring[k + 1] /\ k \in 1 .. Len(ring)
      BY <1>3, <2>1, <2>4, Advance DEF LookupMiss
    <3>2. phase' = "lookup" /\ phase = "lookup" /\ checked' = checked /\ wanted' = wanted
      BY <1>3, <2>4 DEF LookupMiss
    <3>3. \A j \in 1 .. (k + 1) - 1 : pid'[ring'[j]] # wanted'
      BY <1>3, <2>1, <2>2, <3>1, <3>2 DEF LookupMiss
    <3>4. k + 1 \in Position' /\ it' = ring'[k + 1]
      BY <2>2, <3>1 DEF Position
    <3> QED  BY <2>2, <3>2, <3>3, <3>4 DEF WalkInv
  <2> QED  BY <2>3, <2>4
<1>4. CASE StartSkip
  <2>1. PICK k \in Position : it = ring[k] /\ \A j \in 1 .. k - 1 : ~ Runnable(ring[j])
    BY <1>4, Zenon DEF StartSkip, WalkInv
  <2>2. /\ ring' = ring /\ state' = state /\ stack' = stack /\ current' = current
        /\ phase' = "start" /\ phase = "start" /\ checked' = checked
    BY <1>4 DEF StartSkip, list, tasks, control
  <2>3. k + 1 \in Position /\ it' = ring[k + 1] /\ k \in 1 .. Len(ring)
    BY <1>4, <2>1, Advance DEF StartSkip
  <2>4. \A j \in 1 .. (k + 1) - 1 : ~ (state[ring[j]] \in {ACTIVE, READY})
    BY <1>4, <2>1, <2>3 DEF StartSkip, Runnable
  <2>5. k + 1 \in Position' /\ it' = ring'[k + 1]
    BY <2>2, <2>3 DEF Position
  <2>6. \A j \in 1 .. (k + 1) - 1 : ~ Runnable(ring[j])'
    BY <2>2, <2>4 DEF Runnable
  <2> QED  BY <2>2, <2>5, <2>6 DEF WalkInv
<1>5. CASE UNCHANGED vars
  BY <1>5 DEF vars, list, tasks, locals, control, WalkInv, Position, Runnable, Place
<1> QED  BY <1>1, <1>2, <1>3, <1>4, <1>5

\* The search behind current passes a task that cannot run.
LEMMA WalkScans ==
  ASSUME ListInv, WalkInv, ScanSkip
  PROVE  WalkInv'
<1>1. /\ phase = "scan" /\ phase' = "scan" /\ checked < count /\ ~ Runnable(it)
      /\ it' = next[it] /\ checked' = checked + 1 /\ checked \in Nat /\ count' = count
      /\ ring' = ring /\ state' = state /\ current' = current /\ stack' = stack
  BY DEF ScanSkip, list, tasks, control, ListInv, TypeOK
<1>2. PICK c \in Position : /\ current = ring[c] /\ it = ring[Place(c, checked + 1)]
                            /\ \A j \in 1 .. checked : ~ Runnable(ring[Place(c, j)])
  BY <1>1 DEF WalkInv
<1>3. c \in 1 .. Len(ring) /\ Len(ring) \in Nat /\ count = Len(ring)
  BY <1>2, Advance
<1>4. Place(c, checked + 1) \in Position
  BY <1>1, <1>3 DEF Place, Position
<1>5. it' = ring[Place(Place(c, checked + 1), 1)]
  BY <1>1, <1>2, <1>4, Advance
<1>6. checked + 1 < count => Place(Place(c, checked + 1), 1) = Place(c, (checked + 1) + 1)
  BY <1>1, <1>3 DEF Place
<1>7. \A j \in 1 .. checked + 1 : ~ Runnable(ring[Place(c, j)])
  BY <1>1, <1>2
<1>8. checked' <= count' /\ c \in Position' /\ current' = ring'[c]
  BY <1>1, <1>2, <1>3 DEF Position
<1>9. \A j : Place(c, j)' = Place(c, j)
  BY <1>1 DEF Place
<1>10. checked' < count' => it' = ring'[Place(c, checked + 1)']
  <2>1. Place(c, checked + 1)' = Place(c, (checked + 1) + 1)
    BY <1>1 DEF Place
  <2> QED  BY <1>1, <1>5, <1>6, <2>1
<1>11. \A j \in 1 .. checked' : ~ Runnable(ring[Place(c, j)])'
  BY <1>1, <1>7, <1>9 DEF Runnable, Place
<1>12. stack' = <<>> => current' = NULL
  BY <1>1 DEF WalkInv
<1> QED  BY <1>1, <1>8, <1>10, <1>11, <1>12 DEF WalkInv, Place

\* yield's search begins behind current.
LEMMA ScanBegins ==
  ASSUME ListInv', phase' = "scan", current' # NULL, it' = next'[current'],
         checked' = 0, stack' = <<>> => current' = NULL
  PROVE  WalkInv'
<1>1. PICK c \in Position' : ring'[c] = current'
  BY DEF ListInv, NoDanglingTask, Linked
<1>2. Len(ring') \in Nat /\ c \in 1 .. Len(ring') /\ count' = Len(ring')
  BY <1>1 DEF ListInv, TypeOK, RingOK, Position
<1>3. it' = ring'[After(c)']
  BY <1>1 DEF ListInv, RingOK
<1>4. After(c)' = Place(c, checked + 1)'
  BY <1>2 DEF After, Place
<1>5. it' = ring'[Place(c, checked + 1)']
  BY <1>3, <1>4
<1>6. checked' <= count' /\ 1 .. checked' = {}
  BY <1>2
<1> QED  BY <1>1, <1>5, <1>6 DEF WalkInv

\* cleanup_terminated keeps a task and goes on, or is done.
LEMMA WalkKeeps ==
  ASSUME ListInv, WalkInv, ListInv', CleanupKeep
  PROVE  /\ WalkInv'
         /\ phase' # "cleanup" => \A t \in allocated' : state'[t] # TERMINATED
<1>1. PICK k \in Position : it = ring[k] /\ \A j \in 1 .. k - 1 : state[ring[j]] # TERMINATED
  BY DEF CleanupKeep, WalkInv
<1>2. /\ ring' = ring /\ state' = state /\ stack' = stack /\ current' = current
      /\ head' = head /\ count' = count /\ next' = next /\ allocated' = allocated
      /\ phase = "cleanup" /\ checked = 0 /\ state[it] # TERMINATED
  BY DEF CleanupKeep, list, tasks, WalkInv
<1>3. k \in 1 .. Len(ring) /\ Len(ring) \in Nat /\ count = Len(ring) /\ count' > 0
  BY <1>1, <1>2, Advance
<1>4. \A j \in 1 .. k : state'[ring'[j]] # TERMINATED
  BY <1>1, <1>2, <1>3
<1>5. stack' = <<>> => current' = NULL
  BY <1>2 DEF WalkInv
<1>6. CASE next[it] # head
  <2>1. k + 1 \in Position /\ it' = ring[k + 1] /\ phase' = phase /\ checked' = checked
    BY <1>1, <1>2, <1>3, <1>6, Advance DEF CleanupKeep, CleanupContinues
  <2>2. k + 1 \in Position' /\ it' = ring'[k + 1] /\ phase' = "cleanup" /\ checked' = 0
    BY <1>2, <2>1 DEF Position
  <2>3. \A j \in 1 .. (k + 1) - 1 : state'[ring'[j]] # TERMINATED
    BY <1>3, <1>4
  <2> QED  BY <1>5, <2>2, <2>3 DEF WalkInv
<1>7. CASE next[it] = head
  <2>1. k = Len(ring)
    BY <1>1, <1>7, Advance
  <2>2. \A t \in allocated' : state'[t] # TERMINATED
    <3> SUFFICES ASSUME NEW t \in allocated' PROVE state'[t] # TERMINATED
      OBVIOUS
    <3>1. PICK j \in Position : t = ring[j]
      BY <1>2 DEF ListInv, NoDanglingTask, Linked
    <3> QED  BY <1>2, <1>4, <2>1, <3>1 DEF Position
  <2>3. CASE current' = NULL
    <3>1. Return
      BY <1>2, <1>3, <1>7, <2>3 DEF CleanupKeep, CleanupContinues
    <3> QED  BY <1>2, <1>5, <2>2, <3>1 DEF Return, WalkInv
  <2>4. CASE current' # NULL
    <3>1. phase' = "scan" /\ it' = next'[current'] /\ checked' = checked
      BY <1>2, <1>3, <1>7, <2>4 DEF CleanupKeep, CleanupContinues
    <3> QED  BY <1>2, <1>5, <2>2, <2>4, <3>1, ScanBegins
  <2> QED  BY <2>3, <2>4
<1> QED  BY <1>6, <1>7

\* cleanup_terminated frees the task at position k: the tasks before it stay.
LEMMA Reaped ==
  ASSUME ListInv, CleanupReap, NEW k \in Position, it = ring[k]
  PROVE  /\ ring' = Without(ring, k) /\ Len(ring') = Len(ring) - 1
         /\ \A j \in 1 .. Len(ring) - 1 : ring'[j] = IF j < k THEN ring[j] ELSE ring[j + 1]
         /\ \A j \in Position : j # k => ring[j] # it /\ state'[ring[j]] = state[ring[j]]
<1>1. \A i, j \in Position : ring[i] = ring[j] => i = j
  BY DEF ListInv, RingOK
<1>2. PICK i \in 1 .. Len(ring) : ring[i] = it /\ ring' = Without(ring, i)
  BY DEF CleanupReap, unlink_process
<1>3. i = k
  BY <1>1, <1>2 DEF Position
<1>4. ring \in Seq(Addr) /\ k \in 1 .. Len(ring)
  BY DEF ListInv, TypeOK, Position
<1>5. \A j \in Position : j # k => ring[j] # it /\ state'[ring[j]] = state[ring[j]]
  <2> SUFFICES ASSUME NEW j \in Position, j # k
               PROVE  ring[j] # it /\ state'[ring[j]] = state[ring[j]]
    OBVIOUS
  <2>1. ring[j] # it /\ ring[j] \in Addr
    BY <1>1, <1>4 DEF Position
  <2> QED  BY <2>1 DEF CleanupReap, release, ListInv, TypeOK
<1>6. /\ Len(Without(ring, k)) = Len(ring) - 1
      /\ \A j \in 1 .. Len(ring) - 1 :
           Without(ring, k)[j] = IF j < k THEN ring[j] ELSE ring[j + 1]
  BY <1>4, WithoutSeq
<1> QED  BY <1>2, <1>3, <1>5, <1>6

\* cleanup_terminated frees a task: it stops if that was the head, and else goes
\* on behind it, with nothing terminated before.
LEMMA WalkReaps ==
  ASSUME ListInv, WalkInv, ListInv', CleanupReap
  PROVE  /\ WalkInv'
         /\ phase' # "cleanup" /\ head' = head
              => \A t \in allocated' : state'[t] # TERMINATED
<1>1. PICK k \in Position : it = ring[k] /\ \A j \in 1 .. k - 1 : state[ring[j]] # TERMINATED
  BY DEF CleanupReap, WalkInv
<1>2. /\ Len(ring) \in Nat /\ count = Len(ring) /\ k \in 1 .. Len(ring)
      /\ head = ring[1] /\ it \in allocated /\ 1 \in Position
  BY <1>1, Advance
<1>3. /\ Len(ring') = Len(ring) - 1
      /\ \A j \in 1 .. Len(ring) - 1 : ring'[j] = IF j < k THEN ring[j] ELSE ring[j + 1]
      /\ \A j \in Position : j # k => ring[j] # it /\ state'[ring[j]] = state[ring[j]]
  BY <1>1, Reaped
<1>4. /\ stack' = stack /\ count' = count - 1 /\ checked = 0 /\ phase = "cleanup"
      /\ CleanupContinues(next[it])
  BY DEF CleanupReap, unlink_process, WalkInv
<1>5. \A j \in 1 .. k - 1 : state'[ring'[j]] # TERMINATED /\ j \in 1 .. Len(ring) - 1
  <2> SUFFICES ASSUME NEW j \in 1 .. k - 1
               PROVE  state'[ring'[j]] # TERMINATED /\ j \in 1 .. Len(ring) - 1
    OBVIOUS
  <2>1. j \in Position /\ j # k /\ j < k /\ j \in 1 .. Len(ring) - 1
    BY <1>2 DEF Position
  <2> QED  BY <1>1, <1>3, <2>1
<1>6. it # NULL
  BY <1>2, SchedulerAssumption DEF ListInv, TypeOK
<1>7. stack' = <<>> => current' = NULL
  <2>1. stack' = <<>> => current = NULL
    BY <1>4 DEF WalkInv
  <2> QED  BY <1>6, <2>1 DEF CleanupReap, unlink_process
<1>8. count # 1 => head' = IF head = it THEN next[it] ELSE head
  BY DEF CleanupReap, unlink_process
<1>9. count = 1 => head' = NULL
  BY DEF CleanupReap, unlink_process
<1>10. ASSUME ~ (next[it] # head' /\ count' > 0)
       PROVE  WalkInv' /\ phase' # "cleanup"
  <2>1. CASE current' = NULL \/ count' = 0
    <3>1. Return
      BY <1>4, <1>10, <2>1 DEF CleanupContinues
    <3> QED  BY <1>4, <1>7, <3>1 DEF Return, WalkInv
  <2>2. CASE ~ (current' = NULL \/ count' = 0)
    <3>1. phase' = "scan" /\ it' = next'[current'] /\ checked' = checked
      BY <1>4, <1>10, <2>2 DEF CleanupContinues
    <3> QED  BY <1>4, <1>7, <2>2, <3>1, ScanBegins
  <2> QED  BY <2>1, <2>2
<1>11. CASE k = 1
  <2>1. head = it
    BY <1>1, <1>2, <1>11
  <2>2. ~ (next[it] # head' /\ count' > 0)
    BY <1>2, <1>4, <1>8, <2>1
  <2>3. head' # head
    <3>1. CASE count = 1
      BY <1>6, <1>9, <2>1, <3>1
    <3>2. CASE count # 1
      <4>1. k + 1 \in Position /\ next[it] = ring[k + 1] /\ k + 1 # k
        BY <1>1, <1>2, <1>11, <3>2, Advance
      <4> QED  BY <1>3, <1>8, <2>1, <3>2, <4>1
    <3> QED  BY <3>1, <3>2
  <2> QED  BY <1>10, <2>2, <2>3
<1>12. CASE k # 1 /\ k = Len(ring)
  <2>1. head # it /\ next[it] = head /\ count # 1
    BY <1>1, <1>2, <1>3, <1>12, Advance
  <2>2. ~ (next[it] # head' /\ count' > 0)
    BY <1>8, <2>1
  <2>3. \A t \in allocated' : state'[t] # TERMINATED
    <3> SUFFICES ASSUME NEW t \in allocated' PROVE state'[t] # TERMINATED
      OBVIOUS
    <3>1. PICK j \in Position' : t = ring'[j]
      BY DEF ListInv, NoDanglingTask, Linked
    <3>2. j \in 1 .. k - 1
      BY <1>2, <1>3, <1>12, <3>1 DEF Position
    <3> QED  BY <1>5, <3>1, <3>2
  <2> QED  BY <1>10, <2>2, <2>3
<1>13. CASE k # 1 /\ k # Len(ring)
  <2>1. head # it /\ next[it] # head /\ count # 1 /\ next[it] = ring[k + 1]
    BY <1>1, <1>2, <1>3, <1>13, Advance
  <2>2. next[it] # head' /\ count' > 0
    BY <1>2, <1>4, <1>8, <1>13, <2>1
  <2>3. it' = ring[k + 1] /\ phase' = "cleanup" /\ checked' = 0
    BY <1>4, <2>1, <2>2 DEF CleanupContinues
  <2>4. k \in Position' /\ it' = ring'[k]
    BY <1>2, <1>3, <1>13, <2>3 DEF Position
  <2> QED  BY <1>5, <1>7, <2>3, <2>4 DEF WalkInv
<1> QED  BY <1>11, <1>12, <1>13

\* Every step keeps both invariants.
LEMMA WalkInvStep == ListInv /\ WalkInv /\ [Next]_vars => ListInv' /\ WalkInv'
<1> SUFFICES ASSUME ListInv, WalkInv, [Next]_vars PROVE ListInv' /\ WalkInv'
  OBVIOUS
<1>1. ListInv'
  BY ListStep
<1>2. CASE \/ \E t \in Addr : spawn_process(t)
           \/ \E p \in 1 .. MaxPid : kill_process(p)
           \/ yield \/ kill_current \/ sleep
           \/ start_scheduler \/ stop_scheduler \/ task_returns
  BY <1>1, <1>2, WalkBegins
<1>3. CASE \/ LookupHit \/ LookupMiss \/ ScanReturns \/ StartSkip
           \/ ScanSwitches \/ StartEnters \/ UNCHANGED vars
  BY <1>1, <1>3, WalkGoesOn
<1>4. CASE ScanSkip
  BY <1>1, <1>4, WalkScans
<1>5. CASE CleanupKeep
  BY <1>1, <1>5, WalkKeeps
<1>6. CASE CleanupReap
  BY <1>1, <1>6, WalkReaps
<1> QED  BY <1>2, <1>3, <1>4, <1>5, <1>6 DEF Next, LoopStep, halted

\* Both invariants, and with them the steps' own conclusions, hold throughout.
LEMMA Walks == Spec => [](ListInv /\ WalkInv)
BY InitList, WalkInit, WalkInvStep, PTL DEF Spec

\* cleanup_terminated: a pass that does not begin by freeing the head frees
\* every terminated task.
THEOREM CleanupComplete == Spec => CleanupFreesAll
<1> DEFINE P == phase = "cleanup" /\ phase' # "cleanup" /\ head' = head
                  => \A t \in allocated' : state'[t] # TERMINATED
<1>1. ASSUME ListInv, WalkInv, [Next]_vars PROVE [P]_vars
  <2> SUFFICES ASSUME vars' # vars, phase = "cleanup", phase' # "cleanup", head' = head
               PROVE  \A t \in allocated' : state'[t] # TERMINATED
    OBVIOUS
  <2>1. ListInv'
    BY <1>1, ListStep
  <2>2. CleanupKeep \/ CleanupReap
    BY <1>1, Zenon DEF Next, LoopStep, spawn_process, kill_process, yield, kill_current, sleep,
       MarkCurrentAndYield, EnterYield, CallAllowed, start_scheduler, stop_scheduler,
       task_returns, LookupHit, LookupMiss, ScanSkip, ScanReturns, ScanSwitches,
       StartSkip, StartEnters, halted
  <2> QED  BY <1>1, <2>1, <2>2, WalkKeeps, WalkReaps
<1> QED  BY <1>1, Walks, PTL DEF Spec, CleanupFreesAll

\* get_by_pid: kill_process misses no task with the pid it was given.
THEOREM KillComplete == Spec => KillReachesTarget
<1> DEFINE P == phase = "lookup" /\ phase' # "lookup" /\ state' = state
                  => \A t \in allocated : pid[t] = wanted => state[t] = TERMINATED
<1>1. ASSUME ListInv, WalkInv, [Next]_vars PROVE [P]_vars
  <2> SUFFICES ASSUME vars' # vars, phase = "lookup", phase' # "lookup", state' = state,
                      NEW t \in allocated, pid[t] = wanted
               PROVE  state[t] = TERMINATED
    OBVIOUS
  <2>1. LookupHit \/ LookupMiss
    BY <1>1, Zenon DEF Next, LoopStep, spawn_process, kill_process, yield, kill_current, sleep,
       MarkCurrentAndYield, EnterYield, CallAllowed, start_scheduler, stop_scheduler,
       task_returns, CleanupKeep, CleanupReap, ScanSkip, ScanReturns, ScanSwitches,
       StartSkip, StartEnters, halted
  <2>2. CASE LookupHit
    <3>1. it \in allocated /\ it \in Addr
      BY <1>1 DEF ListInv, NoDanglingTask, TypeOK
    <3>2. t = it
      BY <1>1, <2>2, <3>1 DEF LookupHit, ListInv, PidsSpent, PidsUnique
    <3>3. state'[it] = TERMINATED
      BY <1>1, <2>2, <3>1 DEF LookupHit, ListInv, TypeOK
    <3> QED  BY <3>2, <3>3
  <2>3. CASE LookupMiss
    <3>1. PICK k \in Position : it = ring[k] /\ \A j \in 1 .. k - 1 : pid[ring[j]] # wanted
      BY <1>1 DEF WalkInv
    <3>2. next[it] = head /\ pid[it] # wanted
      BY <2>3 DEF LookupMiss
    <3>3. k = Len(ring)
      BY <1>1, <3>1, <3>2, Advance
    <3>4. PICK j \in Position : t = ring[j]
      BY <1>1 DEF ListInv, NoDanglingTask, Linked
    <3> QED  BY <3>1, <3>2, <3>3, <3>4 DEF Position
  <2> QED  BY <2>1, <2>2, <2>3
<1> QED  BY <1>1, Walks, PTL DEF Spec, KillReachesTarget

\* yield: unless process_list.current is null, a yield that returns without a
\* switch has looked at every task but process_list.current.
THEOREM YieldComplete == Spec => YieldOverlooksNobody
<1> DEFINE P == (/\ phase \in {"cleanup", "scan"} /\ phase' \in {"boot", "run"}
                 /\ stack' = stack /\ current' # NULL)
                  => \A t \in allocated' \ {current'} : ~ Runnable(t)'
<1>1. ASSUME ListInv, ListInv', WalkInv, [Next]_vars PROVE [P]_vars
  <2> SUFFICES ASSUME vars' # vars, phase \in {"cleanup", "scan"},
                      phase' \in {"boot", "run"}, stack' = stack, current' # NULL,
                      NEW t \in allocated' \ {current'}
               PROVE  ~ Runnable(t)'
    OBVIOUS
  <2>1. ~ ScanSwitches
    <3>1. ScanSwitches => Len(stack') = Len(stack) + 1 /\ Len(stack) \in Nat
      BY <1>1 DEF ScanSwitches, Enter, ListInv, TypeOK
    <3> QED  BY <3>1
  <2>2. ~ (CleanupKeep \/ CleanupReap)
    <3>1. allocated' # {}
      OBVIOUS
    <3>2. count' # 0
      <4>1. Len(ring') = count' /\ Linked' = allocated'
        BY <1>1 DEF ListInv, RingOK, NoDanglingTask
      <4> QED  BY <3>1, <4>1 DEF Linked, Position
    <3>3. ASSUME NEW n, CleanupContinues(n) PROVE phase' \in {phase, "scan"}
      BY <3>2, <3>3, Zenon DEF CleanupContinues
    <3>4. phase' \notin {"cleanup", "scan"}
      OBVIOUS
    <3> QED  BY <3>3, <3>4, Zenon DEF CleanupKeep, CleanupReap
  <2>3. ScanReturns
    BY <1>1, <2>1, <2>2, ZenonT(30) DEF Next, LoopStep, spawn_process, kill_process, yield,
       kill_current, sleep, MarkCurrentAndYield, EnterYield, CallAllowed, start_scheduler,
       stop_scheduler, task_returns, ScanSkip, control, LookupHit, LookupMiss,
       StartSkip, StartEnters, halted
  <2>4. /\ phase = "scan" /\ t \in allocated \ {current}
        /\ Runnable(t)' <=> Runnable(t)
    BY <2>3, Zenon DEF ScanReturns, list, tasks, Runnable
  <2> SUFFICES ~ Runnable(t)
    BY <2>4
  <2>5. checked \in Nat /\ checked <= count
    BY <1>1, <2>4 DEF WalkInv, ListInv, TypeOK
  <2>6. PICK c \in Position : /\ current = ring[c]
                              /\ checked < count => it = ring[Place(c, checked + 1)]
                              /\ \A j \in 1 .. checked : ~ Runnable(ring[Place(c, j)])
    BY <1>1, <2>4 DEF WalkInv
  <2>7. c \in 1 .. Len(ring) /\ Len(ring) \in Nat /\ count = Len(ring)
    BY <1>1, <2>6, Advance
  <2>8. checked >= Len(ring) - 1
    <3>1. CASE checked >= count
      BY <2>5, <2>7, <3>1
    <3>2. CASE ~ (checked >= count)
      <4>1. it = current /\ it = ring[Place(c, checked + 1)]
        BY <2>3, <2>5, <2>6, <2>7, <3>2 DEF ScanReturns
      <4>2. Place(c, checked + 1) \in Position
        BY <2>5, <2>7, <3>2 DEF Place, Position
      <4>3. Place(c, checked + 1) = c
        BY <1>1, <2>6, <4>1, <4>2, Zenon DEF ListInv, RingOK
      <4> QED  BY <2>5, <2>7, <3>2, <4>3 DEF Place
    <3> QED  BY <3>1, <3>2
  <2>9. PICK i \in Position : t = ring[i]
    BY <1>1, <2>4, Zenon DEF ListInv, NoDanglingTask, Linked
  <2>10. i # c /\ i \in 1 .. Len(ring)
    BY <2>6, <2>4, <2>9 DEF Position
  <2>11. CASE i > c
    <3>1. i - c \in 1 .. checked /\ Place(c, i - c) = i
      BY <2>5, <2>7, <2>8, <2>10, <2>11 DEF Place
    <3> QED  BY <2>6, <2>9, <3>1
  <2>12. CASE i < c
    <3>1. i - c + Len(ring) \in 1 .. checked /\ Place(c, i - c + Len(ring)) = i
      BY <2>5, <2>7, <2>8, <2>10, <2>12 DEF Place
    <3> QED  BY <2>6, <2>9, <3>1
  <2> QED  BY <2>7, <2>10, <2>11, <2>12
<1> QED  BY <1>1, Walks, PTL DEF Spec, YieldOverlooksNobody

\* start_scheduler's walk ends at a runnable task, or none is and it is the head.
LEMMA StartChooses ==
  ASSUME ListInv, WalkInv, StartEnters
  PROVE  \E k \in Position :
           /\ Enter(ring[k]) /\ current = NULL
           /\ \/ Runnable(ring[k]) /\ \A j \in 1 .. k - 1 : ~ Runnable(ring[j])
              \/ k = 1 /\ head = ring[1] /\ \A j \in Position : ~ Runnable(ring[j])
<1>1. PICK k \in Position : it = ring[k] /\ \A j \in 1 .. k - 1 : ~ Runnable(ring[j])
  BY DEF StartEnters, WalkInv
<1>2. current = NULL
  BY DEF StartEnters, WalkInv
<1>3. CASE Runnable(it) /\ Enter(it)
  BY <1>1, <1>2, <1>3
<1>4. CASE ~ Runnable(it) /\ next[it] = head /\ Enter(head)
  <2>1. k = Len(ring) /\ k \in 1 .. Len(ring) /\ head = ring[1] /\ 1 \in Position
    BY <1>1, <1>4, Advance
  <2>2. \A j \in Position : ~ Runnable(ring[j])
    BY <1>1, <1>4, <2>1 DEF Position
  <2> QED  BY <1>2, <1>4, <2>1, <2>2
<1> QED  BY <1>3, <1>4 DEF StartEnters

\* A task that sleeps or was killed is not entered again, but by a
\* start_scheduler that finds nothing to run.
THEOREM NoTaskRevived == Spec => NoRevival
<1> DEFINE P == \A t \in allocated :
                  state[t] \in {WAITING, TERMINATED} /\ state'[t] = ACTIVE
                    => phase = "start" /\ t = head /\ \A u \in allocated : ~ Runnable(u)
<1>1. ASSUME ListInv, WalkInv, [Next]_vars PROVE [P]_vars
  <2> SUFFICES ASSUME vars' # vars, NEW t \in allocated,
                      state[t] \in {WAITING, TERMINATED}, state'[t] = ACTIVE
               PROVE  phase = "start" /\ t = head /\ \A u \in allocated : ~ Runnable(u)
    OBVIOUS
  <2>1. /\ ACTIVE # WAITING /\ ACTIVE # TERMINATED /\ ACTIVE # READY /\ ACTIVE # NULL
        /\ READY # WAITING /\ READY # TERMINATED
    BY StateAssumption DEF ACTIVE, WAITING, TERMINATED, READY, State
  <2>2. state[t] # ACTIVE /\ ~ Runnable(t) /\ t \in Addr /\ state \in [Addr -> State \cup {NULL}]
    BY <1>1, <2>1 DEF Runnable, ListInv, TypeOK
  <2>3. state' # state
    BY <2>2
  <2>4. ASSUME NEW a, NEW s, s # ACTIVE, state' = [state EXCEPT ![a] = s] PROVE FALSE
    BY <2>2, <2>4
  <2>5. \A u \in Addr : ~ spawn_process(u)
    BY <2>1, <2>4 DEF spawn_process
  <2>6. ~ LookupHit /\ ~ CleanupReap /\ ~ kill_current /\ ~ sleep
    BY <2>1, <2>4 DEF LookupHit, CleanupReap, release, kill_current, sleep, MarkCurrentAndYield
  <2>7. ~ ScanSwitches
    <3>1. ScanSwitches => t = it
      BY <2>2 DEF ScanSwitches, Enter
    <3> QED  BY <2>2, <3>1 DEF ScanSwitches
  <2>8. StartEnters
    BY <1>1, <2>3, <2>5, <2>6, <2>7, ZenonT(30) DEF Next, LoopStep, kill_process, yield, start_scheduler,
       stop_scheduler, task_returns, CleanupKeep, LookupMiss, ScanSkip, ScanReturns,
       StartSkip, halted, tasks, vars
  <2>9. PICK k \in Position :
           /\ Enter(ring[k])
           /\ \/ Runnable(ring[k])
              \/ k = 1 /\ head = ring[1] /\ \A j \in Position : ~ Runnable(ring[j])
    BY <1>1, <2>8, StartChooses, Zenon
  <2>10. t = ring[k]
    BY <2>2, <2>9 DEF Enter
  <2>11. \A u \in allocated : \E j \in Position : u = ring[j]
    BY <1>1 DEF ListInv, NoDanglingTask, Linked
  <2> QED  BY <2>2, <2>8, <2>9, <2>10, <2>11 DEF StartEnters
<1> QED  BY <1>1, Walks, PTL DEF Spec, NoRevival

\* Cutting a sequence before and behind its k-th element leaves it out.
LEMMA CutIsWithout ==
  ASSUME NEW S, NEW s \in Seq(S), NEW k \in 1 .. Len(s)
  PROVE  Without(s, k) = SubSeq(s, 1, k - 1) \o SubSeq(s, k + 1, Len(s))
<1> DEFINE a == SubSeq(s, 1, k - 1)
           b == SubSeq(s, k + 1, Len(s))
           n == Len(s)
<1>1. n \in Nat /\ k \in 1 .. n /\ 1 \in Int /\ k - 1 \in Int /\ k + 1 \in Int
  OBVIOUS
<1>2. /\ \A i \in 1 .. k - 1 : s[i] \in S
      /\ \A i \in k + 1 .. n : s[i] \in S
  BY <1>1
<1>3. a \in Seq(S) /\ Len(a) = k - 1 /\ \A i \in 1 .. k - 1 : a[i] = s[i]
  <2>1. /\ a \in Seq(S) /\ Len(a) = IF 1 <= k - 1 THEN (k - 1) - 1 + 1 ELSE 0
        /\ \A i \in 1 .. (k - 1) - 1 + 1 : a[i] = s[1 + i - 1]
    BY <1>1, <1>2, SubSeqProperties
  <2> QED  BY <1>1, <2>1
<1>4. b \in Seq(S) /\ Len(b) = n - k /\ \A i \in 1 .. n - k : b[i] = s[k + i]
  <2>1. /\ b \in Seq(S) /\ Len(b) = IF k + 1 <= n THEN n - (k + 1) + 1 ELSE 0
        /\ \A i \in 1 .. n - (k + 1) + 1 : b[i] = s[(k + 1) + i - 1]
    BY <1>1, <1>2, SubSeqProperties
  <2> QED  BY <1>1, <2>1
<1>5. /\ Without(s, k) \in Seq(S) /\ Len(Without(s, k)) = n - 1
      /\ \A j \in 1 .. n - 1 : Without(s, k)[j] = IF j < k THEN s[j] ELSE s[j + 1]
  BY WithoutSeq
<1>a. PICK c : c = a \o b
  BY Zenon
<1>b. PICK w : w = Without(s, k)
  OBVIOUS
<1> HIDE DEF a, b, n
<1>6. /\ c \in Seq(S) /\ Len(c) = Len(a) + Len(b)
      /\ \A j \in 1 .. Len(a) + Len(b) : c[j] = IF j <= Len(a) THEN a[j] ELSE b[j - Len(a)]
  <2>1. a \in Seq(S) /\ b \in Seq(S)
    BY <1>3, <1>4
  <2>2. /\ a \o b \in Seq(S) /\ Len(a \o b) = Len(a) + Len(b)
        /\ \A j \in 1 .. Len(a) + Len(b) :
             (a \o b)[j] = IF j <= Len(a) THEN a[j] ELSE b[j - Len(a)]
    BY <2>1, ConcatProperties, Zenon
  <2> QED  BY <1>a, <2>2, Zenon
<1>c. Len(a) + Len(b) = n - 1
  BY <1>1, <1>3, <1>4
<1>7. \A j \in 1 .. n - 1 : w[j] = c[j]
  <2> SUFFICES ASSUME NEW j \in 1 .. n - 1 PROVE w[j] = c[j]
    OBVIOUS
  <2>1. w[j] = IF j < k THEN s[j] ELSE s[j + 1]
    BY <1>5, <1>b
  <2>2. c[j] = IF j <= k - 1 THEN a[j] ELSE b[j - (k - 1)]
    BY <1>3, <1>6, <1>c
  <2>3. CASE j < k
    <3>1. j \in 1 .. k - 1 /\ j <= k - 1
      BY <1>1, <2>3
    <3> QED  BY <1>3, <2>1, <2>2, <2>3, <3>1
  <2>4. CASE ~ (j < k)
    <3>1. j - (k - 1) \in 1 .. n - k /\ k + (j - (k - 1)) = j + 1 /\ ~ (j <= k - 1)
      BY <1>1, <2>4
    <3>2. b[j - (k - 1)] = s[j + 1]
      BY <1>4, <3>1
    <3> QED  BY <2>1, <2>2, <2>4, <3>1, <3>2
  <2> QED  BY <2>3, <2>4
<1>8. w \in Seq(S) /\ Len(w) = n - 1 /\ Len(c) = n - 1
  BY <1>5, <1>6, <1>b, <1>c
<1>9. w = c
  BY <1>6, <1>7, <1>8, SeqEqual
<1> QED  BY <1>9, <1>a, <1>b, Zenon DEF a, b, n

\* A loop stands on a task of the ring.
LEMMA Stands ==
  ASSUME ListInv, phase \in {"lookup", "cleanup", "scan", "start"}
  PROVE  \E k \in Position : it = ring[k]
BY DEF ListInv, NoDanglingTask, Linked

\* The pointer list implements TaskRing: link_process appends, unlink_process
\* takes out a terminated task, yield switches to the first runnable task behind
\* the current one, and start_scheduler to the first of all.
THEOREM ListImplementsRing == Spec => ImplementsTaskRing
<1>1. Init => Abstract!Init
  BY DEF Init, Abstract!Init
<1>2. ASSUME ListInv, WalkInv, [Next]_vars PROVE [Abstract!Next]_(Abstract!vars)
  <2> USE DEF Abstract!Next
  <2>1. ASSUME NEW t \in Addr, spawn_process(t) PROVE Abstract!Spawn(t)
    <3>1. \A i \in Position : ring[i] # t
      BY <1>2, <2>1 DEF spawn_process, ListInv, NoDanglingTask, Linked
    <3> QED
      BY <2>1, <3>1
      DEF spawn_process, link_process, Abstract!Spawn, Abstract!In, Abstract!Position,
          Position, READY
  <2>2. ASSUME LookupHit PROVE \E t \in Addr : Abstract!Mark(t, "TERMINATED")
    <3>1. PICK k \in Position : it = ring[k]
      BY <1>2, <2>2, Stands DEF LookupHit
    <3>2. it \in Addr
      BY <1>2, <2>2 DEF LookupHit, ListInv, NoDanglingTask, TypeOK
    <3> QED
      BY <2>2, <3>1, <3>2, Zenon DEF LookupHit, list, Abstract!Mark, Abstract!In, Abstract!Position, Position, TERMINATED
  <2>3. ASSUME NEW s, MarkCurrentAndYield(s) PROVE Abstract!Mark(current, s)
    <3>1. current \in Linked
      BY <1>2, <2>3 DEF MarkCurrentAndYield, ListInv, NoDanglingTask
    <3> QED
      BY <2>3, <3>1
      DEF MarkCurrentAndYield, EnterYield, list, Abstract!Mark, Abstract!In,
          Abstract!Position, Linked, Position
  <2>4. ASSUME kill_current \/ sleep PROVE Abstract!Next
    <3>1. current # NULL /\ current \in Addr
      BY <1>2, <2>4 DEF kill_current, sleep, MarkCurrentAndYield, ListInv, TypeOK
    <3> QED  BY <2>3, <2>4, <3>1 DEF kill_current, sleep, TERMINATED, WAITING
  <2>5. ASSUME CleanupReap PROVE \E k \in Abstract!Position : Abstract!Reap(k)
    <3>1. PICK k \in Position : it = ring[k]
      BY <1>2, <2>5, Stands DEF CleanupReap
    <3>2. ring' = Without(ring, k)
      BY <1>2, <2>5, <3>1, Reaped
    <3>3. ring \in Seq(Addr) /\ k \in 1 .. Len(ring) /\ count = Len(ring) /\ Len(ring) \in Nat
      BY <1>2 DEF ListInv, TypeOK, RingOK, Position
    <3>4. ring' = SubSeq(ring, 1, k - 1) \o SubSeq(ring, k + 1, Len(ring))
      BY <3>2, <3>3, CutIsWithout, ZenonT(30)
    <3>5. next[it] = ring[Place(k, 1)]
      BY <1>2, <3>1, Advance
    <3>6. current' = IF current # ring[k] THEN current
                     ELSE IF Len(ring) = 1 THEN NULL ELSE ring[Place(k, 1)]
      <4>1. CASE count = 1
        <5>1. \A u \in allocated : u = it
          BY <1>2, <3>1, <3>3, <4>1 DEF ListInv, NoDanglingTask, Linked, Position
        <5>2. current \in allocated \cup {NULL} /\ current' = NULL
          BY <1>2, <2>5, <4>1 DEF ListInv, NoDanglingTask, CleanupReap, unlink_process
        <5> QED  BY <3>1, <3>3, <4>1, <5>1, <5>2
      <4>2. CASE count # 1
        BY <2>5, <3>1, <3>3, <3>5, <4>2 DEF CleanupReap, unlink_process
      <4> QED  BY <4>1, <4>2
    <3>7. state[it] = "TERMINATED" /\ state' = [state EXCEPT ![it] = NULL]
      BY <2>5 DEF CleanupReap, release, TERMINATED
    <3> QED
      BY <3>1, <3>4, <3>6, <3>7, ZenonT(30) DEF Abstract!Reap, Abstract!Behind, Abstract!Position, Place, Position
  <2>6. ASSUME NEW k \in Position, Enter(ring[k]) PROVE Abstract!Run(ring[k])
    BY <2>6 DEF Enter, Abstract!Run, ACTIVE
  <2>7. ASSUME ScanSwitches
        PROVE  \E c \in Abstract!Position, k \in 1 .. Len(ring) - 1 : Abstract!Switch(c, k)
    <3>1. PICK c \in Position : /\ current = ring[c] /\ it = ring[Place(c, checked + 1)]
                                /\ \A j \in 1 .. checked : ~ Runnable(ring[Place(c, j)])
      BY <1>2, <2>7 DEF ScanSwitches, WalkInv
    <3>2. c \in 1 .. Len(ring) /\ Len(ring) \in Nat /\ count = Len(ring)
      BY <1>2, <3>1, Advance
    <3>3. /\ checked \in Nat /\ checked < count /\ Runnable(it) /\ it # current
          /\ Enter(ring[Place(c, checked + 1)])
      BY <1>2, <2>7, <3>1 DEF ScanSwitches, ListInv, TypeOK
    <3>4. Place(c, checked + 1) \in Position /\ Place(c, checked + 1) # c
      BY <3>1, <3>2, <3>3 DEF Place, Position
    <3>5. PICK k \in 1 .. Len(ring) - 1 : k = checked + 1
      BY <3>2, <3>3, <3>4 DEF Place
    <3>6. Abstract!Run(ring[Place(c, k)])
      BY <2>6, <3>3, <3>4, <3>5
    <3>7. /\ current = ring[c] /\ Runnable(ring[Place(c, k)])
          /\ \A j \in 1 .. k - 1 : ~ Runnable(ring[Place(c, j)])
      BY <3>1, <3>3, <3>5
    <3> QED
      BY <3>6, <3>7, ZenonT(30) DEF Abstract!Switch, Abstract!Behind, Abstract!Runnable, Runnable,
         Abstract!Position, Position, Place, ACTIVE, READY
  <2>8. ASSUME StartEnters PROVE \E k \in Abstract!Position : Abstract!Start(k)
    <3>1. PICK k \in Position :
            /\ Enter(ring[k]) /\ current = NULL
            /\ \/ Runnable(ring[k]) /\ \A j \in 1 .. k - 1 : ~ Runnable(ring[j])
               \/ k = 1 /\ \A j \in Position : ~ Runnable(ring[j])
      BY <1>2, <2>8, StartChooses
    <3>2. Abstract!Run(ring[k])
      BY <2>6, <3>1
    <3> QED
      BY <3>1, <3>2 DEF Abstract!Start, Abstract!Runnable, Abstract!Position, Position,
         Runnable, ACTIVE, READY
  <2>9. CASE \/ \E p \in 1 .. MaxPid : kill_process(p)
             \/ yield \/ start_scheduler \/ stop_scheduler \/ task_returns
             \/ LookupMiss \/ CleanupKeep \/ ScanSkip \/ ScanReturns \/ StartSkip
             \/ halted \/ UNCHANGED vars
    <3>1. UNCHANGED <<ring, current, state>>
      BY <2>9, Zenon DEF kill_process, yield, EnterYield, start_scheduler, stop_scheduler,
         task_returns, LookupMiss, CleanupKeep, ScanSkip, ScanReturns, StartSkip, halted,
         vars, list, tasks
    <3> QED  BY <3>1 DEF Abstract!vars
  <2> QED
    BY <1>2, <2>1, <2>2, <2>4, <2>5, <2>7, <2>8, <2>9 DEF Next, LoopStep
<1> QED  BY <1>1, <1>2, Walks, PTL DEF Spec, ImplementsTaskRing, Abstract!Spec

-----------------------------------------------------------------------------
(* Why the walks end: each has a number of steps left that only falls.     *)

Walking == {"lookup", "cleanup", "scan", "start"}

PlaceOf(s, x) == CHOOSE k \in 1 .. Len(s) : s[k] = x

\* The steps a walk has left at most.  A pass of cleanup_terminated is followed by
\* yield's search, which looks at every task once.
StepsLeft ==
  IF phase \in {"lookup", "start"} THEN Len(ring) + 1 - PlaceOf(ring, it)
  ELSE IF phase = "cleanup" THEN 2 * Len(ring) + 2 - PlaceOf(ring, it)
  ELSE IF phase = "scan" THEN Len(ring) + 1 - checked
  ELSE 0

\* In a list without repetitions a task has one place.
LEMMA PlaceOfTask ==
  ASSUME NEW s, NEW k \in 1 .. Len(s), \A i, j \in 1 .. Len(s) : s[i] = s[j] => i = j
  PROVE  PlaceOf(s, s[k]) = k
<1>1. \E i \in 1 .. Len(s) : s[i] = s[k]
  OBVIOUS
<1>2. PlaceOf(s, s[k]) \in 1 .. Len(s) /\ s[PlaceOf(s, s[k])] = s[k]
  BY <1>1 DEF PlaceOf
<1> QED  BY <1>2

\* A walk over n tasks never has more than 2n + 1 steps left.
LEMMA StepsBounded ==
  ASSUME ListInv, WalkInv, phase \in Walking
  PROVE  /\ StepsLeft \in 1 .. 2 * count + 1 /\ count \in Nat /\ count = Len(ring)
         /\ phase = "cleanup" => StepsLeft > Len(ring) + 1
<1>1. count = Len(ring) /\ count \in Nat /\ checked \in Nat
  BY DEF ListInv, TypeOK, RingOK
<1>2. CASE phase = "scan"
  <2>1. checked <= count /\ StepsLeft = Len(ring) + 1 - checked
    BY <1>2 DEF WalkInv, StepsLeft
  <2> QED  BY <1>1, <1>2, <2>1
<1>3. CASE phase # "scan"
  <2>1. PICK k \in Position : it = ring[k]
    BY <1>3, Stands DEF Walking
  <2>2. k \in 1 .. Len(ring) /\ PlaceOf(ring, it) = k
    BY <2>1, PlaceOfTask DEF ListInv, RingOK, Position
  <2>3. /\ phase \in {"lookup", "start"} => StepsLeft = Len(ring) + 1 - k
        /\ phase = "cleanup" => StepsLeft = 2 * Len(ring) + 2 - k
    BY <2>2 DEF StepsLeft
  <2> QED  BY <1>1, <1>3, <2>2, <2>3 DEF Walking
<1> QED  BY <1>2, <1>3

\* The walks that only read: each step goes on to the following place, or leaves.
LEMMA ReadingShortens ==
  ASSUME ListInv, WalkInv,
         \/ LookupHit \/ LookupMiss \/ ScanSkip \/ ScanReturns \/ ScanSwitches
         \/ StartSkip \/ StartEnters
  PROVE  StepsLeft' \in 0 .. StepsLeft - 1
<1>1. phase \in Walking /\ ring' = ring
  BY Zenon DEF LookupHit, LookupMiss, ScanSkip, ScanReturns, ScanSwitches, StartSkip, StartEnters,
         Enter, Walking, list
<1>2. StepsLeft \in 1 .. 2 * count + 1 /\ count \in Nat /\ count = Len(ring)
  BY <1>1, StepsBounded
<1>3. CASE phase' \in {"boot", "run"}
  <2>1. StepsLeft' = 0
    BY <1>3 DEF StepsLeft
  <2> QED  BY <1>2, <2>1
<1>4. CASE phase' \notin {"boot", "run"} /\ phase = "scan"
  <2>1. /\ phase' = "scan" /\ checked < count /\ checked' = checked + 1 /\ checked \in Nat
    BY <1>4, Zenon DEF LookupHit, LookupMiss, ScanSkip, ScanReturns, ScanSwitches, StartSkip,
         StartEnters, Enter, Return, control, ListInv, TypeOK
  <2>2. StepsLeft = Len(ring) + 1 - checked /\ StepsLeft' = Len(ring) + 1 - checked'
    BY <1>1, <1>4, <2>1 DEF StepsLeft
  <2> QED  BY <1>2, <2>1, <2>2
<1>5. CASE phase' \notin {"boot", "run"} /\ phase # "scan"
  <2>1. /\ phase \in {"lookup", "start"} /\ phase' = phase
        /\ next[it] # head /\ it' = next[it]
    BY <1>5, Zenon DEF LookupHit, LookupMiss, ScanSkip, ScanReturns, ScanSwitches, StartSkip,
         StartEnters, Enter, Return, control
  <2>2. PICK k \in Position : it = ring[k]
    BY <2>1, Stands
  <2>3. k + 1 \in Position /\ it' = ring[k + 1] /\ k \in 1 .. Len(ring)
    BY <2>1, <2>2, Advance
  <2>4. PlaceOf(ring, it) = k /\ PlaceOf(ring, it') = k + 1
    BY <2>2, <2>3, PlaceOfTask DEF ListInv, RingOK, Position
  <2>5. StepsLeft = Len(ring) + 1 - k /\ StepsLeft' = Len(ring) + 1 - (k + 1)
    BY <1>1, <2>1, <2>4 DEF StepsLeft
  <2> QED  BY <1>2, <2>3, <2>5 DEF Position
<1> QED  BY <1>3, <1>4, <1>5

\* A pass of cleanup_terminated: a task freed or kept is one place fewer to visit, and
\* the search that follows has no more steps than the list has places.
LEMMA CleanupShortens ==
  ASSUME ListInv, WalkInv, ListInv', CleanupKeep \/ CleanupReap
  PROVE  StepsLeft' \in 0 .. StepsLeft - 1
<1>1. phase = "cleanup" /\ checked = 0 /\ CleanupContinues(next[it])
  BY Zenon DEF CleanupKeep, CleanupReap, WalkInv
<1>2. /\ StepsLeft \in Nat /\ count \in Nat /\ count = Len(ring)
      /\ StepsLeft > Len(ring) + 1
  BY <1>1, StepsBounded DEF Walking
<1>3. PICK k \in Position : it = ring[k]
  BY <1>1, Stands
<1>4. k \in 1 .. Len(ring) /\ PlaceOf(ring, it) = k
  BY <1>3, PlaceOfTask DEF ListInv, RingOK, Position
<1>5. StepsLeft = 2 * Len(ring) + 2 - k
  BY <1>1, <1>4 DEF StepsLeft
<1>6. Len(ring') \in Nat /\ Len(ring') <= Len(ring)
  <2>1. CleanupKeep => ring' = ring
    BY DEF CleanupKeep, list
  <2>2. CleanupReap => Len(ring') = Len(ring) - 1
    BY <1>3, Reaped
  <2> QED  BY <1>2, <1>4, <2>1, <2>2
<1>7. CASE ~ (next[it] # head' /\ count' > 0)
  <2>1. phase' \in {"boot", "run"} \/ (phase' = "scan" /\ checked' = 0)
    BY <1>1, <1>7 DEF CleanupContinues, Return
  <2>2. StepsLeft' = 0 \/ StepsLeft' = Len(ring') + 1 - 0
    BY <2>1 DEF StepsLeft
  <2> QED  BY <1>2, <1>6, <2>2
<1>8. CASE next[it] # head' /\ count' > 0
  <2>1. phase' = "cleanup" /\ it' = next[it]
    BY <1>1, <1>8 DEF CleanupContinues
  <2>2. \E i \in 1 .. Len(ring') : it' = ring'[i] /\ Len(ring') - i < Len(ring) - k
    <3>1. CASE CleanupKeep
      <4>1. ring' = ring /\ head' = head
        BY <3>1 DEF CleanupKeep, list
      <4>2. k + 1 \in Position /\ it' = ring[k + 1]
        BY <1>3, <1>8, <2>1, <4>1, Advance
      <4> QED  BY <1>2, <1>4, <4>1, <4>2 DEF Position
    <3>2. CASE CleanupReap
      <4>1. /\ Len(ring') = Len(ring) - 1
            /\ \A j \in 1 .. Len(ring) - 1 : ring'[j] = IF j < k THEN ring[j] ELSE ring[j + 1]
        BY <1>3, <3>2, Reaped
      <4>2. CASE k # Len(ring)
        <5>1. it' = ring[k + 1]
          BY <1>3, <2>1, <4>2, Advance
        <5>2. k \in 1 .. Len(ring) - 1
          BY <1>2, <1>4, <4>2
        <5> QED  BY <1>2, <4>1, <5>1, <5>2
      <4>3. CASE k = Len(ring)
        <5>1. next[it] = head /\ head = ring[1]
          BY <1>3, <4>3, Advance
        <5>2. count' = count - 1 /\ (count # 1 => head' = IF head = it THEN next[it] ELSE head)
          BY <3>2 DEF CleanupReap, unlink_process
        <5>3. count # 1
          BY <1>8, <5>2
        <5>4. next[it] = head'
          BY <5>1, <5>2, <5>3
        <5> QED  BY <1>8, <5>4
      <4> QED  BY <4>2, <4>3
    <3> QED  BY <3>1, <3>2
  <2>3. PICK i \in 1 .. Len(ring') : it' = ring'[i] /\ Len(ring') - i < Len(ring) - k
    BY <2>2
  <2>4. PlaceOf(ring', it') = i
    BY <2>3, PlaceOfTask DEF ListInv, RingOK, Position
  <2>5. StepsLeft' = 2 * Len(ring') + 2 - i
    BY <2>1, <2>4 DEF StepsLeft
  <2> QED  BY <1>2, <1>4, <1>5, <1>6, <2>3, <2>5
<1> QED  BY <1>7, <1>8

\* Every walk over a list of n tasks (get_by_pid, cleanup_terminated with yield's search
\* behind it, start_scheduler) ends after at most 2n + 1 steps, whatever it frees: while
\* it runs nothing else does, and each of its steps leaves fewer.
THEOREM WalksShorten ==
  Spec => [][(phase \in Walking) =>
               /\ LoopStep
               /\ StepsLeft \in 1 .. 2 * count + 1
               /\ StepsLeft' \in 0 .. StepsLeft - 1]_vars
<1> DEFINE P == phase \in Walking =>
                  /\ LoopStep
                  /\ StepsLeft \in 1 .. 2 * count + 1
                  /\ StepsLeft' \in 0 .. StepsLeft - 1
<1>1. ASSUME ListInv, WalkInv, [Next]_vars PROVE [P]_vars
  <2> SUFFICES ASSUME vars' # vars, phase \in Walking
               PROVE  /\ LoopStep /\ StepsLeft \in 1 .. 2 * count + 1
                      /\ StepsLeft' \in 0 .. StepsLeft - 1
    OBVIOUS
  <2>1. ListInv'
    BY <1>1, ListStep
  <2>2. LoopStep
    BY <1>1 DEF Next, Walking, spawn_process, kill_process, yield, kill_current, sleep,
       MarkCurrentAndYield, EnterYield, CallAllowed, start_scheduler, stop_scheduler,
       task_returns, halted
  <2>3. StepsLeft \in 1 .. 2 * count + 1
    BY <1>1, StepsBounded
  <2>4. StepsLeft' \in 0 .. StepsLeft - 1
    BY <1>1, <2>1, <2>2, ReadingShortens, CleanupShortens DEF LoopStep
  <2> QED  BY <2>2, <2>3, <2>4
<1> QED  BY <1>1, Walks, PTL DEF Spec
=============================================================================
