----------------------------- MODULE HeapProofs -----------------------------
(***************************************************************************)
(* Proofs about the heap, for all header, frame and request sizes: splits  *)
(* and merges keep every page tiled, blocks of one page never overlap,     *)
(* free_size is the free bytes and a header per split, and kfree loses     *)
(* nothing of the first page.                                              *)
(***************************************************************************)
EXTENDS Heap, SequenceTheorems, WellFoundedInduction, TLAPS

\* The provers of the leaves that name none.
USE SMTT(30), ZenonT(30)

\* The fields of the k-th segment, kept folded in the arithmetic below.
Addr(segs, k) == segs[k].addr
Size(segs, k) == segs[k].size
End(segs, k) == Addr(segs, k) + Size(segs, k)

\* A list of segments that tiles a page of "total" bytes.  That the order of
\* the list is the order of the addresses follows from the tiling by
\* induction; as part of the invariant it is kept step by step.
SegsOK(segs, total) ==
  /\ segs \in Seq(Segments)
  /\ Len(segs) > 0
  /\ Addr(segs, 1) = PageHdr + SegHdr
  /\ \A k \in 1 .. Len(segs) - 1 : Addr(segs, k + 1) = End(segs, k) + SegHdr
  /\ End(segs, Len(segs)) = total
  /\ \A j, k \in 1 .. Len(segs) :
       j < k => End(segs, j) + SegHdr <= Addr(segs, k)

\* A u32 result, however the difference before the cast came out, is a number.
LEMMA ModNat ==
  ASSUME NEW x \in Int, NEW m \in Nat, m > 0
  PROVE  x % m \in Nat
OBVIOUS

\* The fields of a segment of a list have their types.
LEMMA SegFields ==
  ASSUME NEW segs \in Seq(Segments), NEW i \in 1 .. Len(segs)
  PROVE  /\ segs[i] \in Segments
         /\ Addr(segs, i) \in Nat /\ Size(segs, i) \in Nat
         /\ End(segs, i) \in Nat
         /\ End(segs, i) = Addr(segs, i) + Size(segs, i)
         /\ segs[i].free \in BOOLEAN
<1>1. segs[i] \in Segments
  OBVIOUS
<1>2. segs[i].addr \in Nat /\ segs[i].size \in Nat /\ segs[i].free \in BOOLEAN
  BY <1>1 DEF Segments
<1> QED  BY <1>1, <1>2 DEF Addr, Size, End

\* What a new segment holds.
LEMMA SegmentFields ==
  ASSUME NEW a \in Nat, NEW n \in Nat, NEW f \in BOOLEAN
  PROVE  /\ Segment(a, n, f) \in Segments
         /\ Segment(a, n, f).addr = a /\ Segment(a, n, f).size = n
         /\ Segment(a, n, f).free = f
BY DEF Segment, Segments

\* The rest of the argument about a list is arithmetic.  A new list that
\* matches the old one except at one place is a tiling again: here one place
\* became two (alloc_segment's split) ...
LEMMA SplitTiling ==
  ASSUME NEW segs, NEW new, NEW total, SegsOK(segs, total),
         new \in Seq(Segments), Len(new) = Len(segs) + 1,
         NEW i \in 1 .. Len(segs),
         \A k \in 1 .. i - 1 : new[k] = segs[k],
         \A k \in i + 2 .. Len(segs) + 1 : new[k] = segs[k - 1],
         Addr(new, i) = Addr(segs, i),
         Addr(new, i + 1) = End(new, i) + SegHdr,
         End(new, i + 1) = End(segs, i)
  PROVE  SegsOK(new, total)
<1> DEFINE n == Len(segs)
<1>1. n \in Nat /\ i \in 1 .. n /\ SegHdr \in Nat /\ PageHdr \in Nat
  BY HeapAssumption DEF SegsOK
<1>2. \A k \in 1 .. n : /\ Addr(segs, k) \in Nat /\ Size(segs, k) \in Nat
                        /\ End(segs, k) \in Nat
                        /\ End(segs, k) = Addr(segs, k) + Size(segs, k)
  BY SegFields DEF SegsOK
<1>3. \A k \in 1 .. n + 1 : /\ Addr(new, k) \in Nat /\ Size(new, k) \in Nat
                            /\ End(new, k) \in Nat
                            /\ End(new, k) = Addr(new, k) + Size(new, k)
  BY <1>1, SegFields
<1>4. /\ Addr(segs, 1) = PageHdr + SegHdr
      /\ \A k \in 1 .. n - 1 : Addr(segs, k + 1) = End(segs, k) + SegHdr
      /\ End(segs, n) = total
      /\ \A j, k \in 1 .. n : j < k => End(segs, j) + SegHdr <= Addr(segs, k)
  BY DEF SegsOK
<1>5. /\ \A k \in 1 .. i - 1 : Addr(new, k) = Addr(segs, k) /\ End(new, k) = End(segs, k)
      /\ \A k \in i + 2 .. n + 1 : /\ Addr(new, k) = Addr(segs, k - 1)
                                   /\ End(new, k) = End(segs, k - 1)
  BY DEF Addr, Size, End
<1>6. Addr(new, 1) = PageHdr + SegHdr
  BY <1>1, <1>4, <1>5
<1>7. \A k \in 1 .. n : Addr(new, k + 1) = End(new, k) + SegHdr
  <2> SUFFICES ASSUME NEW k \in 1 .. n PROVE Addr(new, k + 1) = End(new, k) + SegHdr
    OBVIOUS
  <2>1. CASE k + 1 <= i
    BY <1>1, <1>4, <1>5, <2>1
  <2>2. CASE k = i
    BY <2>2
  <2>3. CASE k = i + 1
    <3>1. Addr(new, k + 1) = Addr(segs, i + 1) /\ i \in 1 .. n - 1
      BY <1>1, <1>5, <2>3
    <3> QED  BY <1>4, <2>3, <3>1
  <2>4. CASE k > i + 1
    <3>1. Addr(new, k + 1) = Addr(segs, k) /\ End(new, k) = End(segs, k - 1)
          /\ k - 1 \in 1 .. n - 1
      BY <1>1, <1>5, <2>4
    <3> QED  BY <1>1, <1>4, <3>1
  <2> QED  BY <1>1, <2>1, <2>2, <2>3, <2>4
<1>8. End(new, n + 1) = total
  BY <1>1, <1>4, <1>5
<1>9. \A j, k \in 1 .. n + 1 : j < k => End(new, j) + SegHdr <= Addr(new, k)
  <2> DEFINE Old(k) == IF k <= i THEN k ELSE k - 1
  <2>1. /\ Addr(segs, i) \in Nat /\ Addr(new, i) \in Nat /\ Size(new, i) \in Nat
        /\ Addr(new, i + 1) \in Nat /\ Size(new, i + 1) \in Nat
        /\ End(new, i) = Addr(new, i) + Size(new, i)
        /\ End(new, i + 1) = Addr(new, i + 1) + Size(new, i + 1)
    <3>1. i \in 1 .. n + 1 /\ i + 1 \in 1 .. n + 1
      BY <1>1
    <3> QED  BY <1>2, <1>3, <3>1
  <2>2. Addr(segs, i) <= Addr(new, i + 1) /\ End(new, i) <= End(segs, i)
    BY <1>1, <2>1
  <2>3. \A k \in 1 .. n + 1 : /\ Old(k) \in 1 .. n
                              /\ Addr(segs, Old(k)) <= Addr(new, k)
                              /\ End(new, k) <= End(segs, Old(k))
    <3> SUFFICES ASSUME NEW k \in 1 .. n + 1
                 PROVE  /\ Old(k) \in 1 .. n
                        /\ Addr(segs, Old(k)) <= Addr(new, k)
                        /\ End(new, k) <= End(segs, Old(k))
      OBVIOUS
    <3>1. CASE k < i
      <4>1. Old(k) = k /\ k \in 1 .. i - 1 /\ k \in 1 .. n
        BY <1>1, <3>1
      <4> QED  BY <1>2, <1>5, <4>1
    <3>2. CASE k = i
      <4>1. Old(k) = i
        BY <3>2
      <4> QED  BY <1>1, <2>1, <2>2, <3>2, <4>1
    <3>3. CASE k = i + 1
      <4>1. Old(k) = i
        BY <1>1, <3>3
      <4>2. End(segs, i) \in Nat
        BY <1>2
      <4> QED  BY <1>1, <2>2, <3>3, <4>1, <4>2
    <3>4. CASE k > i + 1
      <4>1. Old(k) = k - 1 /\ k \in i + 2 .. n + 1 /\ k - 1 \in 1 .. n
        BY <1>1, <3>4
      <4>2. Addr(new, k) = Addr(segs, k - 1) /\ End(new, k) = End(segs, k - 1)
        BY <1>5, <4>1
      <4>3. Addr(segs, k - 1) \in Nat /\ End(segs, k - 1) \in Nat
        BY <1>2, <4>1
      <4> HIDE DEF Old
      <4> QED  BY <4>1, <4>2, <4>3
    <3> QED  BY <1>1, <3>1, <3>2, <3>3, <3>4
  <2> SUFFICES ASSUME NEW j \in 1 .. n + 1, NEW k \in 1 .. n + 1, j < k
               PROVE  End(new, j) + SegHdr <= Addr(new, k)
    OBVIOUS
  <2>4. CASE j = i /\ k = i + 1
    BY <1>1, <2>1, <2>4
  <2>5. CASE ~(j = i /\ k = i + 1)
    <3>1. Old(j) < Old(k)
      BY <1>1, <2>5
    <3> HIDE DEF Old
    <3>2. End(segs, Old(j)) + SegHdr <= Addr(segs, Old(k))
      BY <1>4, <2>3, <3>1
    <3>3. /\ End(segs, Old(j)) \in Nat /\ Addr(segs, Old(k)) \in Nat
          /\ End(new, j) \in Nat /\ Addr(new, k) \in Nat
      BY <1>2, <1>3, <2>3, Zenon
    <3>4. End(new, j) <= End(segs, Old(j)) /\ Addr(segs, Old(k)) <= Addr(new, k)
      BY <2>3
    <3>5. ASSUME NEW a \in Nat, NEW b \in Nat, NEW c \in Nat, NEW d \in Nat,
                 a <= b, b + SegHdr <= c, c <= d
          PROVE  a + SegHdr <= d
      BY <1>1, <3>5
    <3> QED  BY <3>2, <3>3, <3>4, <3>5
  <2> QED  BY <2>4, <2>5
<1> QED  BY <1>1, <1>6, <1>7, <1>8, <1>9 DEF SegsOK
\* ... here two became one (try_segment_merge) ...
LEMMA MergeTiling ==
  ASSUME NEW segs, NEW new, NEW total, SegsOK(segs, total),
         new \in Seq(Segments), Len(new) = Len(segs) - 1,
         NEW i \in 1 .. Len(segs) - 1,
         \A k \in 1 .. i - 1 : new[k] = segs[k],
         \A k \in i + 1 .. Len(segs) - 1 : new[k] = segs[k + 1],
         Addr(new, i) = Addr(segs, i),
         End(new, i) = End(segs, i + 1)
  PROVE  SegsOK(new, total)
<1> DEFINE n == Len(segs) - 1
<1>1. n \in Nat /\ i \in 1 .. n /\ SegHdr \in Nat /\ PageHdr \in Nat
  BY HeapAssumption DEF SegsOK
<1>2. \A k \in 1 .. n + 1 : Addr(segs, k) \in Nat /\ End(segs, k) \in Nat
  BY SegFields DEF SegsOK
<1>3. \A k \in 1 .. n : Addr(new, k) \in Nat /\ End(new, k) \in Nat
  BY <1>1, SegFields
<1>4. /\ Addr(segs, 1) = PageHdr + SegHdr
      /\ \A k \in 1 .. n : Addr(segs, k + 1) = End(segs, k) + SegHdr
      /\ End(segs, n + 1) = total
      /\ \A j, k \in 1 .. n + 1 : j < k => End(segs, j) + SegHdr <= Addr(segs, k)
  BY DEF SegsOK
<1>5. /\ \A k \in 1 .. i - 1 : Addr(new, k) = Addr(segs, k) /\ End(new, k) = End(segs, k)
      /\ \A k \in i + 1 .. n : /\ Addr(new, k) = Addr(segs, k + 1)
                               /\ End(new, k) = End(segs, k + 1)
  BY DEF Addr, Size, End
<1>6. Addr(new, 1) = PageHdr + SegHdr
  BY <1>1, <1>4, <1>5
<1>7. \A k \in 1 .. n - 1 : Addr(new, k + 1) = End(new, k) + SegHdr
  <2> SUFFICES ASSUME NEW k \in 1 .. n - 1
               PROVE  Addr(new, k + 1) = End(new, k) + SegHdr
    OBVIOUS
  <2>1. CASE k + 1 <= i
    BY <1>1, <1>4, <1>5, <2>1
  <2>2. CASE k >= i
    <3>1. Addr(new, k + 1) = Addr(segs, (k + 1) + 1) /\ End(new, k) = End(segs, k + 1)
      <4>1. k + 1 \in i + 1 .. n /\ (k = i \/ k \in i + 1 .. n)
        BY <1>1, <2>2
      <4>2. Addr(new, k + 1) = Addr(segs, (k + 1) + 1)
        BY <1>5, <4>1, Zenon
      <4>3. CASE k = i
        BY <4>2, <4>3
      <4>4. CASE k \in i + 1 .. n
        BY <1>5, <4>2, <4>4, Zenon
      <4> QED  BY <4>1, <4>3, <4>4
    <3> QED  BY <1>1, <1>4, <3>1
  <2> QED  BY <1>1, <2>1, <2>2
<1>8. End(new, n) = total
  BY <1>1, <1>4, <1>5
<1>9. \A j, k \in 1 .. n : j < k => End(new, j) + SegHdr <= Addr(new, k)
  <2> SUFFICES ASSUME NEW j \in 1 .. n, NEW k \in 1 .. n, j < k
               PROVE  End(new, j) + SegHdr <= Addr(new, k)
    OBVIOUS
  <2> DEFINE First == IF k <= i THEN k ELSE k + 1
             Last == IF j < i THEN j ELSE j + 1
  <2>1. First \in 1 .. n + 1 /\ Last \in 1 .. n + 1 /\ Last < First
    BY <1>1
  <2>2. Addr(new, k) = Addr(segs, First)
    BY <1>1, <1>5
  <2>3. End(new, j) = End(segs, Last)
    BY <1>1, <1>5
  <2> HIDE DEF First, Last
  <2> QED  BY <1>4, <2>1, <2>2, <2>3
<1> QED  BY <1>1, <1>6, <1>7, <1>8, <1>9 DEF SegsOK

\* ... and here only a mark changed.
LEMMA MarkTiling ==
  ASSUME NEW segs, NEW new, NEW total, SegsOK(segs, total),
         new \in Seq(Segments), Len(new) = Len(segs),
         \A k \in 1 .. Len(segs) :
           Addr(new, k) = Addr(segs, k) /\ Size(new, k) = Size(segs, k)
  PROVE  SegsOK(new, total)
<1>1. Len(segs) \in Nat
  BY DEF SegsOK
<1>2. \A k \in 1 .. Len(segs) : End(new, k) = End(segs, k)
  BY DEF End
<1> QED  BY <1>1, <1>2 DEF SegsOK
\* A segment that serves a block of this address and size (see LiveBacked).
Backs(seg, a, size) ==
  /\ seg.addr = a /\ ~seg.free
  /\ seg.size >= size /\ seg.size <= size + SegHdr

\* What a page's new segment list has to do with the old one, after
\* alloc_segment and after kfree's change of a segment.
AllocResult(segs, new, total, i, size) ==
  /\ SegsOK(new, total)
  /\ i \in 1 .. Len(new) /\ Backs(new[i], segs[i].addr, size)
  /\ \A j \in 1 .. Len(segs) : j # i => \E k \in 1 .. Len(new) : new[k] = segs[j]

FreeResult(segs, new, total, i) ==
  /\ SegsOK(new, total)
  /\ \A j \in 1 .. Len(segs) :
       j # i /\ ~segs[j].free => \E k \in 1 .. Len(new) : new[k] = segs[j]

\* alloc_segment on a free segment that is large enough: the page stays
\* tiled, the segment now backs the block, and all others are still there.
LEMMA AllocSegsOK ==
  ASSUME NEW segs, NEW total, SegsOK(segs, total),
         NEW i \in 1 .. Len(segs), NEW size \in Nat,
         segs[i].free, segs[i].size >= size
  PROVE  AllocResult(segs, AllocSegs(segs, i, size), total, i, size)
<1> DEFINE n == Len(segs)
<1>1. n \in Nat /\ i \in 1 .. n /\ SegHdr \in Nat /\ segs \in Seq(Segments)
  BY HeapAssumption DEF SegsOK
<1>2. \A k \in 1 .. n : segs[k] \in Segments
  BY <1>1
<1>3. segs[i].addr \in Nat /\ segs[i].size \in Nat
  BY <1>1, SegFields DEF Addr, Size
<1>4. CASE Splits(segs[i], size)
  <2> DEFINE used == Segment(segs[i].addr, size, FALSE)
             rest == Segment(segs[i].addr + size + SegHdr,
                             segs[i].size - size - SegHdr, TRUE)
             new == SplitSegs(segs, i, size)
  <2>1. segs[i].size - size - SegHdr \in Nat /\ segs[i].addr + size + SegHdr \in Nat
    <3> DEFINE a == segs[i].addr
               z == segs[i].size
    <3>1. a \in Nat /\ z \in Nat
      BY <1>3
    <3>2. z > size + SegHdr
      BY <1>4 DEF Splits
    <3> HIDE DEF a, z
    <3>3. z - size - SegHdr \in Nat /\ a + size + SegHdr \in Nat
      BY <1>1, <3>1, <3>2
    <3> QED  BY <3>3 DEF a, z
  <2>2. /\ used \in Segments /\ used.addr = segs[i].addr
        /\ used.size = size /\ ~used.free
    <3>1. used \in Segments
      BY <1>3, SegmentFields, Zenon
    <3>2. used.addr = segs[i].addr /\ used.size = size
      BY DEF Segment
    <3>3. ~used.free
      BY DEF Segment
    <3> QED  BY <3>1, <3>2, <3>3, Zenon
  <2>3. /\ rest \in Segments /\ rest.addr = segs[i].addr + size + SegHdr
        /\ rest.size = segs[i].size - size - SegHdr
    <3>1. rest \in Segments
      <4> DEFINE a == segs[i].addr + size + SegHdr
                 z == segs[i].size - size - SegHdr
      <4>1. a \in Nat /\ z \in Nat
        BY <2>1
      <4> HIDE DEF a, z
      <4>2. Segment(a, z, TRUE) \in Segments
        BY <4>1, SegmentFields, Zenon
      <4> QED  BY <4>2, Zenon DEF a, z
    <3>2. /\ rest.addr = segs[i].addr + size + SegHdr
          /\ rest.size = segs[i].size - size - SegHdr
      BY DEF Segment
    <3> QED  BY <3>1, <3>2, Zenon
  <2>4. new = [k \in 1 .. n + 1 |-> IF k < i THEN segs[k]
                                    ELSE IF k = i THEN used
                                    ELSE IF k = i + 1 THEN rest ELSE segs[k - 1]]
    BY DEF SplitSegs
  <2> HIDE DEF used, rest, new
  <2>5. \A k \in 1 .. n + 1 : new[k] \in Segments
    BY <1>1, <1>2, <2>2, <2>3, <2>4
  <2>6. new \in Seq(Segments) /\ Len(new) = n + 1
    BY <1>1, <2>4, <2>5, IsASeq
  <2>7. /\ \A k \in 1 .. i - 1 : new[k] = segs[k]
        /\ \A k \in i + 2 .. n + 1 : new[k] = segs[k - 1]
        /\ new[i] = used /\ new[i + 1] = rest
    BY <1>1, <2>4
  <2>8. /\ Addr(new, i) = Addr(segs, i)
        /\ Addr(new, i + 1) = End(new, i) + SegHdr
        /\ End(new, i + 1) = End(segs, i)
    <3>1. Addr(new, i) = segs[i].addr /\ Size(new, i) = size
      BY <2>2, <2>7 DEF Addr, Size
    <3>2. /\ Addr(new, i + 1) = segs[i].addr + size + SegHdr
          /\ Size(new, i + 1) = segs[i].size - size - SegHdr
      BY <2>3, <2>7 DEF Addr, Size
    <3>3. Addr(segs, i) = segs[i].addr /\ Size(segs, i) = segs[i].size
      BY DEF Addr, Size
    <3> DEFINE a == segs[i].addr
               z == segs[i].size
    <3>4. a \in Nat /\ z \in Nat
      BY <1>3
    <3> HIDE DEF a, z
    <3>5. (a + size + SegHdr) + (z - size - SegHdr) = a + z
      BY <1>1, <3>4
    <3> QED  BY <3>1, <3>2, <3>3, <3>5 DEF End, a, z
  <2>9. SegsOK(new, total)
    BY <2>6, <2>7, <2>8, SplitTiling
  <2>10. Backs(new[i], segs[i].addr, size)
    BY <1>1, <2>2, <2>7 DEF Backs
  <2>11. ASSUME NEW j \in 1 .. n, j # i
         PROVE  \E k \in 1 .. n + 1 : new[k] = segs[j]
    <3>1. CASE j < i
      <4>1. j \in 1 .. i - 1 /\ j \in 1 .. n + 1
        BY <1>1, <3>1
      <4> QED  BY <2>7, <4>1
    <3>2. CASE j > i
      <4>1. j + 1 \in i + 2 .. n + 1 /\ j + 1 \in 1 .. n + 1 /\ (j + 1) - 1 = j
        BY <1>1, <3>2
      <4>2. new[j + 1] = segs[j]
        BY <2>7, <4>1
      <4> QED  BY <4>1, <4>2
    <3> QED  BY <1>1, <2>11, <3>1, <3>2
  <2>12. AllocSegs(segs, i, size) = new
    BY <1>4 DEF AllocSegs, new
  <2>13. i \in 1 .. n + 1
    BY <1>1
  <2> QED  BY <2>6, <2>9, <2>10, <2>11, <2>12, <2>13 DEF AllocResult
<1>5. CASE ~Splits(segs[i], size)
  <2> DEFINE used == Segment(segs[i].addr, segs[i].size, FALSE)
             new == MarkSegs(segs, i, FALSE)
  <2>1. /\ used \in Segments /\ used.addr = segs[i].addr
        /\ used.size = segs[i].size /\ ~used.free
    <3>1. used \in Segments
      BY <1>3, SegmentFields, Zenon
    <3>2. used.addr = segs[i].addr /\ used.size = segs[i].size
      BY DEF Segment
    <3>3. ~used.free
      BY DEF Segment
    <3> QED  BY <3>1, <3>2, <3>3, Zenon
  <2>2. new = [segs EXCEPT ![i] = used]
    BY DEF MarkSegs
  <2> HIDE DEF used, new
  <2>3. new \in Seq(Segments) /\ Len(new) = n
    BY <1>1, <2>1, <2>2
  <2>4. new[i] = used /\ \A k \in 1 .. n : k # i => new[k] = segs[k]
    BY <1>1, <2>2
  <2>5. \A k \in 1 .. n : Addr(new, k) = Addr(segs, k) /\ Size(new, k) = Size(segs, k)
    BY <2>1, <2>4 DEF Addr, Size
  <2>6. SegsOK(new, total)
    BY <2>3, <2>5, MarkTiling
  <2>7. Backs(new[i], segs[i].addr, size)
    BY <1>1, <1>3, <1>5, <2>1, <2>4 DEF Backs, Splits
  <2>8. AllocSegs(segs, i, size) = new
    BY <1>5 DEF AllocSegs, new
  <2> QED  BY <2>3, <2>4, <2>6, <2>7, <2>8 DEF AllocResult
<1> QED  BY <1>4, <1>5

\* kfree's change of a segment, merge included: the page stays tiled, and
\* every other segment in use is still there.
LEMMA FreeSegsOK ==
  ASSUME NEW segs, NEW total, SegsOK(segs, total), NEW i \in 1 .. Len(segs)
  PROVE  FreeResult(segs, FreeSegs(segs, i), total, i)
<1> DEFINE n == Len(segs)
<1>1. n \in Nat /\ i \in 1 .. n /\ SegHdr \in Nat /\ segs \in Seq(Segments)
  BY HeapAssumption DEF SegsOK
<1>2. \A k \in 1 .. n : segs[k] \in Segments
  BY <1>1
<1>3. segs[i].addr \in Nat /\ segs[i].size \in Nat
  BY <1>1, SegFields DEF Addr, Size
<1>4. CASE Merges(segs, i)
  <2> DEFINE size == segs[i].size + segs[i + 1].size + SegHdr
             joined == Segment(segs[i].addr, size, TRUE)
             new == MergeSegs(segs, i)
  <2>1. i \in 1 .. n - 1 /\ i + 1 \in 1 .. n /\ segs[i + 1].free
    BY <1>1, <1>4 DEF Merges
  <2>2. segs[i + 1].size \in Nat /\ segs[i + 1].addr \in Nat
    BY <1>1, <2>1, SegFields DEF Addr, Size
  <2>3. size \in Nat
    <3>1. ASSUME NEW x \in Nat, NEW y \in Nat, NEW z \in Nat PROVE x + y + z \in Nat
      OBVIOUS
    <3> QED  BY <1>1, <1>3, <2>2, <3>1, Zenon
  <2>4. joined \in Segments /\ joined.addr = segs[i].addr /\ joined.size = size
    <3> HIDE DEF size
    <3> QED  BY <1>3, <2>3, SegmentFields, ZenonT(30)
  <2>5. new = [k \in 1 .. n - 1 |-> IF k < i THEN segs[k]
                                    ELSE IF k = i THEN joined ELSE segs[k + 1]]
    BY DEF MergeSegs
  <2> HIDE DEF joined, new
  <2>6. \A k \in 1 .. n - 1 : new[k] \in Segments
    BY <1>1, <1>2, <2>4, <2>5
  <2>7. new \in Seq(Segments) /\ Len(new) = n - 1
    <3>1. n - 1 \in Nat
      BY <1>1
    <3> QED  BY <2>5, <2>6, <3>1, IsASeq
  <2>8. /\ \A k \in 1 .. i - 1 : new[k] = segs[k]
        /\ \A k \in i + 1 .. n - 1 : new[k] = segs[k + 1]
        /\ new[i] = joined
    BY <1>1, <2>1, <2>5
  <2>9. Addr(segs, i + 1) = End(segs, i) + SegHdr
    BY <2>1 DEF SegsOK
  <2>10. Addr(new, i) = Addr(segs, i) /\ End(new, i) = End(segs, i + 1)
    <3>1. Addr(new, i) = segs[i].addr /\ Size(new, i) = size
      BY <2>4, <2>8 DEF Addr, Size
    <3>2. /\ Addr(segs, i) = segs[i].addr /\ Size(segs, i) = segs[i].size
          /\ Size(segs, i + 1) = segs[i + 1].size
      BY DEF Addr, Size
    <3> DEFINE a == segs[i].addr
               y == segs[i].size
               z == segs[i + 1].size
    <3>3. a \in Nat /\ y \in Nat /\ z \in Nat
      BY <1>3, <2>2
    <3>4. size = y + z + SegHdr
      OBVIOUS
    <3>5. Addr(segs, i + 1) = a + y + SegHdr
      BY <2>9, <3>2 DEF End
    <3> HIDE DEF a, y, z, size
    <3>6. a + size = (a + y + SegHdr) + z
      BY <1>1, <3>3, <3>4
    <3> QED  BY <3>1, <3>2, <3>5, <3>6 DEF End, a, z
  <2>11. SegsOK(new, total)
    BY <2>1, <2>7, <2>8, <2>10, MergeTiling
  <2>12. ASSUME NEW j \in 1 .. n, j # i, ~segs[j].free
         PROVE  \E k \in 1 .. n - 1 : new[k] = segs[j]
    <3>1. CASE j < i
      <4>1. j \in 1 .. i - 1 /\ j \in 1 .. n - 1
        BY <1>1, <2>1, <3>1
      <4> QED  BY <2>8, <4>1
    <3>2. CASE j > i
      <4>1. j # i + 1
        BY <2>1, <2>12
      <4>2. j - 1 \in i + 1 .. n - 1 /\ j - 1 \in 1 .. n - 1 /\ (j - 1) + 1 = j
        BY <1>1, <3>2, <4>1
      <4>3. new[j - 1] = segs[j]
        BY <2>8, <4>2
      <4> QED  BY <4>2, <4>3
    <3> QED  BY <1>1, <2>12, <3>1, <3>2
  <2>13. FreeSegs(segs, i) = new
    BY <1>4 DEF FreeSegs, new
  <2> QED  BY <2>7, <2>11, <2>12, <2>13 DEF FreeResult
<1>5. CASE ~Merges(segs, i)
  <2> DEFINE freed == Segment(segs[i].addr, segs[i].size, TRUE)
             new == MarkSegs(segs, i, TRUE)
  <2>1. freed \in Segments /\ freed.addr = segs[i].addr /\ freed.size = segs[i].size
    <3>1. freed \in Segments
      BY <1>3, SegmentFields, Zenon
    <3>2. freed.addr = segs[i].addr /\ freed.size = segs[i].size
      BY DEF Segment
    <3> QED  BY <3>1, <3>2, Zenon
  <2>2. new = [segs EXCEPT ![i] = freed]
    BY DEF MarkSegs
  <2> HIDE DEF freed, new
  <2>3. new \in Seq(Segments) /\ Len(new) = n
    BY <1>1, <2>1, <2>2
  <2>4. new[i] = freed /\ \A k \in 1 .. n : k # i => new[k] = segs[k]
    BY <1>1, <2>2
  <2>5. \A k \in 1 .. n : Addr(new, k) = Addr(segs, k) /\ Size(new, k) = Size(segs, k)
    BY <2>1, <2>4 DEF Addr, Size
  <2>6. SegsOK(new, total)
    BY <2>3, <2>5, MarkTiling
  <2>7. FreeSegs(segs, i) = new
    BY <1>5 DEF FreeSegs, new
  <2> QED  BY <2>3, <2>4, <2>6, <2>7 DEF FreeResult
<1> QED  BY <1>4, <1>5
-----------------------------------------------------------------------------
PageType == [size : Nat, free_size : Nat, segs : Seq(Segments)]

PagesOK == \A p \in DOMAIN pages : SegsOK(pages[p].segs, pages[p].size)

\* No two blocks held at the same time have the same address.
LiveDistinct ==
  \A b, c \in live : b.page = c.page /\ b.addr = c.addr => b = c

\* The inductive invariant.
HeapInv == TypeOK /\ PagesOK /\ LiveBacked /\ LiveDistinct

\* LiveBacked, block by block.
Backed(b) == \E i \in DOMAIN pages[b.page].segs :
               Backs(pages[b.page].segs[i], b.addr, b.size)

\* LiveBacked says that each block held is backed.
LEMMA BackedEach == LiveBacked <=> \A b \in live : Backed(b)
BY DEF LiveBacked, Backed, Backs

\* Distinct segments of a tiled page have distinct addresses.
LEMMA AddrDistinct ==
  ASSUME NEW segs, NEW total, SegsOK(segs, total),
         NEW j \in 1 .. Len(segs), NEW k \in 1 .. Len(segs),
         segs[j].addr = segs[k].addr
  PROVE  j = k
<1>1. SegHdr \in Nat /\ SegHdr > 0
  BY HeapAssumption
<1>2. /\ Addr(segs, j) \in Nat /\ Size(segs, j) \in Nat
      /\ End(segs, j) = Addr(segs, j) + Size(segs, j)
      /\ Addr(segs, k) \in Nat /\ Size(segs, k) \in Nat
      /\ End(segs, k) = Addr(segs, k) + Size(segs, k)
  BY SegFields DEF SegsOK
<1>3. Addr(segs, j) = Addr(segs, k)
  BY DEF Addr
<1>4. /\ j < k => End(segs, j) + SegHdr <= Addr(segs, k)
      /\ k < j => End(segs, k) + SegHdr <= Addr(segs, j)
  BY DEF SegsOK
<1> QED  BY <1>1, <1>2, <1>3, <1>4

\* One page replaced by another of the same size.
LEMMA PageReplaced ==
  ASSUME pages \in Seq(PageType), PagesOK, NEW p \in DOMAIN pages, NEW pg \in PageType,
         pg.size = pages[p].size, SegsOK(pg.segs, pg.size),
         pages' = [pages EXCEPT ![p] = pg]
  PROVE  /\ pages' \in Seq(PageType) /\ DOMAIN pages' = DOMAIN pages
         /\ Len(pages') = Len(pages)
         /\ pages'[p] = pg /\ \A q \in DOMAIN pages : q # p => pages'[q] = pages[q]
         /\ PagesOK'
<1>1. /\ pages' \in Seq(PageType) /\ DOMAIN pages' = DOMAIN pages
      /\ Len(pages') = Len(pages)
      /\ pages'[p] = pg /\ \A q \in DOMAIN pages : q # p => pages'[q] = pages[q]
  OBVIOUS
<1>2. PagesOK'
  BY <1>1 DEF PagesOK
<1> QED  BY <1>1, <1>2

\* kmalloc that finds a segment keeps the invariant.
LEMMA TakeStep ==
  ASSUME HeapInv, NEW size \in Sizes, NEW p \in DOMAIN pages,
         NEW i \in DOMAIN pages[p].segs, TakeSegment(p, i, size)
  PROVE  HeapInv'
<1> DEFINE segs == pages[p].segs
           new == AllocSegs(segs, i, size)
           pg == alloc_segment(pages[p], i, size)
           blk == Block(p, segs[i].addr, size)
<1>1. /\ pages \in Seq(PageType) /\ pages[p] \in PageType /\ size \in Nat
      /\ live \subseteq [page : DOMAIN pages, addr : Nat, size : Nat]
      /\ splits \in Seq(Nat) /\ Len(splits) = Len(pages)
      /\ U32 \in Nat /\ U32 > 0
  <2>1. size \in Nat /\ U32 \in Nat /\ U32 > 0
    BY HeapAssumption
  <2>2. pages \in Seq(PageType)
    BY DEF HeapInv, TypeOK, PageType
  <2>3. pages[p] \in PageType
    BY <2>2
  <2>4. /\ live \subseteq [page : DOMAIN pages, addr : Nat, size : Nat]
        /\ splits \in Seq(Nat) /\ Len(splits) = Len(pages)
    BY DEF HeapInv, TypeOK
  <2> QED  BY <2>1, <2>2, <2>3, <2>4
<1>2. /\ segs \in Seq(Segments) /\ i \in 1 .. Len(segs)
      /\ pages[p].size \in Nat /\ pages[p].free_size \in Nat
  <2>1. segs \in Seq(Segments) /\ pages[p].size \in Nat /\ pages[p].free_size \in Nat
    BY <1>1 DEF PageType
  <2>2. i \in DOMAIN segs
    OBVIOUS
  <2> HIDE DEF segs
  <2>3. i \in 1 .. Len(segs)
    BY <2>1, <2>2
  <2> QED  BY <2>1, <2>3
<1>3. SegsOK(segs, pages[p].size)
  BY DEF HeapInv, PagesOK
<1>4. segs[i].free /\ segs[i].size >= size
  BY DEF TakeSegment, FirstFit, Fits
<1>5. /\ SegsOK(new, pages[p].size)
      /\ i \in 1 .. Len(new) /\ Backs(new[i], segs[i].addr, size)
      /\ \A j \in 1 .. Len(segs) : j # i => \E k \in 1 .. Len(new) : new[k] = segs[j]
  <2>1. size \in Nat /\ i \in 1 .. Len(segs)
    BY <1>1, <1>2
  <2> HIDE DEF segs
  <2>2. AllocResult(segs, AllocSegs(segs, i, size), pages[p].size, i, size)
    BY <1>3, <1>4, <2>1, AllocSegsOK
  <2> QED  BY <2>2 DEF AllocResult
<1>6. pg = [size |-> pages[p].size,
            free_size |-> (pages[p].free_size - new[i].size) % U32, segs |-> new]
  BY DEF alloc_segment
<1>7. /\ pages' = [pages EXCEPT ![p] = pg] /\ live' = live \cup {blk}
      /\ splits' = [splits EXCEPT ![p] = (@ + Drift(segs[i], size)) % U32]
      /\ frames' = frames /\ halted' = halted
  BY DEF TakeSegment
<1>8. /\ segs[i].addr \in Nat
      /\ blk \in [page : DOMAIN pages, addr : Nat, size : Nat]
      /\ blk.page = p /\ blk.addr = segs[i].addr /\ blk.size = size
  BY <1>1, <1>2, SegFields DEF Block, Addr
<1> HIDE DEF new, pg, blk
<1>9. pg \in PageType /\ pg.size = pages[p].size /\ pg.segs = new
  <2>1. new \in Seq(Segments) /\ new[i].size \in Nat
    BY <1>5, SegFields DEF SegsOK, Size
  <2>2. (pages[p].free_size - new[i].size) % U32 \in Nat
    <3> DEFINE x == pages[p].free_size - new[i].size
    <3>1. x \in Int
      BY <1>2, <2>1
    <3> HIDE DEF x
    <3>2. x % U32 \in Nat
      BY <1>1, <3>1, ModNat
    <3> QED  BY <3>2 DEF x
  <2> QED  BY <1>2, <1>6, <2>1, <2>2 DEF PageType
<1>10. /\ pages' \in Seq(PageType) /\ DOMAIN pages' = DOMAIN pages
       /\ Len(pages') = Len(pages)
       /\ pages'[p] = pg /\ \A q \in DOMAIN pages : q # p => pages'[q] = pages[q]
       /\ PagesOK'
  <2>1. PagesOK
    BY DEF HeapInv
  <2> QED  BY <1>1, <1>5, <1>7, <1>9, <2>1, PageReplaced, Zenon
<1>11. TypeOK'
  <2>1. splits' \in Seq(Nat) /\ Len(splits') = Len(splits)
    <3>1. Drift(segs[i], size) \in Nat /\ p \in 1 .. Len(splits) /\ splits[p] \in Nat
      BY <1>1 DEF Drift
    <3>2. (splits[p] + Drift(segs[i], size)) % U32 \in Nat
      BY <1>1, <3>1
    <3> QED  BY <1>1, <1>7, <3>1, <3>2
  <2>2. live' \subseteq [page : DOMAIN pages', addr : Nat, size : Nat]
    BY <1>1, <1>7, <1>8, <1>10
  <2> QED  BY <1>1, <1>7, <1>10, <2>1, <2>2, Zenon DEF HeapInv, TypeOK, PageType
<1>12. \A b \in live : Backed(b)
  BY BackedEach DEF HeapInv
<1>13. ASSUME NEW b \in live, b.page = p
       PROVE  \E j \in 1 .. Len(segs) : j # i /\ Backs(segs[j], b.addr, b.size)
  <2>1. PICK j \in DOMAIN segs : Backs(segs[j], b.addr, b.size)
    BY <1>12, <1>13 DEF Backed
  <2>2. j # i
    BY <1>4, <2>1 DEF Backs
  <2>3. j \in 1 .. Len(segs)
    BY <1>2
  <2> QED  BY <2>1, <2>2, <2>3
<1>14. LiveBacked'
  <2> SUFFICES ASSUME NEW b \in live' PROVE Backed(b)'
    BY DEF LiveBacked, Backed, Backs
  <2>1. CASE b \in live /\ b.page # p
    <3>1. b.page \in DOMAIN pages
      BY <1>1, <2>1
    <3> QED  BY <1>10, <1>12, <2>1, <3>1 DEF Backed, Backs
  <2>2. CASE b \in live /\ b.page = p
    <3>1. PICK j \in 1 .. Len(segs) : j # i /\ Backs(segs[j], b.addr, b.size)
      BY <1>13, <2>2
    <3>2. PICK k \in 1 .. Len(new) : new[k] = segs[j]
      BY <1>5, <3>1
    <3>3. k \in DOMAIN new
      BY <1>5, <3>2 DEF SegsOK
    <3> QED  BY <1>9, <1>10, <2>2, <3>1, <3>2, <3>3 DEF Backed, Backs
  <2>3. CASE b = blk
    <3>1. i \in DOMAIN new
      BY <1>5 DEF SegsOK
    <3> QED  BY <1>5, <1>8, <1>9, <1>10, <2>3, <3>1 DEF Backed, Backs
  <2> QED  BY <1>7, <2>1, <2>2, <2>3
<1>15. LiveDistinct'
  <2>1. ASSUME NEW b \in live, b.page = p PROVE b.addr # segs[i].addr
    <3>1. PICK j \in 1 .. Len(segs) : j # i /\ Backs(segs[j], b.addr, b.size)
      BY <1>13, <2>1
    <3> QED  BY <1>2, <1>3, <3>1, AddrDistinct DEF Backs
  <2>2. LiveDistinct
    BY DEF HeapInv
  <2> QED  BY <1>7, <1>8, <2>1, <2>2 DEF LiveDistinct
<1> QED  BY <1>10, <1>11, <1>14, <1>15 DEF HeapInv
\* kmalloc that adds a page keeps the invariant.
LEMMA GrowStep ==
  ASSUME HeapInv, NEW size \in Sizes, Grow(size)
  PROVE  HeapInv'
<1> DEFINE total == AllocSize(size)
           room == total - PageHdr - SegHdr
           first == Segment(PageHdr + SegHdr, room, TRUE)
           segs == <<first>>
           new == AllocSegs(segs, 1, size)
           pg == alloc_segment(NewPage(size), 1, size)
           blk == Block(Len(pages) + 1, first.addr, size)
<1>1. /\ size \in Nat /\ U32 \in Nat /\ U32 > 0 /\ PageHdr \in Nat /\ SegHdr \in Nat
      /\ FrameSize \in Nat /\ FrameSize > PageHdr + SegHdr /\ U32 > FrameSize
      /\ size + PageHdr + SegHdr < U32
  BY HeapAssumption
<1>2. total \in Nat /\ room \in Nat /\ room >= size /\ room < U32
  BY <1>1 DEF AllocSize
<1>3. room % U32 = room
  <2> HIDE DEF room
  <2> QED  BY <1>1, <1>2
<1>4. NewPage(size) = [size |-> total, free_size |-> room, segs |-> segs]
  BY <1>3, Zenon DEF NewPage
<1>5. /\ first \in Segments /\ first.addr = PageHdr + SegHdr
      /\ first.size = room /\ first.free
  <2>1. PageHdr + SegHdr \in Nat
    BY <1>1
  <2> HIDE DEF room
  <2>2. first \in Segments
    BY <1>2, <2>1, SegmentFields, Zenon
  <2> QED  BY <2>2 DEF Segment
<1>6. total = PageHdr + SegHdr + room
  BY <1>1, <1>2 DEF AllocSize
<1> HIDE DEF total, room, first
<1>7. /\ segs \in Seq(Segments) /\ Len(segs) = 1 /\ segs[1] = first
  BY <1>5
<1> HIDE DEF segs
<1>8. SegsOK(segs, total)
  BY <1>1, <1>2, <1>5, <1>6, <1>7 DEF SegsOK, Addr, Size, End
<1>9. /\ SegsOK(new, total)
      /\ 1 \in 1 .. Len(new) /\ Backs(new[1], first.addr, size)
  <2>1. 1 \in 1 .. Len(segs) /\ segs[1].free /\ segs[1].size >= size
    BY <1>2, <1>5, <1>7
  <2>2. AllocResult(segs, AllocSegs(segs, 1, size), total, 1, size)
    BY <1>1, <1>8, <2>1, AllocSegsOK
  <2> QED  BY <1>7, <2>2 DEF AllocResult
<1>10. pg = [size |-> total, free_size |-> (room - new[1].size) % U32, segs |-> new]
  BY <1>4 DEF alloc_segment
<1>11. NewPage(size).segs[1] = first
  BY <1>4, <1>7
<1>12. /\ pages' = Append(pages, pg) /\ live' = live \cup {blk}
       /\ splits' = Append(splits, Drift(first, size))
       /\ frames' = frames + NumPages(size) /\ halted' = halted
  BY <1>11 DEF Grow
<1>13. /\ pages \in Seq(PageType)
       /\ live \subseteq [page : DOMAIN pages, addr : Nat, size : Nat]
       /\ splits \in Seq(Nat) /\ Len(splits) = Len(pages)
       /\ frames \in Nat /\ halted \in BOOLEAN
  BY DEF HeapInv, TypeOK, PageType
<1> DEFINE n == Len(pages)
<1>14. n \in Nat /\ DOMAIN pages = 1 .. n
  BY <1>13
<1>15. blk.page = n + 1 /\ blk.addr = first.addr /\ blk.size = size
       /\ blk \in [page : 1 .. n + 1, addr : Nat, size : Nat]
  BY <1>1, <1>5, <1>14 DEF Block
<1> HIDE DEF new, pg, blk
<1>16. pg \in PageType /\ pg.size = total /\ pg.segs = new
  <2>1. new \in Seq(Segments) /\ new[1].size \in Nat
    BY <1>9, SegFields DEF SegsOK, Size
  <2>2. (room - new[1].size) % U32 \in Nat
    BY <1>1, <1>2, <2>1
  <2> QED  BY <1>2, <1>10, <2>1, <2>2 DEF PageType
<1>17. /\ pages' \in Seq(PageType) /\ Len(pages') = n + 1 /\ DOMAIN pages' = 1 .. n + 1
       /\ pages'[n + 1] = pg /\ \A q \in 1 .. n : pages'[q] = pages[q]
  BY <1>12, <1>13, <1>14, <1>16
<1>18. PagesOK'
  BY <1>9, <1>14, <1>16, <1>17 DEF HeapInv, PagesOK
<1>19. TypeOK'
  <2>1. splits' \in Seq(Nat) /\ Len(splits') = n + 1
    <3>1. Drift(first, size) \in Nat
      BY DEF Drift
    <3> QED  BY <1>12, <1>13, <3>1
  <2>2. live' \subseteq [page : DOMAIN pages', addr : Nat, size : Nat]
    BY <1>12, <1>13, <1>14, <1>15, <1>17
  <2>3. frames' \in Nat
    <3>1. total + (FrameSize - 1) \in Nat
      BY <1>1, <1>2
    <3>2. NumPages(size) \in Nat
      BY <1>1, <3>1 DEF NumPages, ROUND_UP, total
    <3> QED  BY <1>12, <1>13, <3>2
  <2> QED  BY <1>12, <1>13, <1>17, <2>1, <2>2, <2>3 DEF TypeOK, PageType
<1>20. ASSUME NEW b \in live PROVE b.page \in 1 .. n /\ Backed(b)
  BY <1>13, <1>14, BackedEach DEF HeapInv
<1>21. LiveBacked'
  <2> SUFFICES ASSUME NEW b \in live' PROVE Backed(b)'
    BY DEF LiveBacked, Backed, Backs
  <2>1. CASE b \in live
    BY <1>17, <1>20, <2>1 DEF Backed, Backs
  <2>2. CASE b = blk
    <3>1. 1 \in DOMAIN new
      BY <1>9 DEF SegsOK
    <3> QED  BY <1>9, <1>15, <1>16, <1>17, <2>2, <3>1 DEF Backed, Backs
  <2> QED  BY <1>12, <2>1, <2>2
<1>22. LiveDistinct'
  <2>1. \A b \in live : b.page # n + 1
    BY <1>14, <1>20
  <2>2. LiveDistinct
    BY DEF HeapInv
  <2> QED  BY <1>12, <1>15, <2>1, <2>2 DEF LiveDistinct
<1> QED  BY <1>18, <1>19, <1>21, <1>22 DEF HeapInv

\* kfree of a block in the first page keeps the invariant.
LEMMA FoundStep ==
  ASSUME HeapInv, NEW b \in live, NEW i \in DOMAIN pages[b.page].segs, Found(b, i)
  PROVE  HeapInv'
<1> DEFINE p == b.page
           segs == pages[p].segs
           new == FreeSegs(segs, i)
           pg == free_segment(pages[p], i)
<1>1. /\ pages \in Seq(PageType)
      /\ live \subseteq [page : DOMAIN pages, addr : Nat, size : Nat]
      /\ splits \in Seq(Nat) /\ Len(splits) = Len(pages)
      /\ frames \in Nat /\ halted \in BOOLEAN
  BY DEF HeapInv, TypeOK, PageType
<1>2. p \in DOMAIN pages
  BY <1>1
<1>3. pages[p] \in PageType
  BY <1>1, <1>2
<1>4. /\ segs \in Seq(Segments) /\ i \in 1 .. Len(segs)
      /\ pages[p].size \in Nat /\ pages[p].free_size \in Nat
  BY <1>3 DEF PageType
<1>5. SegsOK(segs, pages[p].size)
  BY <1>2 DEF HeapInv, PagesOK
<1>6. /\ pages' = [pages EXCEPT ![p] = pg] /\ live' = live \ {b}
      /\ segs[i].addr = b.addr
      /\ splits' = splits /\ frames' = frames /\ halted' = halted
  BY DEF Found
<1>7. pg = [size |-> pages[p].size,
            free_size |-> (pages[p].free_size + segs[i].size
                             + IF Merges(segs, i) THEN SegHdr ELSE 0) % U32,
            segs |-> new]
  BY DEF free_segment
<1>8. /\ SegsOK(new, pages[p].size)
      /\ \A j \in 1 .. Len(segs) :
           j # i /\ ~segs[j].free => \E k \in 1 .. Len(new) : new[k] = segs[j]
  <2>1. i \in 1 .. Len(segs)
    BY <1>4
  <2> HIDE DEF segs
  <2>2. FreeResult(segs, FreeSegs(segs, i), pages[p].size, i)
    BY <1>5, <2>1, FreeSegsOK
  <2> QED  BY <2>2 DEF FreeResult
<1> HIDE DEF new, pg
<1>9. pg \in PageType /\ pg.size = pages[p].size /\ pg.segs = new
  <2>1. new \in Seq(Segments)
    BY <1>8 DEF SegsOK
  <2>2. segs[i].size \in Nat
    BY <1>4, SegFields DEF Size
  <2>3. U32 \in Nat /\ U32 > 0 /\ (IF Merges(segs, i) THEN SegHdr ELSE 0) \in Nat
    BY HeapAssumption
  <2>4. pg.free_size \in Nat
    <3>1. ASSUME NEW x \in Nat, NEW y \in Nat, NEW z \in Nat
          PROVE  (x + y + z) % U32 \in Nat
      BY <2>3
    <3> DEFINE x == pages[p].free_size
               y == segs[i].size
               z == IF Merges(segs, i) THEN SegHdr ELSE 0
    <3>2. pg.free_size = (x + y + z) % U32
      BY <1>7
    <3>3. x \in Nat /\ y \in Nat /\ z \in Nat
      BY <1>4, <2>2, <2>3
    <3> HIDE DEF x, y, z
    <3> QED  BY <3>1, <3>2, <3>3
  <2> QED  BY <1>4, <1>7, <2>1, <2>4 DEF PageType
<1>10. /\ pages' \in Seq(PageType) /\ DOMAIN pages' = DOMAIN pages
       /\ Len(pages') = Len(pages)
       /\ pages'[p] = pg /\ \A q \in DOMAIN pages : q # p => pages'[q] = pages[q]
       /\ PagesOK'
  <2>1. PagesOK
    BY DEF HeapInv
  <2> HIDE DEF p
  <2> QED  BY <1>1, <1>2, <1>6, <1>8, <1>9, <2>1, PageReplaced, Zenon
<1>11. TypeOK'
  <2>1. live' \subseteq [page : DOMAIN pages', addr : Nat, size : Nat]
    BY <1>1, <1>6, <1>10
  <2> QED  BY <1>1, <1>6, <1>10, <2>1 DEF TypeOK, PageType
<1>12. LiveDistinct
  BY DEF HeapInv
<1>13. LiveDistinct'
  BY <1>6, <1>12 DEF LiveDistinct
<1>14. LiveBacked'
  <2> SUFFICES ASSUME NEW c \in live' PROVE Backed(c)'
    BY DEF LiveBacked, Backed, Backs
  <2>1. c \in live /\ c # b /\ c.page \in DOMAIN pages
    BY <1>1, <1>6
  <2>2. Backed(c)
    BY <2>1, BackedEach DEF HeapInv
  <2>3. CASE c.page # p
    BY <1>10, <2>1, <2>2, <2>3 DEF Backed, Backs
  <2>4. CASE c.page = p
    <3>1. PICK j \in DOMAIN segs : Backs(segs[j], c.addr, c.size)
      BY <2>2, <2>4 DEF Backed
    <3>2. c.addr # b.addr
      BY <1>12, <2>1, <2>4 DEF LiveDistinct
    <3>3. j \in 1 .. Len(segs) /\ j # i /\ ~segs[j].free
      BY <1>4, <1>6, <3>1, <3>2 DEF Backs
    <3>4. PICK k \in 1 .. Len(new) : new[k] = segs[j]
      BY <1>8, <3>3
    <3>5. k \in DOMAIN new
      BY <1>8, <3>4 DEF SegsOK
    <3> QED  BY <1>9, <1>10, <2>4, <3>1, <3>4, <3>5 DEF Backed, Backs
  <2> QED  BY <2>3, <2>4
<1> QED  BY <1>10, <1>11, <1>13, <1>14 DEF HeapInv
\* Every step keeps the invariant.
LEMMA HeapStep == HeapInv /\ [Next]_vars => HeapInv'
<1> SUFFICES ASSUME HeapInv, [Next]_vars PROVE HeapInv'
  OBVIOUS
<1>1. ASSUME NEW size \in Sizes, kmalloc(size) PROVE HeapInv'
  <2>1. CASE OutOfFrames(size)
    BY <2>1 DEF OutOfFrames, HeapInv, TypeOK, PagesOK, LiveBacked, LiveDistinct
  <2> QED  BY <1>1, <2>1, TakeStep, GrowStep DEF kmalloc
<1>2. ASSUME NEW b \in live, kfree(b) PROVE HeapInv'
  <2>1. CASE NotFound(b)
    <3>1. /\ pages' = pages /\ live' \subseteq live
          /\ frames' = frames /\ halted' = halted /\ splits' = splits
      BY <2>1 DEF NotFound
    <3>2. TypeOK'
      BY <3>1 DEF HeapInv, TypeOK
    <3>3. PagesOK' /\ LiveDistinct'
      BY <3>1 DEF HeapInv, PagesOK, LiveDistinct
    <3>4. LiveBacked'
      BY <3>1 DEF HeapInv, LiveBacked
    <3> QED  BY <3>2, <3>3, <3>4 DEF HeapInv
  <2> QED  BY <1>2, <2>1, FoundStep DEF kfree
<1>3. CASE UNCHANGED vars
  BY <1>3 DEF vars, HeapInv, TypeOK, PagesOK, LiveBacked, LiveDistinct
<1> QED  BY <1>1, <1>2, <1>3 DEF Next

\* What the inductive invariant gives: tiled pages, and blocks that neither
\* overlap another of their page nor leave it.
LEMMA HeapInvImplies == HeapInv => PagesTiled /\ LiveDisjoint
<1> SUFFICES ASSUME HeapInv PROVE PagesTiled /\ LiveDisjoint
  OBVIOUS
<1>1. SegHdr \in Nat
  BY HeapAssumption
<1>2. PagesTiled
  <2> SUFFICES ASSUME NEW p \in DOMAIN pages PROVE Tiled(pages[p])
    BY DEF PagesTiled
  <2>1. SegsOK(pages[p].segs, pages[p].size)
    BY DEF HeapInv, PagesOK
  <2> QED  BY <2>1 DEF SegsOK, Tiled, Addr, Size, End
<1>3. LiveDisjoint
  <2> SUFFICES ASSUME NEW b \in live, NEW c \in live
               PROVE  /\ b.addr + b.size <= pages[b.page].size
                      /\ b # c /\ b.page = c.page
                           => \/ b.addr + b.size + SegHdr <= c.addr
                              \/ c.addr + c.size + SegHdr <= b.addr
    BY DEF LiveDisjoint
  <2> DEFINE segs == pages[b.page].segs
             total == pages[b.page].size
             n == Len(segs)
  <2>1. /\ b.page \in DOMAIN pages /\ b.addr \in Nat /\ b.size \in Nat
        /\ c.page \in DOMAIN pages /\ c.addr \in Nat /\ c.size \in Nat
    BY Zenon DEF HeapInv, TypeOK
  <2>2. SegsOK(segs, total)
    BY <2>1 DEF HeapInv, PagesOK
  <2>3. \A d \in live : Backed(d)
    BY BackedEach DEF HeapInv
  <2>4. PICK i \in DOMAIN segs : Backs(segs[i], b.addr, b.size)
    BY <2>3 DEF Backed
  <2> HIDE DEF segs, total
  <2>5. segs \in Seq(Segments) /\ n \in Nat /\ n > 0 /\ DOMAIN segs = 1 .. n
    BY <2>2 DEF SegsOK
  <2>6. \A k \in 1 .. n : /\ Addr(segs, k) \in Nat /\ Size(segs, k) \in Nat
                          /\ End(segs, k) = Addr(segs, k) + Size(segs, k)
    BY <2>5, SegFields
  <2>7. ASSUME NEW d \in live, d.addr \in Nat, d.size \in Nat,
               NEW k \in 1 .. n, Backs(segs[k], d.addr, d.size)
        PROVE  d.addr = Addr(segs, k) /\ d.addr + d.size <= End(segs, k)
    <3>1. segs[k].addr = d.addr /\ segs[k].size >= d.size
      BY <2>7 DEF Backs
    <3>2. Addr(segs, k) = d.addr /\ Size(segs, k) >= d.size
      BY <3>1 DEF Addr, Size
    <3> QED  BY <2>6, <2>7, <3>2
  <2>8. b.addr = Addr(segs, i) /\ b.addr + b.size <= End(segs, i)
    BY <2>1, <2>4, <2>5, <2>7
  <2>9. b.addr + b.size <= total
    <3>1. End(segs, n) = total /\ (i < n => End(segs, i) + SegHdr <= Addr(segs, n))
      BY <2>2, <2>5 DEF SegsOK
    <3>2. i \in 1 .. n /\ n \in 1 .. n
      BY <2>5
    <3>3. /\ Addr(segs, i) \in Nat /\ Size(segs, i) \in Nat
          /\ End(segs, i) = Addr(segs, i) + Size(segs, i)
          /\ Addr(segs, n) \in Nat /\ Size(segs, n) \in Nat
          /\ End(segs, n) = Addr(segs, n) + Size(segs, n)
      BY <2>6, <3>2
    <3>4. End(segs, i) <= total
      BY <1>1, <2>5, <3>1, <3>2, <3>3
    <3> QED  BY <2>1, <2>8, <3>1, <3>3, <3>4
  <2>10. ASSUME b # c, b.page = c.page
         PROVE  \/ b.addr + b.size + SegHdr <= c.addr
                \/ c.addr + c.size + SegHdr <= b.addr
    <3>1. PICK j \in DOMAIN segs : Backs(segs[j], c.addr, c.size)
      BY <2>3, <2>10 DEF Backed, segs
    <3>2. c.addr = Addr(segs, j) /\ c.addr + c.size <= End(segs, j)
      BY <2>1, <2>5, <2>7, <3>1
    <3>3. b.addr # c.addr
      BY <2>10 DEF HeapInv, LiveDistinct
    <3>4. i # j /\ i \in 1 .. n /\ j \in 1 .. n
      BY <2>5, <2>8, <3>2, <3>3
    <3>5. \/ End(segs, i) + SegHdr <= Addr(segs, j)
          \/ End(segs, j) + SegHdr <= Addr(segs, i)
      BY <2>2, <2>5, <3>4 DEF SegsOK
    <3>6. End(segs, i) \in Nat /\ End(segs, j) \in Nat
      BY <2>6, <3>4
    <3> QED  BY <1>1, <2>1, <2>8, <3>2, <3>5, <3>6
  <2> QED  BY <2>9, <2>10 DEF total
<1> QED  BY <1>2, <1>3

\* An empty heap satisfies the invariant.
LEMMA HeapInit == Init => HeapInv
<1> SUFFICES ASSUME Init PROVE HeapInv
  OBVIOUS
<1>1. pages = <<>> /\ frames = 0 /\ halted = FALSE /\ live = {} /\ splits = <<>>
  BY DEF Init
<1>2. TypeOK
  <2>1. pages \in Seq(PageType) /\ splits \in Seq(Nat) /\ Len(splits) = Len(pages)
    BY <1>1
  <2>2. live \subseteq [page : DOMAIN pages, addr : Nat, size : Nat]
    BY <1>1
  <2> QED  BY <1>1, <2>1, <2>2, Zenon DEF TypeOK, PageType
<1>3. PagesOK /\ LiveBacked /\ LiveDistinct
  BY <1>1 DEF PagesOK, LiveBacked, LiveDistinct
<1> QED  BY <1>2, <1>3 DEF HeapInv

\* HeapInv holds throughout.
LEMMA HeapInvariant == Spec => []HeapInv
BY HeapInit, HeapStep, PTL DEF Spec

\* For all sizes of headers, frames and requests that fit 32 bits, and any
\* sequence of kmalloc and kfree: pages stay tiled, each block held is backed
\* by a segment marked as allocated, and blocks of one page never overlap.
THEOREM HeapCorrect ==
  Spec => []TypeOK /\ []PagesTiled /\ []LiveBacked /\ []LiveDisjoint
<1>1. HeapInv => TypeOK /\ PagesTiled /\ LiveBacked /\ LiveDisjoint
  BY HeapInvImplies DEF HeapInv
<1> QED  BY <1>1, HeapInvariant, PTL
-----------------------------------------------------------------------------
(* The sum in FreeSizeDrift. *)

\* A set of natural numbers that is not empty has a least element.
LEMMA LeastNumber ==
  ASSUME NEW T, T \subseteq Nat, T # {}
  PROVE  \E m \in T : \A k \in T : m <= k
<1> DEFINE R == OpToRel(<, Nat)
<1>1. IsWellFoundedOn(R, Nat)
  BY NatLessThanWellFounded, Zenon
<1>2. \A x, y \in Nat : y < x => <<y, x>> \in R
  BY DEF OpToRel
<1> HIDE DEF R
<1>3. PICK m \in T : \A k \in T : ~(<<k, m>> \in R)
  BY <1>1, WFMin, Zenon
<1>4. \A k \in T : k \in Nat /\ m \in Nat
  OBVIOUS
<1>5. \A k \in T : ~(k < m)
  BY <1>2, <1>3, <1>4, Zenon
<1>6. \A k \in T : m <= k
  BY <1>4, <1>5
<1> QED  BY <1>6

\* Induction, for the set of the numbers of which something is true.
LEMMA InductionUpTo ==
  ASSUME NEW n \in Nat, NEW T, 0 \in T,
         \A k \in 0 .. n - 1 : k \in T => k + 1 \in T
  PROVE  \A k \in 0 .. n : k \in T
<1> SUFFICES ASSUME (0 .. n) \ T # {} PROVE FALSE
  OBVIOUS
<1>1. (0 .. n) \ T \subseteq Nat
  OBVIOUS
<1>2. PICK m \in (0 .. n) \ T : \A k \in (0 .. n) \ T : m <= k
  BY <1>1, LeastNumber, Zenon
<1>3. m # 0 /\ m - 1 \in 0 .. n - 1 /\ m - 1 \in 0 .. n /\ ~(m <= m - 1) /\ (m - 1) + 1 = m
  BY <1>2
<1>4. m - 1 \in T
  BY <1>2, <1>3
<1>5. m \in T
  BY <1>3, <1>4
<1> QED  BY <1>2, <1>5

\* What a segment adds to the sum is a number.
LEMMA FreePartNat ==
  ASSUME NEW segs \in Seq(Segments), NEW k \in 1 .. Len(segs)
  PROVE  FreePart(segs[k]) \in Nat
<1>1. segs[k].size \in Nat /\ segs[k].free \in BOOLEAN
  BY SegFields DEF Size
<1> QED  BY <1>1 DEF FreePart

\* The recursive definition defines a function.
LEMMA FreeBytesDef ==
  ASSUME NEW segs \in Seq(Segments)
  PROVE  /\ FreeBytes(segs) \in [0 .. Len(segs) -> Nat]
         /\ FreeBytes(segs)[0] = 0
         /\ \A k \in 1 .. Len(segs) :
              FreeBytes(segs)[k] = FreeBytes(segs)[k - 1] + FreePart(segs[k])
<1> DEFINE n == Len(segs)
           Upto(m, g) == g[0] = 0 /\ \A k \in 1 .. m : g[k] = g[k - 1] + FreePart(segs[k])
           T == {m \in 0 .. n : \E g \in [0 .. n -> Nat] : Upto(m, g)}
<1>1. n \in Nat /\ \A k \in 1 .. n : FreePart(segs[k]) \in Nat
  BY FreePartNat
<1> HIDE DEF n
<1>2. 0 \in T
  <2> DEFINE g == [k \in 0 .. n |-> 0]
  <2>1. g \in [0 .. n -> Nat] /\ g[0] = 0 /\ \A k \in 1 .. 0 : g[k] = g[k - 1] + FreePart(segs[k])
    BY <1>1
  <2>2. Upto(0, g)
    BY <2>1
  <2> HIDE DEF g, Upto
  <2> QED  BY <1>1, <2>1, <2>2
<1>3. \A m \in 0 .. n - 1 : m \in T => m + 1 \in T
  <2> SUFFICES ASSUME NEW m \in 0 .. n - 1, m \in T PROVE m + 1 \in T
    OBVIOUS
  <2>1. PICK g \in [0 .. n -> Nat] : Upto(m, g)
    OBVIOUS
  <2> DEFINE h == [g EXCEPT ![m + 1] = g[m] + FreePart(segs[m + 1])]
  <2>2. m \in 0 .. n /\ m + 1 \in 1 .. n /\ m + 1 \in 0 .. n
    BY <1>1
  <2>3. h \in [0 .. n -> Nat]
    <3>1. g[m] \in Nat /\ FreePart(segs[m + 1]) \in Nat
      BY <1>1, <2>2
    <3>2. g[m] + FreePart(segs[m + 1]) \in Nat
      BY <3>1
    <3> QED  BY <2>2, <3>2
  <2>4. h[m + 1] = g[m] + FreePart(segs[m + 1]) /\ \A k \in 0 .. m : h[k] = g[k]
    BY <1>1, <2>2
  <2> HIDE DEF h
  <2>5. h[0] = 0
    BY <2>1, <2>2, <2>4
  <2>6. ASSUME NEW k \in 1 .. m + 1 PROVE h[k] = h[k - 1] + FreePart(segs[k])
    <3>1. CASE k = m + 1
      <4>1. m \in 0 .. m /\ k - 1 = m
        BY <3>1
      <4> QED  BY <2>4, <3>1, <4>1
    <3>2. CASE k \in 1 .. m
      <4>1. k \in 0 .. m /\ k - 1 \in 0 .. m
        BY <3>2
      <4>2. h[k] = g[k] /\ h[k - 1] = g[k - 1]
        BY <2>4, <4>1
      <4> QED  BY <2>1, <3>2, <4>2
    <3> QED  BY <2>2, <3>1, <3>2
  <2> QED  BY <2>2, <2>3, <2>5, <2>6, Zenon
<1>4. n \in T
  <2> HIDE DEF T
  <2>1. \A k \in 0 .. n : k \in T
    BY <1>1, <1>2, <1>3, InductionUpTo, Zenon
  <2> QED  BY <1>1, <2>1
<1>5. PICK g \in [0 .. n -> Nat] : Upto(n, g)
  BY <1>4
<1> DEFINE Eq(f) == f = [k \in 0 .. n |-> IF k = 0 THEN 0 ELSE f[k - 1] + FreePart(segs[k])]
<1>6. Eq(g)
  <2>1. \A k \in 0 .. n : g[k] = IF k = 0 THEN 0 ELSE g[k - 1] + FreePart(segs[k])
    BY <1>1, <1>5
  <2> QED  BY <2>1
<1>7. FreeBytes(segs) = CHOOSE f : Eq(f)
  BY DEF FreeBytes, n
<1> DEFINE F == FreeBytes(segs)
<1>8. Eq(F)
  <2> HIDE DEF Eq
  <2> QED  BY <1>6, <1>7
<1> HIDE DEF F
<1>9. F[0] = 0 /\ DOMAIN F = 0 .. n
  BY <1>1, <1>8
<1>10. \A k \in 1 .. n : F[k] = F[k - 1] + FreePart(segs[k])
  BY <1>1, <1>8
<1>11. \A k \in 0 .. n : F[k] \in Nat
  <2> DEFINE U == {k \in 0 .. n : F[k] \in Nat}
  <2>1. 0 \in U
    BY <1>1, <1>9
  <2>2. \A k \in 0 .. n - 1 : k \in U => k + 1 \in U
    <3> SUFFICES ASSUME NEW k \in 0 .. n - 1, k \in U PROVE k + 1 \in U
      OBVIOUS
    <3>1. k + 1 \in 1 .. n /\ (k + 1) - 1 = k /\ F[k] \in Nat
      BY <1>1
    <3>2. F[k + 1] = F[k] + FreePart(segs[k + 1])
      BY <1>10, <3>1
    <3> QED  BY <1>1, <3>1, <3>2
  <2> HIDE DEF U
  <2>3. \A k \in 0 .. n : k \in U
    BY <1>1, <2>1, <2>2, InductionUpTo, Zenon
  <2> QED  BY <2>3 DEF U
<1>12. F \in [0 .. n -> Nat]
  <2>1. F = [k \in 0 .. n |-> F[k]]
    BY <1>8
  <2> QED  BY <1>11, <2>1
<1> QED  BY <1>9, <1>10, <1>12 DEF F, n

\* The r places after place a of one list and place b of the other agree.
Agree(segs, new, a, b, r) == \A k \in 1 .. r : new[b + k] = segs[a + k]

\* Where two lists agree, their sums grow alike.
LEMMA FreeBytesShift ==
  ASSUME NEW segs \in Seq(Segments), NEW new \in Seq(Segments),
         NEW a \in Nat, NEW b \in Nat, NEW r \in Nat,
         a + r <= Len(segs), b + r <= Len(new),
         Agree(segs, new, a, b, r)
  PROVE  FreeBytes(new)[b + r] - FreeBytes(new)[b] = FreeBytes(segs)[a + r] - FreeBytes(segs)[a]
<1> DEFINE F == FreeBytes(segs)
           G == FreeBytes(new)
           T == {k \in 0 .. r : G[b + k] - G[b] = F[a + k] - F[a]}
<1>1. /\ \A k \in 0 .. Len(segs) : F[k] \in Nat
      /\ \A k \in 1 .. Len(segs) : F[k] = F[k - 1] + FreePart(segs[k])
  BY FreeBytesDef
<1>2. /\ \A k \in 0 .. Len(new) : G[k] \in Nat
      /\ \A k \in 1 .. Len(new) : G[k] = G[k - 1] + FreePart(new[k])
  BY FreeBytesDef, Zenon
<1>3. \A k \in 1 .. Len(segs) : FreePart(segs[k]) \in Nat
  BY FreePartNat
<1>4. Len(segs) \in Nat /\ Len(new) \in Nat
  OBVIOUS
<1> HIDE DEF F, G
<1>5. 0 \in T
  <2>1. a \in 0 .. Len(segs) /\ b \in 0 .. Len(new) /\ a + 0 = a /\ b + 0 = b
    BY <1>4
  <2>2. G[b] - G[b] = F[a] - F[a]
    BY <1>1, <1>2, <2>1
  <2> QED  BY <2>1, <2>2
<1>6. \A k \in 0 .. r - 1 : k \in T => k + 1 \in T
  <2> SUFFICES ASSUME NEW k \in 0 .. r - 1, k \in T PROVE k + 1 \in T
    OBVIOUS
  <2>1. /\ k + 1 \in 1 .. r /\ k + 1 \in 0 .. r /\ a + (k + 1) \in 1 .. Len(segs)
        /\ b + (k + 1) \in 1 .. Len(new)
        /\ a + (k + 1) - 1 = a + k /\ b + (k + 1) - 1 = b + k
        /\ a + k \in 0 .. Len(segs) /\ b + k \in 0 .. Len(new)
        /\ a \in 0 .. Len(segs) /\ b \in 0 .. Len(new)
    BY <1>4
  <2>2. F[a + (k + 1)] = F[a + k] + FreePart(segs[a + (k + 1)])
    BY <1>1, <2>1
  <2>3. G[b + (k + 1)] = G[b + k] + FreePart(segs[a + (k + 1)])
    <3>1. G[b + (k + 1)] = G[b + k] + FreePart(new[b + (k + 1)])
      BY <1>2, <2>1
    <3>2. new[b + (k + 1)] = segs[a + (k + 1)]
      BY <2>1, Zenon DEF Agree
    <3> QED  BY <3>1, <3>2
  <2>4. F[a + k] \in Nat /\ F[a] \in Nat /\ G[b + k] \in Nat /\ G[b] \in Nat
        /\ FreePart(segs[a + (k + 1)]) \in Nat
    BY <1>1, <1>2, <1>3, <2>1
  <2>5. G[b + k] - G[b] = F[a + k] - F[a]
    OBVIOUS
  <2>6. G[b + (k + 1)] - G[b] = F[a + (k + 1)] - F[a]
    <3> DEFINE u == G[b + k]
               v == G[b]
               x == F[a + k]
               y == F[a]
               z == FreePart(segs[a + (k + 1)])
    <3>1. u \in Nat /\ v \in Nat /\ x \in Nat /\ y \in Nat /\ z \in Nat /\ u - v = x - y
      BY <2>4, <2>5
    <3>2. G[b + (k + 1)] = u + z /\ F[a + (k + 1)] = x + z
      BY <2>2, <2>3
    <3> HIDE DEF u, v, x, y, z, T
    <3>3. (u + z) - v = (x + z) - y
      BY <3>1
    <3> QED  BY <3>2, <3>3 DEF v, y
  <2> QED  BY <2>1, <2>6
<1> HIDE DEF T
<1>7. \A k \in 0 .. r : k \in T
  BY <1>5, <1>6, InductionUpTo, Zenon
<1>8. r \in T
  BY <1>7
<1> QED  BY <1>8 DEF T, F, G


\* The free bytes of a page.
FreeTotal(segs) == FreeBytes(segs)[Len(segs)]

\* Two lists that agree before place i, and after place a of one and place b
\* of the other, differ in their sums by what lies between.
Around(segs, new, i, a, b, r) ==
  /\ segs \in Seq(Segments) /\ new \in Seq(Segments)
  /\ i \in Nat /\ a \in Nat /\ b \in Nat /\ r \in Nat
  /\ i <= a /\ i <= b /\ a + r = Len(segs) /\ b + r = Len(new)
  /\ Agree(segs, new, 0, 0, i) /\ Agree(segs, new, a, b, r)
LEMMA FreeTotalAround ==
  ASSUME NEW segs, NEW new, NEW i, NEW a, NEW b, NEW r, Around(segs, new, i, a, b, r)
  PROVE  /\ FreeBytes(new)[i] = FreeBytes(segs)[i]
         /\ FreeTotal(new) - FreeBytes(new)[b] = FreeTotal(segs) - FreeBytes(segs)[a]
<1> SUFFICES ASSUME segs \in Seq(Segments), new \in Seq(Segments),
                    i \in Nat, a \in Nat, b \in Nat, r \in Nat,
                    i <= a, i <= b, a + r = Len(segs), b + r = Len(new),
                    Agree(segs, new, 0, 0, i), Agree(segs, new, a, b, r)
             PROVE  /\ FreeBytes(new)[i] = FreeBytes(segs)[i]
                    /\ FreeTotal(new) - FreeBytes(new)[b] = FreeTotal(segs) - FreeBytes(segs)[a]
  BY DEF Around
<1>1. FreeBytes(new)[0] = 0 /\ FreeBytes(segs)[0] = 0
  BY FreeBytesDef
<1>2. /\ 0 \in Nat /\ 0 + i <= Len(segs) /\ 0 + i <= Len(new) /\ 0 + i = i
      /\ i \in 0 .. Len(segs) /\ i \in 0 .. Len(new)
      /\ a + r <= Len(segs) /\ b + r <= Len(new)
  <2>1. Len(segs) \in Nat /\ Len(new) \in Nat
    OBVIOUS
  <2> QED  BY <2>1
<1>4. FreeBytes(new)[0 + i] - FreeBytes(new)[0] = FreeBytes(segs)[0 + i] - FreeBytes(segs)[0]
  BY <1>2, FreeBytesShift
<1>5. FreeBytes(new)[i] \in Nat /\ FreeBytes(segs)[i] \in Nat
  <2>1. /\ FreeBytes(new) \in [0 .. Len(new) -> Nat]
        /\ FreeBytes(segs) \in [0 .. Len(segs) -> Nat]
    BY FreeBytesDef, Zenon
  <2> QED  BY <1>2, <2>1, Zenon
<1>6. FreeBytes(new)[i] = FreeBytes(segs)[i]
  <2> DEFINE x == FreeBytes(new)[i]
             y == FreeBytes(segs)[i]
  <2>1. x \in Nat /\ y \in Nat /\ x - 0 = y - 0
    BY <1>1, <1>2, <1>4, <1>5
  <2> HIDE DEF x, y
  <2>2. x = y
    BY <2>1
  <2> QED  BY <2>2 DEF x, y
<1>7. FreeBytes(new)[b + r] - FreeBytes(new)[b] = FreeBytes(segs)[a + r] - FreeBytes(segs)[a]
  BY <1>2, FreeBytesShift
<1> QED  BY <1>6, <1>7 DEF FreeTotal

\* The lists after alloc_segment and after kfree, place by place.
AllocShaped(segs, new, i, size, d) ==
  /\ new \in Seq(Segments) /\ Len(new) = Len(segs) + d /\ d \in 0 .. 1
  /\ \A k \in 1 .. i - 1 : new[k] = segs[k]
  /\ \A k \in i + 1 .. Len(segs) : new[k + d] = segs[k]
  /\ new[i].addr = segs[i].addr /\ ~new[i].free
  /\ d = 0 => new[i].size = segs[i].size
  /\ d = 1 => /\ new[i].size = size /\ new[i + 1].free
              /\ new[i + 1].size = segs[i].size - size - SegHdr

FreeShaped(segs, new, i, d) ==
  /\ new \in Seq(Segments) /\ Len(new) = Len(segs) - d /\ d \in 0 .. 1
  /\ \A k \in 1 .. i - 1 : new[k] = segs[k]
  /\ \A k \in i + 1 .. Len(new) : new[k] = segs[k + d]
  /\ new[i].free /\ i \in 1 .. Len(new)
  /\ d = 0 => new[i].size = segs[i].size
  /\ d = 1 => /\ i + 1 \in 1 .. Len(segs) /\ segs[i + 1].free
              /\ new[i].size = segs[i].size + segs[i + 1].size + SegHdr

\* alloc_segment leaves the segment taken, the fragment behind it after a
\* split, and all others as they were.
LEMMA AllocShape ==
  ASSUME NEW segs, NEW total, SegsOK(segs, total),
         NEW i \in 1 .. Len(segs), NEW size \in Nat,
         segs[i].free, segs[i].size >= size,
         NEW new, new = AllocSegs(segs, i, size),
         NEW d, d = Drift(segs[i], size)
  PROVE  AllocShaped(segs, new, i, size, d)
<1> DEFINE n == Len(segs)
<1>1. n \in Nat /\ i \in 1 .. n /\ segs \in Seq(Segments)
  BY DEF SegsOK
<1>2. new \in Seq(Segments)
  BY AllocSegsOK DEF AllocResult, SegsOK
<1>3. CASE Splits(segs[i], size)
  <2>1. d = 1 /\ new = SplitSegs(segs, i, size)
    BY <1>3 DEF AllocSegs, Drift
  <2> DEFINE used == Segment(segs[i].addr, size, FALSE)
             rest == Segment(segs[i].addr + size + SegHdr,
                             segs[i].size - size - SegHdr, TRUE)
  <2>2. new = [k \in 1 .. n + 1 |-> IF k < i THEN segs[k]
                                    ELSE IF k = i THEN used
                                    ELSE IF k = i + 1 THEN rest ELSE segs[k - 1]]
    BY <2>1 DEF SplitSegs
  <2>3. used.addr = segs[i].addr /\ used.size = size /\ ~used.free
    BY DEF Segment
  <2>4. rest.size = segs[i].size - size - SegHdr /\ rest.free
    BY DEF Segment
  <2> HIDE DEF used, rest
  <2>5. Len(new) = n + 1
    BY <1>1, <1>2, <2>2
  <2>6. /\ \A k \in 1 .. i - 1 : new[k] = segs[k]
        /\ \A k \in i + 1 .. n : new[k + 1] = segs[k]
        /\ new[i] = used /\ new[i + 1] = rest
    BY <1>1, <2>2
  <2>7. /\ Len(new) = Len(segs) + d /\ d \in 0 .. 1 /\ d # 0
        /\ \A k \in i + 1 .. Len(segs) : new[k + d] = segs[k]
    <3>1. d = 1 /\ d # 0 /\ d \in 0 .. 1
      BY <2>1
    <3> QED  BY <2>5, <2>6, <3>1
  <2> QED  BY <1>2, <2>3, <2>4, <2>6, <2>7, ZenonT(30) DEF AllocShaped
<1>4. CASE ~Splits(segs[i], size)
  <2>1. d = 0 /\ new = MarkSegs(segs, i, FALSE)
    BY <1>4 DEF AllocSegs, Drift
  <2> DEFINE used == Segment(segs[i].addr, segs[i].size, FALSE)
  <2>2. new = [segs EXCEPT ![i] = used]
    BY <2>1 DEF MarkSegs
  <2>3. used.addr = segs[i].addr /\ used.size = segs[i].size /\ ~used.free
    BY DEF Segment
  <2> HIDE DEF used
  <2>4. Len(new) = n /\ new[i] = used /\ \A k \in 1 .. n : k # i => new[k] = segs[k]
    BY <1>1, <2>2
  <2>5. \A k \in 1 .. i - 1 : new[k] = segs[k]
    BY <1>1, <2>4
  <2>6. \A k \in i + 1 .. n : new[k + 0] = segs[k]
    BY <1>1, <2>4
  <2>7. /\ Len(new) = Len(segs) + d /\ d \in 0 .. 1 /\ d # 1
        /\ \A k \in i + 1 .. Len(segs) : new[k + d] = segs[k]
    <3>1. d = 0 /\ d # 1 /\ d \in 0 .. 1 /\ n = n + 0
      BY <1>1, <2>1
    <3> QED  BY <2>4, <2>6, <3>1, Zenon
  <2> QED  BY <1>2, <2>3, <2>4, <2>5, <2>7, Zenon DEF AllocShaped
<1> QED  BY <1>3, <1>4

\* kfree leaves a free segment, alone or joined with the next, and all others.
LEMMA FreeShape ==
  ASSUME NEW segs, NEW total, SegsOK(segs, total), NEW i \in 1 .. Len(segs),
         NEW new, new = FreeSegs(segs, i),
         NEW d, d = IF Merges(segs, i) THEN 1 ELSE 0
  PROVE  FreeShaped(segs, new, i, d)
<1> DEFINE n == Len(segs)
<1>1. n \in Nat /\ i \in 1 .. n /\ segs \in Seq(Segments)
  BY DEF SegsOK
<1>2. new \in Seq(Segments)
  BY FreeSegsOK DEF FreeResult, SegsOK
<1>3. CASE Merges(segs, i)
  <2>1. d = 1 /\ new = MergeSegs(segs, i)
    BY <1>3 DEF FreeSegs
  <2>2. i \in 1 .. n - 1 /\ i + 1 \in 1 .. n /\ segs[i + 1].free
    BY <1>1, <1>3 DEF Merges
  <2> DEFINE joined == Segment(segs[i].addr, segs[i].size + segs[i + 1].size + SegHdr, TRUE)
  <2>3. new = [k \in 1 .. n - 1 |-> IF k < i THEN segs[k]
                                    ELSE IF k = i THEN joined ELSE segs[k + 1]]
    BY <2>1 DEF MergeSegs
  <2>4. joined.size = segs[i].size + segs[i + 1].size + SegHdr /\ joined.free
    BY DEF Segment
  <2> HIDE DEF joined
  <2>5. Len(new) = n - 1
    BY <1>1, <1>2, <2>2, <2>3
  <2>6. /\ \A k \in 1 .. i - 1 : new[k] = segs[k]
        /\ \A k \in i + 1 .. n - 1 : new[k] = segs[k + 1]
        /\ new[i] = joined
    BY <1>1, <2>2, <2>3
  <2>7. /\ Len(new) = Len(segs) - d /\ d \in 0 .. 1 /\ d # 0
        /\ \A k \in i + 1 .. Len(new) : new[k] = segs[k + d]
    <3>1. d = 1 /\ d # 0 /\ d \in 0 .. 1
      BY <2>1
    <3> QED  BY <2>5, <2>6, <3>1
  <2>8. i \in 1 .. Len(new)
    BY <2>2, <2>5
  <2> QED  BY <1>2, <2>2, <2>4, <2>6, <2>7, <2>8, Zenon DEF FreeShaped
<1>4. CASE ~Merges(segs, i)
  <2>1. d = 0 /\ new = MarkSegs(segs, i, TRUE)
    BY <1>4 DEF FreeSegs
  <2> DEFINE freed == Segment(segs[i].addr, segs[i].size, TRUE)
  <2>2. new = [segs EXCEPT ![i] = freed]
    BY <2>1 DEF MarkSegs
  <2>3. freed.size = segs[i].size /\ freed.free
    BY DEF Segment
  <2> HIDE DEF freed
  <2>4. Len(new) = n /\ new[i] = freed /\ \A k \in 1 .. n : k # i => new[k] = segs[k]
    BY <1>1, <2>2
  <2>5. \A k \in 1 .. i - 1 : new[k] = segs[k]
    BY <1>1, <2>4
  <2>6. \A k \in i + 1 .. n : new[k] = segs[k + 0]
    BY <1>1, <2>4
  <2>7. /\ Len(new) = Len(segs) - d /\ d \in 0 .. 1 /\ d # 1
        /\ \A k \in i + 1 .. Len(new) : new[k] = segs[k + d]
    <3>1. d = 0 /\ d # 1 /\ d \in 0 .. 1 /\ n = n - 0
      BY <1>1, <2>1
    <3> QED  BY <2>4, <2>6, <3>1, Zenon
  <2> QED  BY <1>1, <1>2, <2>3, <2>4, <2>5, <2>7, Zenon DEF FreeShaped
<1> QED  BY <1>3, <1>4
-----------------------------------------------------------------------------
(* Arithmetic modulo U32. *)

\* The remainder is what is left of a number after whole multiples.
LEMMA DivMod ==
  ASSUME NEW x \in Int, NEW u \in Nat, u > 0
  PROVE  /\ x \div u \in Int /\ x % u \in 0 .. u - 1
         /\ x = u * (x \div u) + (x % u)
OBVIOUS

\* x and y differ by q times u.
Apart(x, y, u, q) == x = y + u * q

\* Numbers that differ by a multiple have the same remainder.
LEMMA ModEq ==
  ASSUME NEW x \in Int, NEW y \in Int, NEW q \in Int, NEW u \in Nat, u > 0,
         Apart(x, y, u, q)
  PROVE  x % u = y % u
<1> DEFINE a == x \div u
           b == y \div u
           c == x % u
           d == y % u
<1>1. a \in Int /\ c \in 0 .. u - 1 /\ x = u * a + c
  BY DivMod
<1>2. b \in Int /\ d \in 0 .. u - 1 /\ y = u * b + d
  BY DivMod
<1> HIDE DEF a, b, c, d
<1> DEFINE t == a - b - q
<1>3. t \in Int /\ u * t = u * a - u * b - u * q
  BY <1>1, <1>2
<1>4. u * t = d - c
  <2> HIDE DEF t
  <2> DEFINE ua == u * a
             ub == u * b
             uq == u * q
             ut == u * t
  <2>1. ua \in Int /\ ub \in Int /\ uq \in Int /\ ut \in Int
    BY <1>1, <1>2, <1>3
  <2>2. ut = ua - ub - uq /\ x = ua + c /\ y = ub + d /\ x = y + uq
    BY <1>1, <1>2, <1>3 DEF Apart
  <2> HIDE DEF ua, ub, uq, ut
  <2>3. ut = d - c
    BY <1>1, <1>2, <2>1, <2>2
  <2> QED  BY <2>3 DEF ut
<1> HIDE DEF t
<1>5. t = 0
  <2>1. CASE t >= 1
    <3>1. u * t >= u
      BY <1>3, <2>1
    <3> QED  BY <1>1, <1>2, <1>4, <3>1
  <2>2. CASE t <= -1
    <3>1. u * t <= -u
      BY <1>3, <2>2
    <3> QED  BY <1>1, <1>2, <1>4, <3>1
  <2> QED  BY <1>3, <2>1, <2>2
<1>6. c = d
  BY <1>1, <1>2, <1>4, <1>5
<1> QED  BY <1>6 DEF c, d

\* The two sides of the accounts below.
AllocAgrees(s, h, c, d, z, u) ==
  (((s + h * c) % u) - z) % u = ((s - z - h * d) + h * ((c + d) % u)) % u

FreeAgrees(s, h, c, z, e, u) ==
  (((s + h * c) % u) + z + e) % u = ((s + z + e) + h * c) % u

\* The accounts of alloc_segment: what free_size loses, and what the history
\* and the sum of the free bytes change by, agree modulo U32.
LEMMA AllocAccount ==
  ASSUME NEW s \in Int, NEW h \in Int, NEW c \in Int, NEW d \in Int, NEW z \in Int,
         NEW u \in Nat, u > 0
  PROVE  AllocAgrees(s, h, c, d, z, u)
<1> DEFINE hc == h * c
           hd == h * d
           m == (c + d) % u
           q == (c + d) \div u
           x == s + hc
           y == x % u
           r == x \div u
           hm == h * m
           hq == h * q
<1>1. hc \in Int /\ hd \in Int /\ x \in Int
  OBVIOUS
<1>2. q \in Int /\ m \in Int /\ c + d = u * q + m
  <2>1. c + d \in Int
    OBVIOUS
  <2> QED  BY <2>1, DivMod
<1>3. r \in Int /\ y \in Int /\ x = u * r + y
  <2> HIDE DEF x
  <2> QED  BY <1>1, DivMod
<1>4. hm \in Int /\ hq \in Int
  <2> HIDE DEF q, m
  <2> QED  BY <1>2
<1>5. h * (c + d) = hc + hd
  OBVIOUS
<1>6. h * (u * q + m) = u * hq + hm
  <2> HIDE DEF q, m
  <2> QED  BY <1>2
<1>7. hc + hd = u * hq + hm
  BY <1>2, <1>5, <1>6
<1>8. x = s + hc
  OBVIOUS
<1> HIDE DEF hc, hd, m, q, x, y, r, hm, hq
<1>9. u * (hq - r) = u * hq - u * r /\ hq - r \in Int
  BY <1>3, <1>4
<1>10. y - z = (s - z - hd + hm) + u * (hq - r)
  <2> DEFINE ur == u * r
             uh == u * hq
  <2>1. ur \in Int /\ uh \in Int
    BY <1>3, <1>4
  <2>2. x = ur + y /\ hc + hd = uh + hm /\ u * (hq - r) = uh - ur
    BY <1>3, <1>7, <1>9
  <2> HIDE DEF ur, uh
  <2>3. y - z = (s - z - hd + hm) + (uh - ur)
    BY <1>1, <1>3, <1>4, <1>8, <2>1, <2>2
  <2> QED  BY <2>2, <2>3
<1>11. y - z \in Int /\ (s - z - hd + hm) \in Int
  BY <1>1, <1>3, <1>4
<1>12. (y - z) % u = (s - z - hd + hm) % u
  <2> DEFINE a == y - z
             b == s - z - hd + hm
             k == hq - r
  <2>1. a \in Int /\ b \in Int /\ k \in Int /\ Apart(a, b, u, k)
    BY <1>9, <1>10, <1>11 DEF Apart
  <2> HIDE DEF a, b, k
  <2>2. a % u = b % u
    BY <2>1, ModEq
  <2> QED  BY <2>2 DEF a, b
<1> QED  BY <1>12 DEF AllocAgrees, y, x, hc, hd, hm, m

\* The accounts of kfree.
LEMMA FreeAccount ==
  ASSUME NEW s \in Int, NEW h \in Int, NEW c \in Int, NEW z \in Int, NEW e \in Int,
         NEW u \in Nat, u > 0
  PROVE  FreeAgrees(s, h, c, z, e, u)
<1> DEFINE hc == h * c
           x == s + hc
           y == x % u
           r == x \div u
<1>1. hc \in Int /\ x \in Int /\ x = s + hc
  OBVIOUS
<1>2. r \in Int /\ y \in Int /\ x = u * r + y
  <2> HIDE DEF x
  <2> QED  BY <1>1, DivMod
<1> HIDE DEF hc, x, y, r
<1>3. u * (-r) = -(u * r) /\ -r \in Int /\ u * r \in Int
  BY <1>2
<1>4. y + z + e = ((s + z + e) + hc) + u * (-r)
  <2> DEFINE ur == u * r
  <2>1. ur \in Int /\ x = ur + y /\ u * (-r) = -ur
    BY <1>2, <1>3
  <2> HIDE DEF ur
  <2>2. y + z + e = ((s + z + e) + hc) + (-ur)
    BY <1>1, <1>2, <2>1
  <2> QED  BY <2>1, <2>2
<1>5. y + z + e \in Int /\ (s + z + e) + hc \in Int
  BY <1>1, <1>2
<1>6. (y + z + e) % u = ((s + z + e) + hc) % u
  <2> DEFINE a == y + z + e
             b == (s + z + e) + hc
             k == -r
  <2>1. a \in Int /\ b \in Int /\ k \in Int /\ Apart(a, b, u, k)
    BY <1>3, <1>4, <1>5 DEF Apart
  <2> HIDE DEF a, b, k
  <2>2. a % u = b % u
    BY <2>1, ModEq
  <2> QED  BY <2>2 DEF a, b
<1> QED  BY <1>6 DEF FreeAgrees, y, x, hc

\* alloc_segment takes its segment, and the header of a fragment, from the
\* free bytes of the page.
LEMMA AllocTotal ==
  ASSUME NEW segs, NEW total, SegsOK(segs, total),
         NEW i \in 1 .. Len(segs), NEW size \in Nat,
         segs[i].free, segs[i].size >= size,
         NEW new, new = AllocSegs(segs, i, size)
  PROVE  FreeTotal(new) = FreeTotal(segs) - new[i].size - SegHdr * Drift(segs[i], size)
<1> DEFINE d == Drift(segs[i], size)
           n == Len(segs)
           F == FreeBytes(segs)
           G == FreeBytes(new)
<1>1. /\ new \in Seq(Segments) /\ Len(new) = n + d /\ d \in 0 .. 1
      /\ \A k \in 1 .. i - 1 : new[k] = segs[k]
      /\ \A k \in i + 1 .. n : new[k + d] = segs[k]
      /\ ~new[i].free
      /\ d = 0 => new[i].size = segs[i].size
      /\ d = 1 => /\ new[i].size = size /\ new[i + 1].free
                  /\ new[i + 1].size = segs[i].size - size - SegHdr
  <2>1. AllocShaped(segs, new, i, size, d)
    BY AllocShape
  <2> QED  BY <2>1, ZenonT(30) DEF AllocShaped
<1>2. n \in Nat /\ i \in 1 .. n /\ segs \in Seq(Segments) /\ SegHdr \in Nat
  <2>1. segs \in Seq(Segments) /\ SegHdr \in Nat
    BY HeapAssumption DEF SegsOK
  <2> QED  BY <2>1
<1>d. d \in 0 .. 1 /\ d \in Int
  BY DEF Drift
<1> HIDE DEF d, F, G
<1>3. /\ \A k \in 0 .. n : F[k] \in Nat
      /\ \A k \in 1 .. n : F[k] = F[k - 1] + FreePart(segs[k])
  BY <1>2, FreeBytesDef DEF F
<1>4. /\ \A k \in 0 .. n + d : G[k] \in Nat
      /\ \A k \in 1 .. n + d : G[k] = G[k - 1] + FreePart(new[k])
  BY <1>1, FreeBytesDef, ZenonT(30) DEF G
<1>5. G[i - 1] = F[i - 1] /\ G[n + d] - G[i + d] = F[n] - F[i]
  <2>1. /\ i - 1 \in Nat /\ i \in Nat /\ i + d \in Nat /\ n - i \in Nat
        /\ i - 1 <= i /\ i - 1 <= i + d /\ i + (n - i) = n /\ (i + d) + (n - i) = n + d
    BY <1>2, <1>d
  <2>2. Agree(segs, new, i, i + d, n - i)
    <3> SUFFICES ASSUME NEW k \in 1 .. n - i PROVE new[(i + d) + k] = segs[i + k]
      BY DEF Agree
    <3>1. i + k \in i + 1 .. n /\ (i + d) + k = (i + k) + d
      BY <1>d, <2>1
    <3> QED  BY <1>1, <3>1
  <2>3. Agree(segs, new, 0, 0, i - 1)
    BY <1>1 DEF Agree
  <2>4. /\ FreeBytes(new)[i - 1] = FreeBytes(segs)[i - 1]
        /\ FreeTotal(new) - FreeBytes(new)[i + d] = FreeTotal(segs) - FreeBytes(segs)[i]
    <3>1. Around(segs, new, i - 1, i, i + d, n - i)
      BY <1>1, <1>2, <2>1, <2>2, <2>3 DEF Around
    <3> QED  BY <3>1, FreeTotalAround
  <2> QED  BY <1>1, <2>4 DEF F, G, FreeTotal
<1>6. FreePart(segs[i]) = segs[i].size /\ FreePart(new[i]) = 0
  BY <1>1 DEF FreePart
<1>7. segs[i].size \in Nat
  BY <1>2, SegFields DEF Size
<1>8. G[n + d] = F[n] - new[i].size - SegHdr * d
  <2>1. /\ i \in 1 .. n + d /\ i - 1 \in 0 .. n /\ i - 1 \in 0 .. n + d
        /\ n \in 0 .. n /\ n + d \in 0 .. n + d /\ i \in 0 .. n /\ i + d \in 0 .. n + d
        /\ i \in 0 .. n + d
    BY <1>2, <1>d
  <2> DEFINE f0 == F[i - 1]
             f1 == F[i]
             fn == F[n]
             g0 == G[i]
             g1 == G[i + d]
             gn == G[n + d]
             z == segs[i].size
  <2>2. f0 \in Nat /\ f1 \in Nat /\ fn \in Nat /\ g0 \in Nat /\ g1 \in Nat /\ gn \in Nat
        /\ z \in Nat
    BY <1>3, <1>4, <1>7, <2>1, Zenon
  <2>3. f1 = f0 + z /\ g0 = f0 + 0 /\ gn - g1 = fn - f1
    <3>1. F[i] = F[i - 1] + FreePart(segs[i]) /\ G[i] = G[i - 1] + FreePart(new[i])
      BY <1>2, <1>3, <1>4, <2>1, Zenon
    <3> QED  BY <1>5, <1>6, <3>1, Zenon
  <2>4. CASE d = 0
    <3>1. g1 = g0
      BY <1>2, <2>4
    <3>2. new[i].size = z
      BY <1>1, <2>4
    <3> HIDE DEF f0, f1, fn, g0, g1, gn, z
    <3>3. gn = fn - z
      BY <2>2, <2>3, <3>1
    <3>4. gn = fn - z - SegHdr * 0
      BY <1>2, <2>2, <3>3
    <3> QED  BY <2>4, <3>2, <3>4 DEF gn, fn
  <2>5. CASE d = 1
    <3>1. new[i].size = size /\ FreePart(new[i + 1]) = z - size - SegHdr
      BY <1>1, <2>5 DEF FreePart
    <3>2. i + 1 \in 1 .. n + d /\ (i + 1) - 1 = i
      BY <1>2, <2>5
    <3>3. G[i + 1] = G[i] + FreePart(new[i + 1])
      BY <1>4, <3>2
    <3>4. g1 = g0 + (z - size - SegHdr)
      BY <2>5, <3>1, <3>3
    <3> HIDE DEF f0, f1, fn, g0, g1, gn, z
    <3>5. gn = fn - size - SegHdr * 1
      BY <1>2, <2>2, <2>3, <3>4
    <3> QED  BY <2>5, <3>1, <3>5 DEF gn, fn
  <2> QED  BY <1>d, <2>4, <2>5
<1> QED  BY <1>1, <1>8 DEF FreeTotal, F, G, d

\* kfree of a segment in use gives its bytes back, and those of the header
\* that a merge removes.
LEMMA FreeTotalGrows ==
  ASSUME NEW segs, NEW total, SegsOK(segs, total), NEW i \in 1 .. Len(segs),
         ~segs[i].free, NEW new, new = FreeSegs(segs, i)
  PROVE  FreeTotal(new) = FreeTotal(segs) + segs[i].size
                            + IF Merges(segs, i) THEN SegHdr ELSE 0
<1> DEFINE d == IF Merges(segs, i) THEN 1 ELSE 0
           n == Len(new)
           F == FreeBytes(segs)
           G == FreeBytes(new)
<1>1. /\ new \in Seq(Segments) /\ n = Len(segs) - d /\ d \in 0 .. 1
      /\ \A k \in 1 .. i - 1 : new[k] = segs[k]
      /\ \A k \in i + 1 .. n : new[k] = segs[k + d]
      /\ new[i].free /\ i \in 1 .. n
      /\ d = 0 => new[i].size = segs[i].size
      /\ d = 1 => /\ i + 1 \in 1 .. Len(segs) /\ segs[i + 1].free
                  /\ new[i].size = segs[i].size + segs[i + 1].size + SegHdr
  <2>1. FreeShaped(segs, new, i, d)
    BY FreeShape
  <2> QED  BY <2>1, Zenon DEF FreeShaped
<1>d. d \in 0 .. 1 /\ d \in Int
  OBVIOUS
<1>2. n \in Nat /\ Len(segs) = n + d /\ segs \in Seq(Segments) /\ SegHdr \in Nat
  <2>1. new \in Seq(Segments) /\ n = Len(segs) - d
    BY <1>1
  <2>2. segs \in Seq(Segments) /\ SegHdr \in Nat
    BY HeapAssumption DEF SegsOK
  <2>3. Len(segs) \in Nat /\ Len(new) \in Nat
    BY <2>1, <2>2
  <2> HIDE DEF d
  <2> QED  BY <1>d, <2>1, <2>2, <2>3
<1>3. (IF Merges(segs, i) THEN SegHdr ELSE 0) = SegHdr * d
  BY <1>2
<1> HIDE DEF d, F, G
<1>4. /\ \A k \in 0 .. n + d : F[k] \in Nat
      /\ \A k \in 1 .. n + d : F[k] = F[k - 1] + FreePart(segs[k])
  BY <1>2, FreeBytesDef, Zenon DEF F
<1>5. /\ \A k \in 0 .. n : G[k] \in Nat
      /\ \A k \in 1 .. n : G[k] = G[k - 1] + FreePart(new[k])
  BY <1>1, FreeBytesDef, ZenonT(30) DEF G
<1>6. G[i - 1] = F[i - 1] /\ G[n] - G[i] = F[n + d] - F[i + d]
  <2>1. /\ i - 1 \in Nat /\ i \in Nat /\ i + d \in Nat /\ n - i \in Nat
        /\ i - 1 <= i /\ i - 1 <= i + d /\ i + (n - i) = n /\ (i + d) + (n - i) = n + d
    <3>1. i \in 1 .. n
      BY <1>1
    <3> QED  BY <1>2, <1>d, <3>1
  <2>2. Agree(segs, new, i + d, i, n - i)
    <3> SUFFICES ASSUME NEW k \in 1 .. n - i PROVE new[i + k] = segs[(i + d) + k]
      BY DEF Agree
    <3>1. i + k \in i + 1 .. n /\ (i + d) + k = (i + k) + d
      BY <1>d, <2>1
    <3> QED  BY <1>1, <3>1
  <2>3. Agree(segs, new, 0, 0, i - 1)
    BY <1>1 DEF Agree
  <2>4. /\ FreeBytes(new)[i - 1] = FreeBytes(segs)[i - 1]
        /\ FreeTotal(new) - FreeBytes(new)[i] = FreeTotal(segs) - FreeBytes(segs)[i + d]
    <3>1. Around(segs, new, i - 1, i + d, i, n - i)
      BY <1>1, <1>2, <2>1, <2>2, <2>3 DEF Around
    <3> QED  BY <3>1, FreeTotalAround
  <2> QED  BY <1>2, <2>4 DEF F, G, FreeTotal
<1>7. FreePart(segs[i]) = 0 /\ FreePart(new[i]) = new[i].size
  BY <1>1 DEF FreePart
<1>8. segs[i].size \in Nat
  BY <1>2, SegFields DEF Size
<1>9. G[n] = F[n + d] + segs[i].size + SegHdr * d
  <2>1. /\ i \in 1 .. n + d /\ i - 1 \in 0 .. n /\ i - 1 \in 0 .. n + d
        /\ n \in 0 .. n /\ n + d \in 0 .. n + d /\ i \in 0 .. n /\ i \in 0 .. n + d
        /\ i + d \in 0 .. n + d /\ i \in 1 .. n
    <3>1. i \in 1 .. n
      BY <1>1
    <3> QED  BY <1>2, <1>d, <3>1
  <2> DEFINE f0 == F[i - 1]
             f1 == F[i]
             f2 == F[i + d]
             fn == F[n + d]
             g1 == G[i]
             gn == G[n]
             y == new[i].size
             z == segs[i].size
  <2>2. f0 \in Nat /\ f1 \in Nat /\ f2 \in Nat /\ fn \in Nat /\ g1 \in Nat /\ gn \in Nat
        /\ z \in Nat
    BY <1>4, <1>5, <1>8, <2>1, ZenonT(30)
  <2>3. f1 = f0 + 0 /\ g1 = f0 + y /\ gn - g1 = fn - f2
    BY <1>1, <1>4, <1>5, <1>6, <1>7, <2>1
  <2>4. CASE d = 0
    <3>1. f2 = f1 /\ y = z
      BY <1>1, <1>2, <2>4
    <3> HIDE DEF f0, f1, f2, fn, g1, gn, y, z
    <3>2. gn = fn + z + SegHdr * 0
      BY <1>2, <2>2, <2>3, <3>1
    <3> QED  BY <2>4, <3>2 DEF gn, fn, z
  <2>5. CASE d = 1
    <3> DEFINE x == segs[i + 1].size
    <3>1. FreePart(segs[i + 1]) = x /\ y = z + x + SegHdr /\ i + 1 \in 1 .. n + d
      BY <1>1, <1>2, <2>5 DEF FreePart
    <3>2. (i + 1) - 1 = i /\ x \in Nat
      <4>1. i + 1 \in 1 .. Len(segs)
        BY <1>1, <2>5
      <4>2. Size(segs, i + 1) \in Nat
        BY <1>2, <4>1, SegFields, Zenon
      <4> QED  BY <2>1, <4>2 DEF Size
    <3>3. F[i + 1] = F[i] + x
      BY <1>4, <3>1, <3>2
    <3>4. f2 = f1 + x
      BY <2>5, <3>3
    <3> HIDE DEF f0, f1, f2, fn, g1, gn, x, y, z
    <3>5. gn = fn + z + SegHdr * 1
      BY <1>2, <2>2, <2>3, <3>1, <3>2, <3>4
    <3> QED  BY <2>5, <3>5 DEF gn, fn, z
  <2> QED  BY <1>d, <2>4, <2>5
<1> QED  BY <1>2, <1>3, <1>9 DEF FreeTotal, F, G
-----------------------------------------------------------------------------
(* free_size and the blocks of the first page. *)

\* FreeSizeDrift, page by page.
PageDrift(pg, c) == pg.free_size = (FreeTotal(pg.segs) + SegHdr * c) % U32

\* FreeSizeDrift says that the accounts of each page agree.
LEMMA DriftEach ==
  FreeSizeDrift <=> \A p \in DOMAIN pages : PageDrift(pages[p], splits[p])
BY DEF FreeSizeDrift, PageDrift, FreeTotal

\* The sum of a list's free bytes is a number.
LEMMA FreeTotalNat ==
  ASSUME NEW segs \in Seq(Segments)
  PROVE  FreeTotal(segs) \in Nat
<1>1. Len(segs) \in 0 .. Len(segs) /\ FreeBytes(segs) \in [0 .. Len(segs) -> Nat]
  <2>1. Len(segs) \in Nat
    OBVIOUS
  <2> QED  BY <2>1, FreeBytesDef
<1> QED  BY <1>1 DEF FreeTotal

\* alloc_segment keeps the accounts of its page.
LEMMA AllocDrift ==
  ASSUME NEW pg \in PageType, SegsOK(pg.segs, pg.size),
         NEW i \in 1 .. Len(pg.segs), NEW size \in Nat,
         pg.segs[i].free, pg.segs[i].size >= size,
         NEW c \in Nat, PageDrift(pg, c)
  PROVE  PageDrift(alloc_segment(pg, i, size), (c + Drift(pg.segs[i], size)) % U32)
<1> DEFINE segs == pg.segs
           new == AllocSegs(segs, i, size)
           d == Drift(segs[i], size)
           s == FreeTotal(segs)
           z == new[i].size
<1>1. /\ alloc_segment(pg, i, size).segs = new
      /\ alloc_segment(pg, i, size).free_size = (pg.free_size - z) % U32
  BY DEF alloc_segment
<1>2. AllocResult(segs, new, pg.size, i, size)
  BY AllocSegsOK
<1>3. z \in Nat
  <2> HIDE DEF new
  <2>1. new \in Seq(Segments) /\ i \in 1 .. Len(new)
    BY <1>2 DEF AllocResult, SegsOK
  <2>2. Size(new, i) \in Nat
    BY <2>1, SegFields
  <2> QED  BY <2>2 DEF Size
<1>4. FreeTotal(new) = s - z - SegHdr * d
  BY AllocTotal
<1>5. s \in Nat /\ d \in Int /\ U32 \in Nat /\ U32 > 0 /\ SegHdr \in Nat
  <2>1. segs \in Seq(Segments)
    BY DEF SegsOK
  <2>2. s \in Nat
    BY <2>1, FreeTotalNat
  <2> QED  BY <2>2, HeapAssumption DEF Drift
<1>6. pg.free_size = (s + SegHdr * c) % U32
  BY DEF PageDrift
<1> HIDE DEF segs, new, d, s, z
<1>7. (((s + SegHdr * c) % U32) - z) % U32
        = ((s - z - SegHdr * d) + SegHdr * ((c + d) % U32)) % U32
  <2>1. /\ s \in Int /\ z \in Int /\ d \in Int /\ c \in Int /\ SegHdr \in Int
        /\ U32 \in Nat /\ U32 > 0
    BY <1>3, <1>5
  <2>2. AllocAgrees(s, SegHdr, c, d, z, U32)
    BY <2>1, AllocAccount
  <2> QED  BY <2>2 DEF AllocAgrees
<1>8. alloc_segment(pg, i, size).free_size
        = (FreeTotal(new) + SegHdr * ((c + d) % U32)) % U32
  BY <1>1, <1>4, <1>6, <1>7
<1> QED  BY <1>1, <1>8 DEF PageDrift, d, segs

\* kfree of a segment in use keeps the accounts of its page.
LEMMA FreeDrift ==
  ASSUME NEW pg \in PageType, SegsOK(pg.segs, pg.size),
         NEW i \in 1 .. Len(pg.segs), ~pg.segs[i].free,
         NEW c \in Nat, PageDrift(pg, c)
  PROVE  PageDrift(free_segment(pg, i), c)
<1> DEFINE segs == pg.segs
           new == FreeSegs(segs, i)
           s == FreeTotal(segs)
           z == segs[i].size
           e == IF Merges(segs, i) THEN SegHdr ELSE 0
<1>1. /\ free_segment(pg, i).segs = new
      /\ free_segment(pg, i).free_size = (pg.free_size + z + e) % U32
  BY DEF free_segment
<1>2. FreeTotal(new) = s + z + e
  BY FreeTotalGrows
<1>3. s \in Nat /\ z \in Nat /\ e \in Nat /\ U32 \in Nat /\ U32 > 0 /\ SegHdr \in Nat
  <2>1. segs \in Seq(Segments)
    BY DEF SegsOK
  <2>2. s \in Nat /\ Size(segs, i) \in Nat
    BY <2>1, FreeTotalNat, SegFields
  <2> QED  BY <2>2, HeapAssumption DEF Size
<1>4. pg.free_size = (s + SegHdr * c) % U32
  BY DEF PageDrift
<1> HIDE DEF segs, new, s, z, e
<1>5. (((s + SegHdr * c) % U32) + z + e) % U32 = ((s + z + e) + SegHdr * c) % U32
  <2>1. /\ s \in Int /\ z \in Int /\ e \in Int /\ c \in Int /\ SegHdr \in Int
        /\ U32 \in Nat /\ U32 > 0
    BY <1>3
  <2>2. FreeAgrees(s, SegHdr, c, z, e, U32)
    BY <2>1, FreeAccount
  <2> QED  BY <2>2 DEF FreeAgrees
<1>6. free_segment(pg, i).free_size = (FreeTotal(new) + SegHdr * c) % U32
  BY <1>1, <1>2, <1>4, <1>5
<1> QED  BY <1>1, <1>6 DEF PageDrift

\* A new page has one free segment, and its accounts agree.
LEMMA NewPageDrift ==
  ASSUME NEW size \in Sizes
  PROVE  /\ NewPage(size) \in PageType /\ SegsOK(NewPage(size).segs, NewPage(size).size)
         /\ 1 \in 1 .. Len(NewPage(size).segs)
         /\ NewPage(size).segs[1].free /\ NewPage(size).segs[1].size >= size
         /\ PageDrift(NewPage(size), 0)
<1> DEFINE total == AllocSize(size)
           room == total - PageHdr - SegHdr
           first == Segment(PageHdr + SegHdr, room, TRUE)
           segs == <<first>>
<1>1. /\ size \in Nat /\ U32 \in Nat /\ U32 > 0 /\ PageHdr \in Nat /\ SegHdr \in Nat
      /\ FrameSize \in Nat /\ FrameSize > PageHdr + SegHdr /\ U32 > FrameSize
      /\ size + PageHdr + SegHdr < U32
  BY HeapAssumption
<1>2. total \in Nat /\ room \in Nat /\ room >= size /\ room < U32
  BY <1>1 DEF AllocSize
<1>3. room % U32 = room
  <2> HIDE DEF room
  <2> QED  BY <1>1, <1>2
<1>4. NewPage(size) = [size |-> total, free_size |-> room, segs |-> segs]
  BY <1>3, Zenon DEF NewPage
<1>5. /\ first \in Segments /\ first.addr = PageHdr + SegHdr
      /\ first.size = room /\ first.free
  <2>1. PageHdr + SegHdr \in Nat
    BY <1>1
  <2> HIDE DEF room
  <2>2. first \in Segments
    BY <1>2, <2>1, SegmentFields, Zenon
  <2> QED  BY <2>2 DEF Segment
<1>6. total = PageHdr + SegHdr + room
  BY <1>1, <1>2 DEF AllocSize
<1> HIDE DEF total, room, first
<1>7. segs \in Seq(Segments) /\ Len(segs) = 1 /\ segs[1] = first
  BY <1>5
<1> HIDE DEF segs
<1>8. SegsOK(segs, total)
  BY <1>1, <1>2, <1>5, <1>6, <1>7 DEF SegsOK, Addr, Size, End
<1>9. FreeTotal(segs) = room
  <2>1. 1 \in 1 .. Len(segs) /\ FreePart(segs[1]) = room
    BY <1>5, <1>7 DEF FreePart
  <2>2. FreeBytes(segs)[0] = 0 /\ FreeBytes(segs)[1] = FreeBytes(segs)[1 - 1] + FreePart(segs[1])
    BY <1>7, <2>1, FreeBytesDef
  <2>3. FreeBytes(segs)[1] = 0 + room
    BY <2>1, <2>2
  <2> QED  BY <1>2, <1>7, <2>3 DEF FreeTotal
<1>10. room = (room + SegHdr * 0) % U32
  BY <1>1, <1>2, <1>3
<1>11. PageDrift(NewPage(size), 0)
  BY <1>4, <1>9, <1>10 DEF PageDrift
<1>12. NewPage(size) \in PageType
  BY <1>2, <1>4, <1>7 DEF PageType
<1>13. NewPage(size).segs = segs /\ NewPage(size).size = total
  BY <1>4
<1>14. segs[1].free /\ segs[1].size >= size /\ 1 \in 1 .. Len(segs)
  BY <1>2, <1>5, <1>7
<1> QED  BY <1>8, <1>11, <1>12, <1>13, <1>14, Zenon

\* A step that takes a segment, seen from its page.
LEMMA TakeEffect ==
  ASSUME HeapInv, NEW size \in Sizes, NEW p \in DOMAIN pages,
         NEW i \in DOMAIN pages[p].segs, TakeSegment(p, i, size)
  PROVE  /\ pages[p] \in PageType /\ SegsOK(pages[p].segs, pages[p].size)
         /\ i \in 1 .. Len(pages[p].segs) /\ size \in Nat
         /\ pages[p].segs[i].free /\ pages[p].segs[i].size >= size
         /\ DOMAIN pages' = DOMAIN pages
         /\ pages'[p] = alloc_segment(pages[p], i, size)
         /\ \A q \in DOMAIN pages : q # p => pages'[q] = pages[q] /\ splits'[q] = splits[q]
         /\ splits[p] \in Nat
         /\ splits'[p] = (splits[p] + Drift(pages[p].segs[i], size)) % U32
<1>1. pages \in Seq(PageType) /\ splits \in Seq(Nat) /\ Len(splits) = Len(pages)
  BY DEF HeapInv, TypeOK, PageType
<1>2. pages[p] \in PageType /\ SegsOK(pages[p].segs, pages[p].size)
  BY <1>1 DEF HeapInv, PagesOK
<1>3. i \in 1 .. Len(pages[p].segs)
  <2> DEFINE segs == pages[p].segs
  <2>1. segs \in Seq(Segments) /\ i \in DOMAIN segs
    BY <1>2 DEF SegsOK
  <2> HIDE DEF segs
  <2>2. i \in 1 .. Len(segs)
    BY <2>1
  <2> QED  BY <2>2 DEF segs
<1>4. size \in Nat
  BY HeapAssumption
<1>5. pages[p].segs[i].free /\ pages[p].segs[i].size >= size
  BY DEF TakeSegment, FirstFit, Fits
<1> DEFINE pg == alloc_segment(pages[p], i, size)
           c == (splits[p] + Drift(pages[p].segs[i], size)) % U32
<1>6. /\ pages' = [pages EXCEPT ![p] = pg] /\ splits' = [splits EXCEPT ![p] = c]
      /\ p \in DOMAIN pages
  BY DEF TakeSegment
<1> HIDE DEF pg, c
<1>7. DOMAIN pages = 1 .. Len(pages) /\ DOMAIN splits = DOMAIN pages /\ splits[p] \in Nat
  BY <1>1
<1>8. /\ DOMAIN pages' = DOMAIN pages /\ pages'[p] = pg /\ splits'[p] = c
      /\ \A q \in DOMAIN pages : q # p => pages'[q] = pages[q] /\ splits'[q] = splits[q]
  BY <1>6, <1>7
<1> QED  BY <1>2, <1>3, <1>4, <1>5, <1>7, <1>8, Zenon DEF pg, c

\* A step that adds a page.
LEMMA GrowEffect ==
  ASSUME HeapInv, NEW size \in Sizes, Grow(size)
  PROVE  /\ Len(pages) \in Nat /\ DOMAIN pages = 1 .. Len(pages)
         /\ DOMAIN pages' = 1 .. Len(pages) + 1
         /\ pages'[Len(pages) + 1] = alloc_segment(NewPage(size), 1, size)
         /\ splits'[Len(pages) + 1] = Drift(NewPage(size).segs[1], size)
         /\ \A q \in DOMAIN pages : pages'[q] = pages[q] /\ splits'[q] = splits[q]
         /\ live' = live \cup {Block(Len(pages) + 1, NewPage(size).segs[1].addr, size)}
<1>1. pages \in Seq(PageType) /\ splits \in Seq(Nat) /\ Len(splits) = Len(pages)
  BY DEF HeapInv, TypeOK, PageType
<1> DEFINE n == Len(pages)
           pg == alloc_segment(NewPage(size), 1, size)
           c == Drift(NewPage(size).segs[1], size)
<1>2. /\ pages' = Append(pages, pg) /\ splits' = Append(splits, c)
      /\ live' = live \cup {Block(Len(pages) + 1, NewPage(size).segs[1].addr, size)}
  BY DEF Grow
<1> HIDE DEF pg, c
<1>3. n \in Nat /\ DOMAIN pages = 1 .. n
  BY <1>1
<1>4. /\ DOMAIN pages' = 1 .. n + 1 /\ pages'[n + 1] = pg /\ splits'[n + 1] = c
      /\ \A q \in 1 .. n : pages'[q] = pages[q] /\ splits'[q] = splits[q]
  BY <1>1, <1>2, <1>3
<1> QED  BY <1>2, <1>3, <1>4, ZenonT(30) DEF pg, c

\* A kfree that finds its segment.
LEMMA FoundEffect ==
  ASSUME HeapInv, NEW b \in live, NEW i \in DOMAIN pages[b.page].segs, Found(b, i)
  PROVE  /\ b.page \in DOMAIN pages /\ pages[b.page] \in PageType
         /\ SegsOK(pages[b.page].segs, pages[b.page].size)
         /\ i \in 1 .. Len(pages[b.page].segs)
         /\ pages[b.page].segs[i].addr = b.addr /\ ~pages[b.page].segs[i].free
         /\ DOMAIN pages' = DOMAIN pages
         /\ pages'[b.page] = free_segment(pages[b.page], i)
         /\ \A q \in DOMAIN pages : q # b.page => pages'[q] = pages[q]
         /\ splits' = splits /\ splits[b.page] \in Nat
         /\ live' = live \ {b}
<1> DEFINE p == b.page
           segs == pages[p].segs
           pg == free_segment(pages[p], i)
<1>1. /\ pages \in Seq(PageType) /\ splits \in Seq(Nat) /\ Len(splits) = Len(pages)
      /\ p \in DOMAIN pages
  BY DEF HeapInv, TypeOK, PageType
<1>2. pages[p] \in PageType /\ SegsOK(segs, pages[p].size)
  <2>1. SegsOK(segs, pages[p].size)
    BY <1>1, ZenonT(30) DEF HeapInv, PagesOK
  <2> HIDE DEF p
  <2>2. pages[p] \in PageType
    BY <1>1
  <2> QED  BY <2>1, <2>2
<1>3. /\ pages' = [pages EXCEPT ![p] = pg] /\ live' = live \ {b}
      /\ segs[i].addr = b.addr /\ splits' = splits /\ i \in DOMAIN segs
  BY DEF Found
<1>4. Backed(b)
  BY BackedEach DEF HeapInv
<1>5. PICK j \in DOMAIN segs : Backs(segs[j], b.addr, b.size)
  BY <1>4 DEF Backed
<1> HIDE DEF segs, pg
<1>6. segs \in Seq(Segments) /\ i \in 1 .. Len(segs) /\ j \in 1 .. Len(segs)
  <2>1. segs \in Seq(Segments)
    BY <1>2 DEF SegsOK
  <2>2. i \in DOMAIN segs /\ j \in DOMAIN segs
    BY <1>3, <1>5
  <2> QED  BY <2>1, <2>2
<1>7. segs[j].addr = b.addr /\ ~segs[j].free
  BY <1>5 DEF Backs
<1>8. i = j
  BY <1>2, <1>3, <1>6, <1>7, AddrDistinct
<1>9. /\ DOMAIN pages' = DOMAIN pages /\ pages'[p] = pg /\ splits[p] \in Nat
      /\ \A q \in DOMAIN pages : q # p => pages'[q] = pages[q]
  <2> HIDE DEF p
  <2> QED  BY <1>1, <1>3
<1> QED  BY <1>1, <1>2, <1>3, <1>6, <1>7, <1>8, <1>9 DEF segs, pg

\* A kfree that finds nothing was not given a block of the first page.
LEMMA NotFoundElsewhere ==
  ASSUME HeapInv, NEW b \in live, NotFound(b)
  PROVE  b.page # 1
<1> SUFFICES ASSUME b.page = 1 PROVE FALSE
  OBVIOUS
<1>1. \A i \in DOMAIN pages[b.page].segs : pages[b.page].segs[i].addr # b.addr
  BY DEF NotFound, Searched
<1>2. Backed(b)
  BY BackedEach DEF HeapInv
<1> QED  BY <1>1, <1>2 DEF Backed, Backs

\* The accounts of every page agree after every step.
LEMMA DriftStep == HeapInv /\ FreeSizeDrift /\ [Next]_vars => FreeSizeDrift'
<1> SUFFICES ASSUME HeapInv, FreeSizeDrift, [Next]_vars PROVE FreeSizeDrift'
  OBVIOUS
<1> DEFINE Goal == \A p \in DOMAIN pages' : PageDrift(pages'[p], splits'[p])
<1>1. \A p \in DOMAIN pages : PageDrift(pages[p], splits[p])
  BY DriftEach
<1>2. Goal => FreeSizeDrift'
  BY DEF FreeSizeDrift, PageDrift, FreeTotal
<1>3. ASSUME NEW size \in Sizes, NEW p \in DOMAIN pages,
             NEW i \in DOMAIN pages[p].segs, TakeSegment(p, i, size)
      PROVE  Goal
  <2>1. /\ pages[p] \in PageType /\ SegsOK(pages[p].segs, pages[p].size)
        /\ i \in 1 .. Len(pages[p].segs) /\ size \in Nat
        /\ pages[p].segs[i].free /\ pages[p].segs[i].size >= size
        /\ DOMAIN pages' = DOMAIN pages
        /\ pages'[p] = alloc_segment(pages[p], i, size)
        /\ \A q \in DOMAIN pages : q # p => pages'[q] = pages[q] /\ splits'[q] = splits[q]
        /\ splits[p] \in Nat
        /\ splits'[p] = (splits[p] + Drift(pages[p].segs[i], size)) % U32
    BY <1>3, TakeEffect
  <2>2. PageDrift(alloc_segment(pages[p], i, size),
                  (splits[p] + Drift(pages[p].segs[i], size)) % U32)
    <3> DEFINE pg == pages[p]
               c == splits[p]
    <3>1. /\ pg \in PageType /\ SegsOK(pg.segs, pg.size)
          /\ i \in 1 .. Len(pg.segs) /\ size \in Nat
          /\ pg.segs[i].free /\ pg.segs[i].size >= size
          /\ c \in Nat /\ PageDrift(pg, c)
      BY <1>1, <2>1, Zenon
    <3> HIDE DEF pg, c
    <3>2. PageDrift(alloc_segment(pg, i, size), (c + Drift(pg.segs[i], size)) % U32)
      BY <3>1, AllocDrift, Zenon
    <3> QED  BY <3>2, Zenon DEF pg, c
  <2>3. PageDrift(pages'[p], splits'[p])
    BY <2>1, <2>2, Zenon
  <2> QED  BY <1>1, <2>1, <2>3, ZenonT(30)
<1>4. ASSUME NEW size \in Sizes, Grow(size) PROVE Goal
  <2> DEFINE n == Len(pages)
             pg == NewPage(size)
             d == Drift(pg.segs[1], size)
  <2>1. /\ n \in Nat /\ DOMAIN pages = 1 .. n
        /\ DOMAIN pages' = 1 .. n + 1
        /\ pages'[n + 1] = alloc_segment(pg, 1, size)
        /\ splits'[n + 1] = d
        /\ \A q \in DOMAIN pages : pages'[q] = pages[q] /\ splits'[q] = splits[q]
    BY <1>4, GrowEffect
  <2>2. size \in Nat /\ U32 \in Nat /\ U32 > 1
    BY HeapAssumption
  <2>3. PageDrift(alloc_segment(pg, 1, size), (0 + d) % U32)
    <3>1. /\ pg \in PageType /\ SegsOK(pg.segs, pg.size) /\ 1 \in 1 .. Len(pg.segs)
          /\ pg.segs[1].free /\ pg.segs[1].size >= size /\ PageDrift(pg, 0)
      BY NewPageDrift
    <3>2. 0 \in Nat
      OBVIOUS
    <3> HIDE DEF pg
    <3> QED  BY <2>2, <3>1, <3>2, AllocDrift, ZenonT(30)
  <2>4. (0 + d) % U32 = d
    <3>1. d \in 0 .. 1
      BY DEF Drift
    <3> HIDE DEF d
    <3> QED  BY <2>2, <3>1
  <2>5. PageDrift(pages'[n + 1], splits'[n + 1])
    BY <2>1, <2>3, <2>4, Zenon
  <2>6. \A q \in 1 .. n + 1 : q = n + 1 \/ q \in DOMAIN pages
    BY <2>1
  <2> QED  BY <1>1, <2>1, <2>5, <2>6, ZenonT(30)
<1>5. ASSUME NEW b \in live, NEW i \in DOMAIN pages[b.page].segs, Found(b, i) PROVE Goal
  <2> DEFINE p == b.page
  <2>1. /\ p \in DOMAIN pages /\ pages[p] \in PageType
        /\ SegsOK(pages[p].segs, pages[p].size) /\ i \in 1 .. Len(pages[p].segs)
        /\ ~pages[p].segs[i].free
        /\ DOMAIN pages' = DOMAIN pages
        /\ pages'[p] = free_segment(pages[p], i)
        /\ \A q \in DOMAIN pages : q # p => pages'[q] = pages[q]
        /\ splits' = splits /\ splits[p] \in Nat
    BY <1>5, FoundEffect, Zenon
  <2> HIDE DEF p
  <2>2. PageDrift(free_segment(pages[p], i), splits[p])
    <3> DEFINE pg == pages[p]
               c == splits[p]
    <3>1. /\ pg \in PageType /\ SegsOK(pg.segs, pg.size) /\ i \in 1 .. Len(pg.segs)
          /\ ~pg.segs[i].free /\ c \in Nat /\ PageDrift(pg, c)
      BY <1>1, <2>1, Zenon
    <3> HIDE DEF pg, c
    <3>2. PageDrift(free_segment(pg, i), c)
      BY <3>1, FreeDrift, Zenon
    <3> QED  BY <3>2, Zenon DEF pg, c
  <2> QED  BY <1>1, <2>1, <2>2, ZenonT(30)
<1>6. ASSUME pages' = pages, splits' = splits PROVE Goal
  BY <1>1, <1>6, ZenonT(30)
<1>7. ASSUME NEW size \in Sizes, OutOfFrames(size) PROVE Goal
  BY <1>6, <1>7 DEF OutOfFrames
<1>8. ASSUME NEW b \in live, NotFound(b) PROVE Goal
  BY <1>6, <1>8 DEF NotFound
<1>9. ASSUME UNCHANGED vars PROVE Goal
  BY <1>6, <1>9 DEF vars
<1> HIDE DEF Goal
<1>10. Goal
  BY <1>3, <1>4, <1>5, <1>7, <1>8, <1>9 DEF Next, kmalloc, kfree
<1> QED  BY <1>2, <1>10

\* What alloc_segment leaves in use was in use, or is the segment taken.
LEMMA AllocUsed ==
  ASSUME NEW segs, NEW total, SegsOK(segs, total),
         NEW i \in 1 .. Len(segs), NEW size \in Nat,
         segs[i].free, segs[i].size >= size,
         NEW new, new = AllocSegs(segs, i, size),
         NEW k \in 1 .. Len(new), ~new[k].free
  PROVE  \/ new[k].addr = segs[i].addr
         \/ \E j \in 1 .. Len(segs) : new[k] = segs[j]
<1> DEFINE d == Drift(segs[i], size)
           n == Len(segs)
<1>1. /\ Len(new) = n + d /\ d \in 0 .. 1
      /\ \A j \in 1 .. i - 1 : new[j] = segs[j]
      /\ \A j \in i + 1 .. n : new[j + d] = segs[j]
      /\ new[i].addr = segs[i].addr
      /\ d = 1 => new[i + 1].free
  <2>1. AllocShaped(segs, new, i, size, d)
    BY AllocShape
  <2> QED  BY <2>1, ZenonT(30) DEF AllocShaped
<1>2. n \in Nat /\ i \in 1 .. n
  BY DEF SegsOK
<1>d. d \in 0 .. 1 /\ d \in Int
  BY DEF Drift
<1> HIDE DEF d
<1>3. CASE k < i
  <2>1. k \in 1 .. i - 1 /\ k \in 1 .. n
    BY <1>2, <1>3
  <2> QED  BY <1>1, <2>1
<1>4. CASE k = i
  BY <1>1, <1>4
<1>5. CASE k > i /\ k <= i + d
  <2>1. d = 1 /\ k = i + 1
    BY <1>2, <1>5, <1>d
  <2> QED  BY <1>1, <2>1
<1>6. CASE k > i + d
  <2>1. Len(new) = n + d
    BY <1>1
  <2>2. k - d \in i + 1 .. n /\ k - d \in 1 .. n /\ (k - d) + d = k
    BY <1>2, <1>6, <1>d, <2>1
  <2>3. new[(k - d) + d] = segs[k - d]
    BY <1>1, <2>2, Zenon
  <2> QED  BY <2>2, <2>3
<1>7. k < i \/ k = i \/ (k > i /\ k <= i + d) \/ k > i + d
  BY <1>2, <1>d
<1> QED  BY <1>3, <1>4, <1>5, <1>6, <1>7, Zenon

\* What kfree leaves in use was in use, and is not the segment freed.
LEMMA FreeUsed ==
  ASSUME NEW segs, NEW total, SegsOK(segs, total), NEW i \in 1 .. Len(segs),
         NEW new, new = FreeSegs(segs, i), NEW k \in 1 .. Len(new), ~new[k].free
  PROVE  \E j \in 1 .. Len(segs) : j # i /\ new[k] = segs[j]
<1> DEFINE d == IF Merges(segs, i) THEN 1 ELSE 0
           n == Len(new)
<1>1. /\ Len(new) = Len(segs) - d /\ d \in 0 .. 1
      /\ \A j \in 1 .. i - 1 : new[j] = segs[j]
      /\ \A j \in i + 1 .. Len(new) : new[j] = segs[j + d]
      /\ new[i].free
  <2>1. FreeShaped(segs, new, i, d)
    BY FreeShape
  <2> QED  BY <2>1, Zenon DEF FreeShaped
<1>2. Len(segs) \in Nat /\ i \in 1 .. Len(segs)
  BY DEF SegsOK
<1>d. d \in 0 .. 1 /\ d \in Int
  OBVIOUS
<1> HIDE DEF d
<1>3. CASE k < i
  <2>1. k \in 1 .. i - 1 /\ k \in 1 .. Len(segs) /\ k # i
    BY <1>2, <1>3
  <2> QED  BY <1>1, <2>1
<1>4. CASE k = i
  BY <1>1, <1>4
<1>5. CASE k > i
  <2>1. Len(new) = Len(segs) - d
    BY <1>1
  <2>2. k \in i + 1 .. Len(new) /\ k + d \in 1 .. Len(segs) /\ k + d # i
    BY <1>2, <1>5, <1>d, <2>1
  <2> QED  BY <1>1, <2>2
<1> QED  BY <1>2, <1>3, <1>4, <1>5

\* What is marked allocated in a page is held by a caller.
Accounted(pg, p, held) ==
  \A i \in 1 .. Len(pg.segs) :
    ~pg.segs[i].free => \E b \in held : b.page = p /\ b.addr = pg.segs[i].addr

\* FirstPageNoLeak is that of the first page.
LEMMA NoLeakFirst ==
  ASSUME pages \in Seq(PageType)
  PROVE  FirstPageNoLeak <=> (1 \in DOMAIN pages => Accounted(pages[1], 1, live))
<1>1. pages # <<>> <=> 1 \in DOMAIN pages
  OBVIOUS
<1>2. ASSUME 1 \in DOMAIN pages PROVE DOMAIN pages[1].segs = 1 .. Len(pages[1].segs)
  <2>1. pages[1] \in PageType
    BY <1>2
  <2>2. pages[1].segs \in Seq(Segments)
    BY <2>1 DEF PageType
  <2> DEFINE segs == pages[1].segs
  <2> HIDE DEF segs
  <2>3. segs \in Seq(Segments) => DOMAIN segs = 1 .. Len(segs)
    OBVIOUS
  <2> QED  BY <2>2, <2>3 DEF segs
<1> QED  BY <1>1, <1>2, Zenon DEF FirstPageNoLeak, Accounted

\* Nothing of the first page is lost by any step.
LEMMA NoLeakStep == HeapInv /\ FirstPageNoLeak /\ [Next]_vars => FirstPageNoLeak'
<1> SUFFICES ASSUME HeapInv, FirstPageNoLeak, [Next]_vars PROVE FirstPageNoLeak'
  OBVIOUS
<1> DEFINE Goal == 1 \in DOMAIN pages' => Accounted(pages'[1], 1, live')
<1>1. 1 \in DOMAIN pages => Accounted(pages[1], 1, live)
  <2>1. pages \in Seq(PageType)
    BY DEF HeapInv, TypeOK, PageType
  <2> QED  BY <2>1, NoLeakFirst
<1>2. Goal => FirstPageNoLeak'
  <2>1. PICK ps : ps = pages'
    OBVIOUS
  <2>2. HeapInv'
    BY HeapStep
  <2>3. pages' \in Seq(PageType)
    BY <2>2 DEF HeapInv, TypeOK, PageType
  <2>4. pages' # <<>> => 1 \in DOMAIN pages'
    BY <2>3
  <2>5. 1 \in DOMAIN pages' => DOMAIN pages'[1].segs = 1 .. Len(pages'[1].segs)
    <3> SUFFICES ASSUME 1 \in DOMAIN ps PROVE DOMAIN ps[1].segs = 1 .. Len(ps[1].segs)
      BY <2>1
    <3>1. ps[1] \in PageType
      BY <2>1, <2>3
    <3> DEFINE segs == ps[1].segs
    <3>2. segs \in Seq(Segments)
      BY <3>1 DEF PageType
    <3> HIDE DEF segs
    <3>3. DOMAIN segs = 1 .. Len(segs)
      BY <3>2
    <3> QED  BY <3>3 DEF segs
  <2> QED  BY <2>4, <2>5, Zenon DEF FirstPageNoLeak, Accounted
<1>3. ASSUME NEW size \in Sizes, NEW p \in DOMAIN pages,
             NEW i \in DOMAIN pages[p].segs, TakeSegment(p, i, size)
      PROVE  Goal
  <2> DEFINE segs == pages[p].segs
             new == AllocSegs(segs, i, size)
             blk == Block(p, segs[i].addr, size)
  <2>1. /\ SegsOK(segs, pages[p].size) /\ i \in 1 .. Len(segs) /\ size \in Nat
        /\ segs[i].free /\ segs[i].size >= size
        /\ DOMAIN pages' = DOMAIN pages
        /\ pages'[p] = alloc_segment(pages[p], i, size)
        /\ \A q \in DOMAIN pages : q # p => pages'[q] = pages[q]
    BY <1>3, TakeEffect, Zenon
  <2>2. live' = live \cup {blk} /\ blk.page = p /\ blk.addr = segs[i].addr
    BY <1>3 DEF TakeSegment, Block
  <2>3. pages'[p].segs = new
    BY <2>1 DEF alloc_segment
  <2>4. ASSUME NEW k \in 1 .. Len(new), ~new[k].free
        PROVE  \/ new[k].addr = segs[i].addr
               \/ \E j \in 1 .. Len(segs) : new[k] = segs[j]
    <3>1. /\ SegsOK(segs, pages[p].size) /\ i \in 1 .. Len(segs) /\ size \in Nat
          /\ segs[i].free /\ segs[i].size >= size
      BY <2>1, Zenon
    <3> HIDE DEF segs
    <3> QED  BY <2>4, <3>1, AllocUsed
  <2> HIDE DEF segs, new, blk
  <2>5. CASE p = 1
    <3>1. 1 \in DOMAIN pages /\ Accounted(pages[1], 1, live)
      BY <1>1, <2>5
    <3>2. \A j \in 1 .. Len(segs) :
            ~segs[j].free => \E b \in live : b.page = 1 /\ b.addr = segs[j].addr
      BY <2>5, <3>1, ZenonT(30) DEF Accounted, segs
    <3>3. ASSUME NEW k \in 1 .. Len(new), ~new[k].free
          PROVE  \E b \in live' : b.page = 1 /\ b.addr = new[k].addr
      <4>1. CASE new[k].addr = segs[i].addr
        BY <2>2, <2>5, <4>1
      <4>2. CASE \E j \in 1 .. Len(segs) : new[k] = segs[j]
        <5>1. PICK j \in 1 .. Len(segs) : new[k] = segs[j]
          BY <4>2
        <5>2. PICK b \in live : b.page = 1 /\ b.addr = segs[j].addr
          BY <3>2, <3>3, <5>1
        <5> QED  BY <2>2, <5>1, <5>2
      <4> QED  BY <2>4, <3>3, <4>1, <4>2
    <3> QED  BY <2>3, <2>5, <3>3, Zenon DEF Accounted
  <2>6. CASE p # 1
    <3>1. 1 \in DOMAIN pages => pages'[1] = pages[1]
      BY <2>1, <2>6
    <3>2. live \subseteq live'
      BY <2>2
    <3>3. DOMAIN pages' = DOMAIN pages
      BY <2>1
    <3> QED  BY <1>1, <3>1, <3>2, <3>3, ZenonT(30) DEF Accounted
  <2> QED  BY <2>5, <2>6
<1>4. ASSUME NEW size \in Sizes, Grow(size) PROVE Goal
  <2> DEFINE n == Len(pages)
             pg == NewPage(size)
             segs == pg.segs
             new == AllocSegs(segs, 1, size)
             blk == Block(n + 1, segs[1].addr, size)
  <2>1. /\ n \in Nat /\ DOMAIN pages = 1 .. n
        /\ DOMAIN pages' = 1 .. n + 1
        /\ pages'[n + 1] = alloc_segment(pg, 1, size)
        /\ \A q \in DOMAIN pages : pages'[q] = pages[q]
        /\ live' = live \cup {blk}
    BY <1>4, GrowEffect
  <2>2. blk.page = n + 1 /\ blk.addr = segs[1].addr
    BY DEF Block
  <2>3. /\ SegsOK(segs, pg.size) /\ 1 \in 1 .. Len(segs) /\ size \in Nat
        /\ segs[1].free /\ segs[1].size >= size
    BY NewPageDrift, HeapAssumption
  <2>4. pages'[n + 1].segs = new /\ Len(segs) = 1
    <3>1. alloc_segment(pg, 1, size).segs = new
      BY DEF alloc_segment
    <3>2. Len(segs) = 1
      BY DEF NewPage
    <3> QED  BY <2>1, <3>1, <3>2, ZenonT(30)
  <2> HIDE DEF n, pg, segs, blk
  <2>5. CASE n = 0
    <3>1. ASSUME NEW k \in 1 .. Len(new), ~new[k].free
          PROVE  new[k].addr = segs[1].addr
      <4>1. \/ new[k].addr = segs[1].addr
            \/ \E j \in 1 .. Len(segs) : new[k] = segs[j]
        BY <2>3, <3>1, AllocUsed
      <4>2. \A j \in 1 .. Len(segs) : j = 1
        BY <2>4
      <4> QED  BY <4>1, <4>2
    <3> HIDE DEF new
    <3>2. n + 1 = 1
      BY <2>5
    <3>3. blk \in live' /\ blk.page = 1 /\ blk.addr = segs[1].addr
      BY <2>1, <2>2, <3>2
    <3>4. pages'[1].segs = new
      BY <2>4, <3>2
    <3> QED  BY <3>1, <3>3, <3>4, Zenon DEF Accounted
  <2>6. CASE n # 0
    <3>1. 1 \in DOMAIN pages
      BY <2>1, <2>6
    <3>2. pages'[1] = pages[1] /\ live \subseteq live'
      BY <2>1, <3>1
    <3> QED  BY <1>1, <3>1, <3>2, Zenon DEF Accounted
  <2> QED  BY <2>5, <2>6
<1>5. ASSUME NEW b \in live, NEW i \in DOMAIN pages[b.page].segs, Found(b, i) PROVE Goal
  <2> DEFINE p == b.page
             segs == pages[p].segs
             new == FreeSegs(segs, i)
  <2>1. /\ p \in DOMAIN pages /\ SegsOK(segs, pages[p].size) /\ i \in 1 .. Len(segs)
        /\ segs[i].addr = b.addr
        /\ DOMAIN pages' = DOMAIN pages
        /\ pages'[p] = free_segment(pages[p], i)
        /\ live' = live \ {b}
    BY <1>5, FoundEffect
  <2>2. p = 1
    BY <1>5 DEF Found, Searched
  <2>3. pages'[1].segs = new
    BY <2>1, <2>2 DEF free_segment
  <2>4. Accounted(pages[1], 1, live)
    BY <1>1, <2>1, <2>2
  <2>5. \A j \in 1 .. Len(segs) :
          ~segs[j].free => \E c \in live : c.page = 1 /\ c.addr = segs[j].addr
    BY <2>2, <2>4, ZenonT(30) DEF Accounted
  <2> HIDE DEF p, segs
  <2>6. ASSUME NEW k \in 1 .. Len(new), ~new[k].free
        PROVE  \E c \in live' : c.page = 1 /\ c.addr = new[k].addr
    <3>1. PICK j \in 1 .. Len(segs) : j # i /\ new[k] = segs[j]
      BY <2>1, <2>6, FreeUsed
    <3> HIDE DEF new
    <3>2. PICK c \in live : c.page = 1 /\ c.addr = segs[j].addr
      BY <2>5, <2>6, <3>1
    <3>3. segs[j].addr # segs[i].addr
      BY <2>1, <3>1, AddrDistinct
    <3>4. c # b
      BY <2>1, <3>2, <3>3
    <3> QED  BY <2>1, <3>1, <3>2, <3>4
  <2> HIDE DEF new
  <2> QED  BY <2>3, <2>6, ZenonT(30) DEF Accounted
<1>6. ASSUME NEW b \in live, NotFound(b) PROVE Goal
  <2>1. pages' = pages /\ live' = live \ {b}
    BY <1>6 DEF NotFound
  <2>2. b.page # 1
    BY <1>6, NotFoundElsewhere
  <2>3. \A c \in live : c.page = 1 => c \in live'
    BY <2>1, <2>2
  <2> QED  BY <1>1, <2>1, <2>3, Zenon DEF Accounted
<1>7. ASSUME pages' = pages, live' = live PROVE Goal
  BY <1>1, <1>7, Zenon
<1>8. ASSUME NEW size \in Sizes, OutOfFrames(size) PROVE Goal
  BY <1>7, <1>8 DEF OutOfFrames
<1>9. ASSUME UNCHANGED vars PROVE Goal
  BY <1>7, <1>9 DEF vars
<1> HIDE DEF Goal
<1>10. Goal
  BY <1>3, <1>4, <1>5, <1>6, <1>8, <1>9 DEF Next, kmalloc, kfree
<1> QED  BY <1>2, <1>10

\* For all sizes and any sequence of calls: free_size is, modulo 2^32, the
\* free bytes of its page and one header for each split the page has seen.
THEOREM DriftCorrect == Spec => []FreeSizeDrift
<1>1. Init => FreeSizeDrift
  BY DEF Init, FreeSizeDrift
<1> QED  BY <1>1, HeapInvariant, DriftStep, PTL DEF Spec

\* kfree never loses a segment of the first page: there, what is marked as
\* allocated is held by a caller.
THEOREM NoLeakCorrect == Spec => []FirstPageNoLeak
<1>1. Init => FirstPageNoLeak
  BY DEF Init, FirstPageNoLeak
<1> QED  BY <1>1, HeapInvariant, NoLeakStep, PTL DEF Spec
-----------------------------------------------------------------------------
\* kmalloc calls itself once at most: when nothing fits and create_heap_page has appended
\* its page, the search that the recursive call repeats over the old pages again finds
\* nothing there and stops at the new page's segment. Grow is this second search.
THEOREM RetryFindsNewPage ==
  ASSUME NEW size \in Sizes, pages \in Seq(PageType),
         NoFit(size), pages' = Append(pages, NewPage(size))
  PROVE  FirstFit(Len(pages), 1, size)'
<1> DEFINE n == Len(pages)
           page == NewPage(size)
<1>1. /\ page \in PageType /\ 1 \in 1 .. Len(page.segs)
      /\ page.segs[1].free /\ page.segs[1].size >= size
  BY NewPageDrift
<1>2. /\ n \in Nat /\ DOMAIN pages = 1 .. n /\ pages'[n + 1] = page
      /\ \A q \in 1 .. n : pages'[q] = pages[q]
  BY <1>1
<1>3. Len(pages') = n + 1 /\ n + 1 - 1 = n
  BY <1>1, <1>2
<1>4. Fits(Len(pages), 1, size)'
  BY <1>1, <1>2, <1>3 DEF Fits
<1>5. \A q \in 1 .. n : \A j \in DOMAIN pages'[q].segs : ~Fits(q, j, size)'
  BY <1>2 DEF NoFit, Fits
<1>6. 1 .. (1 - 1) = {}
  OBVIOUS
<1> QED  BY <1>2, <1>3, <1>4, <1>5, <1>6 DEF FirstFit
=============================================================================
