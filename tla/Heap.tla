-------------------------------- MODULE Heap --------------------------------
(***************************************************************************)
(* The kernel heap: kmalloc and kfree of src/src/kernel/mem/heap/heap.cc.  *)
(*                                                                         *)
(* The list of heap pages is a sequence, and so is the list of segments of *)
(* a page; an address is a page and an offset in it.  Calls are not        *)
(* preempted, so each is one step.  The frames under the pages come from   *)
(* Mem::Frame::allocs, of which only "a run of its own, or nullptr" is     *)
(* used here: what the module says of a page holds while no other page     *)
(* overlaps it.                                                            *)
(***************************************************************************)
EXTENDS Integers, Sequences

CONSTANTS
  PageHdr,    \* sizeof(heap_page_t)
  SegHdr,     \* sizeof(heap_segment_t)
  FrameSize,  \* FRAME_SIZE
  U32,        \* 2^32: free_size is a u32
  Sizes,      \* the sizes callers ask for
  MaxFrames   \* bound: frames the frame allocator has for the heap

ASSUME HeapAssumption ==
  /\ PageHdr \in Nat \ {0} /\ SegHdr \in Nat \ {0}
  /\ FrameSize \in Nat /\ FrameSize > PageHdr + SegHdr
  /\ U32 \in Nat /\ U32 > FrameSize
  /\ Sizes \subseteq Nat
  /\ \A n \in Sizes : n + PageHdr + SegHdr < U32
  /\ MaxFrames \in Nat

VARIABLES
  pages,   \* the heap: [size, free_size, segs], the list from heap on
  frames,  \* frames taken so far
  halted,  \* the CPU stopped in create_heap_page
  live,    \* history: blocks callers hold, [page, addr, size]
  splits   \* history: per page, segments split so far (modulo U32)

vars == <<pages, frames, halted, live, splits>>

Segment(a, n, f) == [addr |-> a, size |-> n, free |-> f]

-----------------------------------------------------------------------------
\* create_heap_page: bytes used, and frames asked for.
AllocSize(size) ==
  IF size + PageHdr + SegHdr <= FrameSize THEN FrameSize
                                          ELSE PageHdr + SegHdr + size

ROUND_UP(x, y) == (x + (y - 1)) \div y

NumPages(size) == ROUND_UP(AllocSize(size), FrameSize)

\* create_heap_page and page_segments_init.
NewPage(size) ==
  LET free_size == (AllocSize(size) - PageHdr - SegHdr) % U32
  IN  [size |-> AllocSize(size),
       free_size |-> free_size,
       segs |-> <<Segment(PageHdr + SegHdr, free_size, TRUE)>>]

\* The list after alloc_segment split its i-th segment.
SplitSegs(segs, i, size) ==
  [k \in 1 .. Len(segs) + 1 |->
     IF k < i THEN segs[k]
     ELSE IF k = i THEN Segment(segs[i].addr, size, FALSE)
     ELSE IF k = i + 1 THEN Segment(segs[i].addr + size + SegHdr,
                                    segs[i].size - size - SegHdr, TRUE)
     ELSE segs[k - 1]]

MarkSegs(segs, i, f) ==
  [segs EXCEPT ![i] = Segment(segs[i].addr, segs[i].size, f)]

Splits(seg, size) == seg.size > size + SegHdr

AllocSegs(segs, i, size) ==
  IF Splits(segs[i], size) THEN SplitSegs(segs, i, size)
                           ELSE MarkSegs(segs, i, FALSE)

alloc_segment(page, i, size) ==
  LET segs == AllocSegs(page.segs, i, size)
  IN  [size |-> page.size,
       free_size |-> (page.free_size - segs[i].size) % U32,
       segs |-> segs]

\* Mutant: the header of the merged segment is lost.
MergeSegsNoHeader(segs, i) ==
  [k \in 1 .. Len(segs) - 1 |->
     IF k < i THEN segs[k]
     ELSE IF k = i THEN Segment(segs[i].addr,
                                segs[i].size + segs[i + 1].size, TRUE)
     ELSE segs[k + 1]]

\* The list after try_segment_merge joined its i-th segment and the next.
MergeSegs(segs, i) ==
  [k \in 1 .. Len(segs) - 1 |->
     IF k < i THEN segs[k]
     ELSE IF k = i THEN Segment(segs[i].addr,
                                segs[i].size + segs[i + 1].size + SegHdr, TRUE)
     ELSE segs[k + 1]]

\* Mutant: the next segment is merged even when it is in use.
MergesAlways(segs, i) == i < Len(segs)

Merges(segs, i) == i < Len(segs) /\ segs[i + 1].free

\* Mutant: only a segment that can be merged is marked as free.
FreeSegsIfMerged(segs, i) == IF Merges(segs, i) THEN MergeSegs(segs, i) ELSE segs

FreeSegs(segs, i) ==
  IF Merges(segs, i) THEN MergeSegs(segs, i) ELSE MarkSegs(segs, i, TRUE)

\* Mutant: try_segment_merge does not give the header back.
FreeSegmentNoHeader(page, i) ==
  [size |-> page.size,
   free_size |-> (page.free_size + page.segs[i].size) % U32,
   segs |-> FreeSegs(page.segs, i)]

\* kfree's body for a segment that is found, try_segment_merge included.
free_segment(page, i) ==
  [size |-> page.size,
   free_size |-> (page.free_size + page.segs[i].size
                    + IF Merges(page.segs, i) THEN SegHdr ELSE 0) % U32,
   segs |-> FreeSegs(page.segs, i)]

-----------------------------------------------------------------------------
Init ==
  /\ pages = <<>>
  /\ frames = 0
  /\ halted = FALSE
  /\ live = {}
  /\ splits = <<>>

\* Mutant: the free flag is not looked at.
FitsInUse(p, i, size) == pages[p].segs[i].size >= size

Fits(p, i, size) == pages[p].segs[i].free /\ pages[p].segs[i].size >= size

\* kmalloc's two loops stop at segment i of page p.
FirstFit(p, i, size) ==
  /\ Fits(p, i, size)
  /\ \A j \in 1 .. i - 1 : ~Fits(p, j, size)
  /\ \A q \in 1 .. p - 1 : \A j \in DOMAIN pages[q].segs : ~Fits(q, j, size)

NoFit(size) ==
  \A p \in DOMAIN pages : \A i \in DOMAIN pages[p].segs : ~Fits(p, i, size)

Block(p, a, size) == [page |-> p, addr |-> a, size |-> size]

Drift(seg, size) == IF Splits(seg, size) THEN 1 ELSE 0

TakeSegment(p, i, size) ==
  /\ ~halted
  /\ FirstFit(p, i, size)
  /\ pages' = [pages EXCEPT ![p] = alloc_segment(@, i, size)]
  /\ live' = live \cup {Block(p, pages[p].segs[i].addr, size)}
  /\ splits' = [splits EXCEPT ![p] = (@ + Drift(pages[p].segs[i], size)) % U32]
  /\ UNCHANGED <<frames, halted>>

\* Nothing fits: a page is appended (or is the first), and the recursive
\* kmalloc, for which nothing in the old pages fits, takes its segment.  The
\* run is taken to lie apart from the other pages, see KernelMemory for when
\* allocs hands out such a run.
Grow(size) ==
  LET page == NewPage(size) IN
  /\ ~halted
  /\ NoFit(size)
  /\ frames + NumPages(size) <= MaxFrames
  /\ frames' = frames + NumPages(size)
  /\ pages' = Append(pages, alloc_segment(page, 1, size))
  /\ live' = live \cup {Block(Len(pages) + 1, page.segs[1].addr, size)}
  /\ splits' = Append(splits, Drift(page.segs[1], size))
  /\ UNCHANGED halted

\* allocs returned nullptr: create_heap_page logs and executes hlt; past the
\* hlt it would write through the null page.
OutOfFrames(size) ==
  /\ ~halted
  /\ NoFit(size)
  /\ frames + NumPages(size) > MaxFrames
  /\ halted' = TRUE
  /\ UNCHANGED <<pages, frames, live, splits>>

kmalloc(size) ==
  \/ \E p \in DOMAIN pages : \E i \in DOMAIN pages[p].segs : TakeSegment(p, i, size)
  \/ Grow(size)
  \/ OutOfFrames(size)

\* The pages whose segments kfree's loops visit: segment is not set again
\* when page advances, so after the first page it is nullptr.
Searched(p) == p = 1

\* kfree of a block that its caller holds.
Found(b, i) ==
  /\ ~halted
  /\ Searched(b.page)
  /\ pages[b.page].segs[i].addr = b.addr
  /\ pages' = [pages EXCEPT ![b.page] = free_segment(@, i)]
  /\ live' = live \ {b}
  /\ UNCHANGED <<frames, halted, splits>>

\* kfree returns false; the caller has let go of the block all the same.
NotFound(b) ==
  /\ ~halted
  /\ \/ ~Searched(b.page)
     \/ \A i \in DOMAIN pages[b.page].segs : pages[b.page].segs[i].addr # b.addr
  /\ live' = live \ {b}
  /\ UNCHANGED <<pages, frames, halted, splits>>

kfree(b) == (\E i \in DOMAIN pages[b.page].segs : Found(b, i)) \/ NotFound(b)

Next ==
  \/ \E size \in Sizes : kmalloc(size)
  \/ \E b \in live : kfree(b)

Spec == Init /\ [][Next]_vars

-----------------------------------------------------------------------------
Segments == [addr : Nat, size : Nat, free : BOOLEAN]

\* The state is well formed; no segment ever gets a size below zero (in the
\* code: a size that wraps around to nearly 2^64).
TypeOK ==
  /\ pages \in Seq([size : Nat, free_size : Nat, segs : Seq(Segments)])
  /\ frames \in Nat
  /\ halted \in BOOLEAN
  /\ live \subseteq [page : DOMAIN pages, addr : Nat, size : Nat]
  /\ splits \in Seq(Nat) /\ Len(splits) = Len(pages)

Tiled(page) ==
  LET segs == page.segs
      n == Len(page.segs)
  IN  /\ n > 0
      /\ segs[1].addr = PageHdr + SegHdr
      /\ \A i \in 1 .. n - 1 :
           segs[i + 1].addr = segs[i].addr + segs[i].size + SegHdr
      /\ segs[n].addr + segs[n].size = page.size

\* The segments of a page, each with its header, fill it from end to end
\* without gap or overlap, after any sequence of splits and merges: a merge
\* or a split never writes a header into another segment.
PagesTiled == \A p \in DOMAIN pages : Tiled(pages[p])

\* Every block a caller holds is a segment marked as allocated that is large
\* enough for it and at most one header larger.
LiveBacked ==
  \A b \in live : \E i \in DOMAIN pages[b.page].segs :
    LET seg == pages[b.page].segs[i]
    IN  seg.addr = b.addr /\ ~seg.free
        /\ seg.size >= b.size /\ seg.size <= b.size + SegHdr

\* Blocks of one page held at the same time do not overlap, nor does one reach
\* into the header of another, and all end within their page.  Of two pages
\* nothing is said: allocs may put them over one another (HandedOutWasFree in
\* Frames); pages of one frame stay apart (SinglePagesPrivate in KernelMemory).
LiveDisjoint ==
  \A b, c \in live :
    /\ b.addr + b.size <= pages[b.page].size
    /\ b # c /\ b.page = c.page
         => \/ b.addr + b.size + SegHdr <= c.addr
            \/ c.addr + c.size + SegHdr <= b.addr

\* kfree loses nothing of the first page: what is marked allocated there is
\* held by a caller.  (In the other pages nothing is ever found to be freed.)
FirstPageNoLeak ==
  pages # <<>> =>
    \A i \in DOMAIN pages[1].segs :
      ~pages[1].segs[i].free
        => \E b \in live : b.page = 1 /\ b.addr = pages[1].segs[i].addr

FreePart(seg) == IF seg.free THEN seg.size ELSE 0

\* The free bytes of the first k segments.
FreeBytes(segs) ==
  LET sum[k \in 0 .. Len(segs)] == IF k = 0 THEN 0 ELSE sum[k - 1] + FreePart(segs[k])
  IN  sum

\* free_size counts the free bytes of a page plus one header for every split
\* it has ever seen: alloc_segment does not charge the fragment's header, which
\* try_segment_merge credits all the same, so a merge leaves the drift as it is.
FreeSizeDrift ==
  \A p \in DOMAIN pages :
    pages[p].free_size =
      (FreeBytes(pages[p].segs)[Len(pages[p].segs)] + SegHdr * splits[p]) % U32
=============================================================================
