------------------------- MODULE KernelMemoryProofs -------------------------
(***************************************************************************)
(* Proofs about the memory the kernel starts with.  Of the frame allocator *)
(* and its callers, for every number of frames, every length of the zeroed *)
(* part of the flag array and every set of counts: what the allocator      *)
(* keeps, and that page tables and interrupt stacks are never handed to    *)
(* anybody else.  Of the memory map, of any length, with regions of any    *)
(* types and lengths: sort_memmap loses no region and settles the places   *)
(* it has passed, and the two regions the allocator takes stay reachable   *)
(* when the new page tables are loaded.                                    *)
(***************************************************************************)
EXTENDS KernelMemory, BootMemory, SequenceTheorems, WellFoundedInduction, TLAPS

\* The provers of the leaves that name none.
USE SMTT(30), ZenonT(30)

\* The frame numbers of a region of at most 4 GiB survive the 32-bit address
\* arithmetic of alloc, allocs and free.
LEMMA AddressExact ==
  ASSUME Available <= Wrap, NEW f \in Frame
  PROVE  FrameAddr(f) = f /\ FrameNumber(f) = f
<1>1. Wrap \in Nat /\ f \in Nat /\ f < Wrap /\ Wrap > 0
  BY FramesAssumption DEF Frame
<1> QED  BY <1>1 DEF FrameAddr, FrameNumber

\* Frame::init zeroes the first nframes flags; the others are some Boolean.
LEMMA InitFlags ==
  ASSUME Init
  PROVE  /\ frames \in [Frame -> BOOLEAN]
         /\ \A f \in Frame : f < Cleared => ~frames[f]
<1>1. PICK junk \in [{f \in Frame : f >= Cleared} -> BOOLEAN] :
        frames = [f \in Frame |-> IF f < Cleared THEN FALSE ELSE junk[f]]
  BY Zenon DEF Init
<1>2. ASSUME NEW f \in Frame, ~(f < Cleared) PROVE junk[f] \in BOOLEAN
  <2>1. f \in Int /\ Cleared \in Int
    BY FramesAssumption DEF Frame
  <2> QED  BY <1>2, <2>1
<1> QED  BY <1>1, <1>2, Zenon

\* Frame::init, alloc, allocs and free keep every variable in its range; in
\* particular latest_frame never leaves 0..available_frames.
THEOREM TypeCorrect ==
  ASSUME Available <= Wrap
  PROVE  Spec => []TypeOK
<1>1. Init => TypeOK
  <2> SUFFICES ASSUME Init PROVE TypeOK
    OBVIOUS
  <2>1. frames \in [Frame -> BOOLEAN]
    BY InitFlags
  <2>2. /\ latest_frame = 0 /\ holders = [f \in Frame |-> 0] /\ heads = {}
        /\ ret = [op |-> "init", frame |-> NULL, len |-> 0]
    BY DEF Init
  <2> QED  BY <2>1, <2>2, FramesAssumption DEF TypeOK
<1>2. TypeOK /\ [Next]_vars => TypeOK'
  <2> SUFFICES ASSUME TypeOK, [Next]_vars PROVE TypeOK'
    OBVIOUS
  <2> USE FramesAssumption
  <2>1. CASE AllocNull
    BY <2>1 DEF TypeOK, AllocNull, NULL
  <2>2. ASSUME NEW f \in latest_frame .. Available - 1, AllocFrame(f)
        PROVE  TypeOK'
    <3>1. f \in Frame /\ FrameAddr(f) = f /\ f + 1 \in 0 .. Available
      BY AddressExact DEF TypeOK, Frame
    <3>2. holders' \in [Frame -> Nat]
      BY <2>2 DEF TypeOK, AllocFrame, Hand
    <3>3. frames' \in [Frame -> BOOLEAN]
      BY <2>2, Zenon DEF TypeOK, AllocFrame
    <3> QED  BY <2>2, <3>1, <3>2, <3>3 DEF TypeOK, AllocFrame
  <2>3. ASSUME NEW n \in RunLengths, AllocsNull(n)
        PROVE  TypeOK'
    BY <2>3 DEF TypeOK, AllocsNull, NULL
  <2>4. ASSUME NEW n \in RunLengths,
               NEW s \in latest_frame .. Available - 1, AllocsRun(s, n)
        PROVE  TypeOK'
    <3>1. s \in Frame /\ FrameAddr(s) = s
      BY AddressExact DEF TypeOK, Frame
    <3>2. holders' \in [Frame -> Nat]
      BY <2>4 DEF TypeOK, AllocsRun, Hand
    <3>3. frames' \in [Frame -> BOOLEAN]
      BY <2>4 DEF TypeOK, AllocsRun
    <3>4. latest_frame' \in 0 .. Available
      BY <2>4 DEF TypeOK, AllocsRun, AfterAllocs
    <3> QED  BY <2>4, <3>1, <3>2, <3>3, <3>4 DEF TypeOK, AllocsRun
  <2>5. ASSUME NEW p \in Frame, free(p) PROVE TypeOK'
    BY <2>5, AddressExact DEF TypeOK, free, Frame
  <2>6. CASE UNCHANGED vars
    BY <2>6 DEF TypeOK, vars
  <2> QED
    BY <2>1, <2>2, <2>3, <2>4, <2>5, <2>6 DEF Next, Allocate, alloc, allocs
<1> QED  BY <1>1, <1>2, PTL DEF Spec

-----------------------------------------------------------------------------
\* Neither invariant is inductive alone: a run's tail takes unmarked frames,
\* and they have no holder (or were a run's first frame) only by HeldIsMarked;
\* free of a frame with two holders keeps HeldIsMarked only because such a
\* frame is in heads.
Sharing == SharedOnlyAtRunStart /\ HeldIsMarked

\* A frame with two holders at once is the first frame of a run of allocs, and
\* every held frame outside those is marked: for every mix of calls of alloc,
\* allocs and free.
THEOREM SharingCorrect ==
  ASSUME Available <= Wrap
  PROVE  Spec => []SharedOnlyAtRunStart /\ []HeldIsMarked
<1>1. Init => Sharing
  BY DEF Init, Sharing, SharedOnlyAtRunStart, HeldIsMarked
<1>2. TypeOK /\ Sharing /\ [Next]_vars => Sharing'
  <2> SUFFICES ASSUME TypeOK, Sharing, [Next]_vars PROVE Sharing'
    OBVIOUS
  <2> USE FramesAssumption
  <2>1. CASE AllocNull
    BY <2>1 DEF Sharing, SharedOnlyAtRunStart, HeldIsMarked, AllocNull
  <2>2. ASSUME NEW f \in latest_frame .. Available - 1, AllocFrame(f)
        PROVE  Sharing'
    <3>1. f \in Frame /\ FrameAddr(f) = f /\ ~frames[f]
      BY <2>2, AddressExact DEF TypeOK, Frame, AllocFrame, SearchStopsAt
    <3>2. \A g \in Frame : holders'[g] = IF g = f THEN holders[g] + 1 ELSE holders[g]
      BY <2>2, <3>1 DEF AllocFrame, Hand, Frame
    <3>3. \A g \in Frame : frames[g] \/ g = f => frames'[g]
      BY <2>2, <3>1 DEF AllocFrame, TypeOK
    <3>4. heads' = heads
      BY <2>2 DEF AllocFrame
    <3>5. \A g \in Frame : holders[g] \in Nat
      BY DEF TypeOK
    <3> QED
      BY <3>1, <3>2, <3>3, <3>4, <3>5
      DEF Sharing, SharedOnlyAtRunStart, HeldIsMarked
  <2>3. ASSUME NEW n \in RunLengths, AllocsNull(n)
        PROVE  Sharing'
    BY <2>3 DEF Sharing, SharedOnlyAtRunStart, HeldIsMarked, AllocsNull
  <2>4. ASSUME NEW n \in RunLengths,
               NEW s \in latest_frame .. Available - 1, AllocsRun(s, n)
        PROVE  Sharing'
    <3>1. s \in Frame /\ FrameAddr(s) = s /\ n \in Nat /\ s \in Int
      BY AddressExact DEF TypeOK, Frame
    <3>2. \A g \in Frame : g \in s .. s + n - 1 => g = s \/ ~frames[g]
      BY <2>4, <3>1 DEF AllocsRun, ScanStopsAt, RunAt, Frame
    <3>3. \A g \in Frame : holders'[g] = IF g \in s .. s + n - 1
                                           THEN holders[g] + 1 ELSE holders[g]
      BY <2>4, <3>1 DEF AllocsRun, Hand
    <3>4. \A g \in Frame : frames[g] \/ g \in s .. s + n - 1 => frames'[g]
      BY <2>4, Zenon DEF AllocsRun
    <3>5. heads' = heads \cup {s}
      BY <2>4, <3>1 DEF AllocsRun
    <3>6. \A g \in Frame : holders[g] \in Nat
      BY DEF TypeOK
    <3> QED
      BY <3>2, <3>3, <3>4, <3>5, <3>6
      DEF Sharing, SharedOnlyAtRunStart, HeldIsMarked
  <2>5. ASSUME NEW p \in Frame, free(p) PROVE Sharing'
    <3>1. /\ frames' = [frames EXCEPT ![p] = FALSE]
          /\ holders' = [holders EXCEPT ![p] = @ - 1]
          /\ heads' = heads
      BY <2>5, AddressExact, Zenon DEF free
    <3> QED
      BY <3>1 DEF TypeOK, Sharing, SharedOnlyAtRunStart, HeldIsMarked
  <2>6. CASE UNCHANGED vars
    BY <2>6 DEF Sharing, SharedOnlyAtRunStart, HeldIsMarked, vars
  <2> QED
    BY <2>1, <2>2, <2>3, <2>4, <2>5, <2>6 DEF Next, Allocate, alloc, allocs
<1> QED  BY <1>1, <1>2, TypeCorrect, PTL DEF Spec, Sharing
-----------------------------------------------------------------------------
\* A set of natural numbers that is not empty has a least element.
LEMMA LeastNumber ==
  ASSUME NEW T, T \subseteq Nat, T # {}
  PROVE  \E m \in T : \A k \in T : m <= k
<1> DEFINE R == OpToRel(<, Nat)
<1>1. IsWellFoundedOn(R, Nat)
  BY NatLessThanWellFounded, Zenon
<1>2. \A x, y \in Nat : y < x => <<y, x>> \in R
  BY DEF OpToRel
<1> HIDE DEF R
<1>3. PICK m \in T : \A k \in T : ~(<<k, m>> \in R)
  BY <1>1, WFMin, Zenon
<1>4. \A k \in T : k \in Nat /\ m \in Nat
  OBVIOUS
<1>5. \A k \in T : ~(k < m)
  BY <1>2, <1>3, <1>4, Zenon
<1>6. \A k \in T : m <= k
  BY <1>4, <1>5
<1> QED  BY <1>6

\* If frames s .. s+n-1 are free, the loop of allocs(n) has a run at the last
\* used frame before them, or at latest_frame if there is none.
LEMMA RunBeforeRoom ==
  ASSUME TypeOK, NEW n \in Nat \ {0}, NEW s \in latest_frame .. Available - n,
         \A f \in s .. s + n - 1 : ~frames[f]
  PROVE  \E r \in latest_frame .. s : RunAt(r, n)
<1>1. latest_frame \in Nat /\ s \in Nat /\ s + n <= Available /\ Available \in Nat
  BY FramesAssumption DEF TypeOK
<1> DEFINE Back == {d \in 0 .. s - latest_frame : frames[s - d] \/ s - d = latest_frame}
<1>2. s - latest_frame \in Back
  BY <1>1
<1>3. Back \subseteq Nat
  BY <1>1
<1> HIDE DEF Back
<1>4. PICK d \in Back : \A e \in Back : d <= e
  BY <1>2, <1>3, LeastNumber, Zenon
<1>5. d \in 0 .. s - latest_frame /\ (frames[s - d] \/ s - d = latest_frame)
  BY <1>4 DEF Back
<1>6. \A f \in s - d + 1 .. s - 1 : ~frames[f]
  <2> SUFFICES ASSUME NEW f \in s - d + 1 .. s - 1, frames[f] PROVE FALSE
    OBVIOUS
  <2>1. s - f \in 0 .. s - latest_frame /\ s - (s - f) = f /\ ~(d <= s - f)
    BY <1>1, <1>5
  <2>2. s - f \in Back
    BY <2>1 DEF Back
  <2> QED  BY <1>4, <2>1, <2>2
<1>7. \A f \in s - d + 1 .. s - d + n - 1 : ~frames[f]
  <2> SUFFICES ASSUME NEW f \in s - d + 1 .. s - d + n - 1 PROVE ~frames[f]
    OBVIOUS
  <2>1. f \in s - d + 1 .. s - 1 \/ f \in s .. s + n - 1
    BY <1>1, <1>5
  <2> QED  BY <1>6, <2>1
<1>8. s - d \in latest_frame .. s /\ s - d + n <= Available
  BY <1>1, <1>5
<1> QED  BY <1>5, <1>7, <1>8 DEF RunAt

\* allocs(n) never returns nullptr while n adjacent frames at or behind
\* latest_frame are free, whatever calls of alloc, allocs and free came before.
THEOREM RoomCorrect ==
  ASSUME Available <= Wrap
  PROVE  Spec => []RoomMeansFound
<1>1. TypeOK => RoomMeansFound
  <2> SUFFICES ASSUME TypeOK, NEW n \in RunLengths,
                      NEW s \in latest_frame .. Available - n,
                      \A f \in s .. s + n - 1 : ~frames[f]
               PROVE  \E r \in latest_frame .. Available - 1 : ScanStopsAt(r, n)
    BY DEF RoomMeansFound
  <2>1. n \in Nat \ {0} /\ latest_frame \in Nat /\ Available \in Nat
    BY FramesAssumption DEF TypeOK
  <2> DEFINE Runs == {r \in latest_frame .. s : RunAt(r, n)}
  <2>2. Runs \subseteq Nat /\ Runs # {}
    BY <2>1, RunBeforeRoom
  <2>3. PICK r \in Runs : \A q \in Runs : r <= q
    BY <2>2, LeastNumber, Zenon
  <2>4. r \in latest_frame .. Available - 1 /\ RunAt(r, n)
    BY <2>1
  <2>5. \A q \in latest_frame .. r - 1 : ~RunAt(q, n)
    <3> SUFFICES ASSUME NEW q \in latest_frame .. r - 1, RunAt(q, n) PROVE FALSE
      OBVIOUS
    <3>1. q \in Runs /\ ~(r <= q)
      BY <2>1
    <3> QED  BY <2>3, <3>1
  <2> QED  BY <2>4, <2>5 DEF ScanStopsAt
<1> QED  BY <1>1, TypeCorrect, PTL

-----------------------------------------------------------------------------
\* What makes NullMeansFull inductive when nothing is freed: the used frames
\* are the first ones, and all frames below latest_frame are among them.
UsedPrefix ==
  /\ \A f \in Frame : f < latest_frame => frames[f]
  /\ \A f, g \in Frame : f < g /\ frames[g] => frames[f]

\* Without free, and with a flag array that init zeroes completely, the calls
\* of alloc and allocs keep the used frames at the beginning of memory.
THEOREM PrefixCorrect ==
  ASSUME Available <= Wrap, Available <= Cleared
  PROVE  BootSpec => []UsedPrefix /\ []NullMeansFull
<1> DEFINE I == UsedPrefix /\ NullMeansFull
<1>1. Init => I
  <2> SUFFICES ASSUME Init PROVE I
    OBVIOUS
  <2>1. \A f \in Frame : f < Cleared => ~frames[f]
    BY InitFlags
  <2>2. latest_frame = 0 /\ ret.op = "init"
    BY DEF Init
  <2> QED  BY <2>1, <2>2, FramesAssumption DEF UsedPrefix, NullMeansFull, Frame
<1>2. TypeOK /\ I /\ [Allocate]_vars => I'
  <2> SUFFICES ASSUME TypeOK, I, [Allocate]_vars PROVE I'
    OBVIOUS
  <2> USE FramesAssumption
  <2>1. CASE AllocNull
    <3>1. \A f \in Frame : frames[f]
      BY <2>1 DEF AllocNull, SearchStopsAt, UsedPrefix, Frame, TypeOK
    <3> QED  BY <2>1, <3>1 DEF AllocNull, UsedPrefix, NullMeansFull
  <2>2. ASSUME NEW f \in latest_frame .. Available - 1, AllocFrame(f)
        PROVE  I'
    <3>1. f \in Frame /\ FrameAddr(f) = f /\ f # NULL
      BY AddressExact DEF TypeOK, Frame, NULL
    <3>2. \A g \in Frame : g < f => frames[g]
      BY <2>2 DEF AllocFrame, SearchStopsAt, UsedPrefix, TypeOK, Frame
    <3>3. latest_frame' = f + 1 /\ ret'.frame = f
      BY <2>2, <3>1 DEF AllocFrame
    <3>4. /\ \A g \in Frame : frames[g] \/ g = f => frames'[g]
          /\ \A g \in Frame : frames'[g] => frames[g] \/ g = f
      BY <2>2, <3>1 DEF AllocFrame, TypeOK
    <3>5. UsedPrefix'
      BY <3>1, <3>2, <3>3, <3>4 DEF UsedPrefix, Frame
    <3> QED  BY <3>1, <3>3, <3>5 DEF NullMeansFull
  <2>3. ASSUME NEW n \in RunLengths, AllocsNull(n)
        PROVE  I'
    BY <2>3 DEF AllocsNull, UsedPrefix, NullMeansFull
  <2>4. ASSUME NEW n \in RunLengths,
               NEW s \in latest_frame .. Available - 1, AllocsRun(s, n)
        PROVE  I'
    <3>1. s \in Frame /\ n \in Nat \ {0} /\ latest_frame \in Nat
      BY DEF TypeOK, Frame
    <3>2. \A g \in Frame : g < s => frames[g]
      BY <2>4, <3>1 DEF AllocsRun, ScanStopsAt, RunAt, UsedPrefix, Frame
    <3>3. latest_frame' = latest_frame + 1 /\ ret'.op = "allocs"
      BY <2>4 DEF AllocsRun, AfterAllocs
    <3>4. /\ \A g \in Frame : frames[g] \/ g \in s .. s + n - 1 => frames'[g]
          /\ \A g \in Frame : frames'[g] => frames[g] \/ g \in s .. s + n - 1
      BY <2>4, Zenon DEF AllocsRun
    <3>5. UsedPrefix'
      BY <3>1, <3>2, <3>3, <3>4 DEF UsedPrefix, Frame
    <3> QED  BY <3>3, <3>5 DEF NullMeansFull
  <2>5. CASE UNCHANGED vars
    BY <2>5 DEF vars, UsedPrefix, NullMeansFull
  <2> QED  BY <2>1, <2>2, <2>3, <2>4, <2>5 DEF Allocate, alloc, allocs
<1>3. BootSpec => Spec
  BY PTL DEF BootSpec, Spec, Next
<1> QED  BY <1>1, <1>2, <1>3, TypeCorrect, PTL DEF BootSpec

\* In the kernel as it is built (no call of Frame::free), with a flag array
\* that init zeroes completely, alloc reports exhaustion only when every frame
\* is used.
THEOREM NullCorrect ==
  ASSUME Available <= Wrap, Available <= Cleared
  PROVE  BootSpec => []NullMeansFull
BY PrefixCorrect, PTL

-----------------------------------------------------------------------------
(* The callers. *)

\* What a call of allocs(n) does, seen by its caller: nothing and NULL, or a
\* run at or after the search index of which all but the first was free.
AllocsResult(n) ==
  \/ ret'.frame = NULL /\ UNCHANGED <<frames, latest_frame, holders>>
  \/ /\ ret'.frame \in Frame /\ ret'.frame >= latest_frame
     /\ ret'.frame + n <= Available
     /\ \A f \in Frame : f \in Run(ret'.frame, n) /\ f # ret'.frame => ~frames[f]
     /\ n = 1 => ret'.frame = latest_frame
     /\ latest_frame' = latest_frame + 1
     /\ \A f \in Frame : frames'[f] <=> frames[f] \/ f \in Run(ret'.frame, n)
     /\ \A f \in Frame : holders'[f] = IF f \in Run(ret'.frame, n)
                                         THEN holders[f] + 1 ELSE holders[f]

\* allocs, as its callers see it.
LEMMA AllocsFacts ==
  ASSUME Available <= Wrap, TypeOK, NEW n \in RunLengths, allocs(n)
  PROVE  AllocsResult(n)
<1> USE FramesAssumption
<1>1. CASE AllocsNull(n)
  BY <1>1 DEF AllocsNull, AllocsResult
<1>2. ASSUME NEW s \in latest_frame .. Available - 1, AllocsRun(s, n)
      PROVE  AllocsResult(n)
  <2>1. /\ s \in Frame /\ FrameAddr(s) = s /\ s \in Nat /\ n \in Nat /\ n > 0
        /\ latest_frame \in Nat /\ s >= latest_frame /\ Available \in Nat
    BY AddressExact DEF TypeOK, Frame
  <2>2. ret'.frame = s /\ latest_frame' = latest_frame + 1
    BY <1>2, <2>1 DEF AllocsRun, AfterAllocs
  <2>3. /\ s + n <= Available
        /\ \A f \in s + 1 .. s + n - 1 : ~frames[f]
    BY <1>2 DEF AllocsRun, ScanStopsAt, RunAt
  <2>4. n = 1 => s = latest_frame
    <3> SUFFICES ASSUME n = 1, s # latest_frame PROVE FALSE
      OBVIOUS
    <3>1. latest_frame \in latest_frame .. s - 1
      BY <2>1
    <3>2. ~RunAt(latest_frame, n)
      BY <1>2, <3>1 DEF AllocsRun, ScanStopsAt
    <3> QED  BY <2>1, <2>3, <3>2 DEF RunAt
  <2>5. \A f \in Frame : f \in Run(s, n) /\ f # s => ~frames[f]
    BY <2>1, <2>3 DEF Run, Frame
  <2>6. \A f \in Frame : frames'[f] <=> frames[f] \/ f \in Run(s, n)
    BY <1>2, Zenon DEF AllocsRun, Run
  <2>7. \A f \in Frame : holders'[f] = IF f \in Run(s, n)
                                         THEN holders[f] + 1 ELSE holders[f]
    BY <1>2, <2>1 DEF AllocsRun, Hand, Run
  <2> QED  BY <2>1, <2>2, <2>3, <2>4, <2>5, <2>6, <2>7 DEF AllocsResult
<1> QED  BY <1>1, <1>2 DEF allocs

\* What a call of alloc does, seen by its caller: nothing but a move of the
\* search index and NULL, or one frame that was free and is now passed.
AllocResult ==
  \/ ret'.frame = NULL
  \/ /\ ret'.frame \in Frame /\ ret'.frame >= latest_frame
     /\ ~frames[ret'.frame]
     /\ latest_frame' = ret'.frame + 1
     /\ \A f \in Frame : frames'[f] <=> frames[f] \/ f = ret'.frame
     /\ \A f \in Frame : holders'[f] = IF f = ret'.frame
                                         THEN holders[f] + 1 ELSE holders[f]

\* alloc, as its callers see it; NULL leaves flags and holders alone.
LEMMA AllocFacts ==
  ASSUME Available <= Wrap, TypeOK, alloc
  PROVE  /\ AllocResult
         /\ ret'.frame = NULL => UNCHANGED <<frames, holders>>
         /\ latest_frame' >= latest_frame
<1> USE FramesAssumption
<1>1. latest_frame \in Nat /\ latest_frame <= Available /\ Available \in Nat
  BY DEF TypeOK
<1>2. CASE AllocNull
  BY <1>1, <1>2 DEF AllocNull, AllocResult
<1>3. ASSUME NEW f \in latest_frame .. Available - 1, AllocFrame(f)
      PROVE  AllocResult /\ ret'.frame # NULL /\ latest_frame' >= latest_frame
  <2>1. f \in Frame /\ FrameAddr(f) = f /\ f \in Nat /\ f >= latest_frame /\ f # NULL
    BY <1>1, AddressExact DEF Frame, NULL
  <2>2. ret'.frame = f /\ latest_frame' = f + 1 /\ ~frames[f]
    BY <1>3, <2>1 DEF AllocFrame, SearchStopsAt, Frame
  <2>3. \A g \in Frame : frames'[g] <=> frames[g] \/ g = f
    BY <1>3, <2>1 DEF AllocFrame, TypeOK
  <2>4. \A g \in Frame : holders'[g] = IF g = f THEN holders[g] + 1 ELSE holders[g]
    <3>1. f .. f + 1 - 1 = {f}
      BY <2>1
    <3> QED  BY <1>3, <2>1, <3>1 DEF AllocFrame, Hand
  <2> QED  BY <1>1, <2>1, <2>2, <2>3, <2>4 DEF AllocResult
<1> QED  BY <1>2, <1>3 DEF alloc
-----------------------------------------------------------------------------
InStack(f) == \E i \in DOMAIN ist : f \in Run(ist[i], StackFrames)
InHeap(f) == \E i \in DOMAIN heap : f \in Run(heap[i].start, heap[i].len)

Shape ==
  /\ boot \in {"stacks", "paging", "running", "stopped"}
  /\ ist \in Seq(Frame) /\ Len(ist) <= Stacks
  /\ boot = "stacks" => Len(ist) < Stacks
  /\ tables \subseteq Frame
  /\ heap \in Seq([start : Frame, len : HeapRuns])
  /\ \A i \in DOMAIN ist : ist[i] + StackFrames <= Available
  /\ \A i \in DOMAIN heap : heap[i].start + heap[i].len <= Available
  /\ boot \in {"stacks", "paging"} => tables = {} /\ heap = <<>>

\* Everything anybody holds is marked used.
Marked == \A f \in Frame : holders[f] > 0 \/ InStack(f) \/ InHeap(f) => frames[f]

\* Page tables lie below the search index, where nothing is handed out again.
TablesPassed ==
  \A f \in tables : f < latest_frame /\ holders[f] = 1 /\ ~InStack(f) /\ ~InHeap(f)

\* So do the stacks once Paging::init has taken its frame.
StacksPassed ==
  /\ boot = "running" => \A f \in Frame : InStack(f) => f < latest_frame
  /\ \A f \in Frame : ~(InStack(f) /\ InHeap(f))

\* And so does every heap page of one frame.
SinglesPassed ==
  /\ \A i \in DOMAIN heap : heap[i].len = 1 => heap[i].start < latest_frame
  /\ SinglePagesPrivate

KInv == Shape /\ Marked /\ TablesPassed /\ StacksPassed /\ StackRoom /\ SinglesPassed

\* The fields of a heap page have their types.
LEMMA PageFields ==
  ASSUME heap \in Seq([start : Frame, len : HeapRuns]), NEW i \in DOMAIN heap
  PROVE  heap[i].start \in Frame /\ heap[i].len \in HeapRuns
<1> DEFINE Page == [start : Frame, len : HeapRuns]
<1>1. heap[i] \in Page
  <2>1. heap \in Seq(Page)
    OBVIOUS
  <2> HIDE DEF Page
  <2> QED  BY <2>1
<1> QED  BY <1>1

\* One more stack adds its run, and nothing else, to the frames of the stacks.
LEMMA StackAdded ==
  ASSUME ist \in Seq(Frame), NEW s \in Frame, ist' = Append(ist, s)
  PROVE  /\ ist' \in Seq(Frame) /\ Len(ist') = Len(ist) + 1
         /\ DOMAIN ist' = 1 .. Len(ist) + 1
         /\ \A i \in DOMAIN ist : i \in DOMAIN ist' /\ ist'[i] = ist[i]
         /\ ist'[Len(ist) + 1] = s
         /\ \A f : InStack(f)' <=> InStack(f) \/ f \in Run(s, StackFrames)
<1>1. /\ ist' \in Seq(Frame) /\ Len(ist') = Len(ist) + 1
      /\ DOMAIN ist' = 1 .. Len(ist) + 1
      /\ \A i \in DOMAIN ist : i \in DOMAIN ist' /\ ist'[i] = ist[i]
      /\ ist'[Len(ist) + 1] = s /\ Len(ist) \in Nat
      /\ DOMAIN ist = 1 .. Len(ist)
  OBVIOUS
<1>2. \A i \in DOMAIN ist' : i \in DOMAIN ist \/ i = Len(ist) + 1
  BY <1>1
<1>3. Len(ist) + 1 \in DOMAIN ist'
  BY <1>1
<1>4. ASSUME NEW f PROVE InStack(f)' <=> InStack(f) \/ f \in Run(s, StackFrames)
  BY <1>1, <1>2, <1>3 DEF InStack
<1> QED  BY <1>1, <1>4

\* The same for one more heap page.
LEMMA PageAdded ==
  ASSUME heap \in Seq([start : Frame, len : HeapRuns]), NEW s \in Frame,
         NEW n \in HeapRuns, heap' = Append(heap, [start |-> s, len |-> n])
  PROVE  /\ heap' \in Seq([start : Frame, len : HeapRuns])
         /\ DOMAIN heap' = 1 .. Len(heap) + 1 /\ DOMAIN heap = 1 .. Len(heap)
         /\ \A i \in DOMAIN heap : i \in DOMAIN heap' /\ heap'[i] = heap[i]
         /\ heap'[Len(heap) + 1].start = s /\ heap'[Len(heap) + 1].len = n
         /\ \A f : InHeap(f)' <=> InHeap(f) \/ f \in Run(s, n)
<1> DEFINE pg == [start |-> s, len |-> n]
<1>1. pg \in [start : Frame, len : HeapRuns] /\ pg.start = s /\ pg.len = n
  OBVIOUS
<1> HIDE DEF pg
<1>2. heap' = Append(heap, pg)
  BY DEF pg
<1>3. /\ heap' \in Seq([start : Frame, len : HeapRuns])
      /\ DOMAIN heap' = 1 .. Len(heap) + 1 /\ DOMAIN heap = 1 .. Len(heap)
      /\ \A i \in DOMAIN heap : i \in DOMAIN heap' /\ heap'[i] = heap[i]
      /\ heap'[Len(heap) + 1] = pg /\ Len(heap) \in Nat
  BY <1>1, <1>2
<1>4. \A i \in DOMAIN heap' : i \in DOMAIN heap \/ i = Len(heap) + 1
  BY <1>3
<1>5. Len(heap) + 1 \in DOMAIN heap'
  BY <1>3
<1>6. ASSUME NEW f PROVE InHeap(f)' <=> InHeap(f) \/ f \in Run(s, n)
  BY <1>1, <1>3, <1>4, <1>5 DEF InHeap
<1> QED  BY <1>1, <1>3, <1>6
-----------------------------------------------------------------------------
\* A round of init_stacks keeps the invariant: the new run lies on unused
\* frames, except for its first.
LEMMA StackStep ==
  ASSUME Available <= Wrap, TypeOK, KInv, init_stacks
  PROVE  KInv'
<1>1. /\ AllocsResult(StackFrames) /\ StackFrames \in Nat /\ StackFrames > 0
      /\ Stacks \in Nat
  BY AllocsFacts, FramesAssumption, KernelMemoryAssumption DEF init_stacks
<1>2. /\ tables = {} /\ heap = <<>> /\ tables' = tables /\ heap' = heap
      /\ boot = "stacks" /\ ist \in Seq(Frame) /\ Len(ist) < Stacks
  BY DEF init_stacks, KInv, Shape
<1>3. \A f : ~InHeap(f) /\ ~InHeap(f)'
  BY <1>2 DEF InHeap
<1>4. TablesPassed' /\ SinglesPassed'
  BY <1>2 DEF TablesPassed, SinglesPassed, SinglePagesPrivate
<1>5. CASE ret'.frame = NULL
  <2>1. /\ boot' = "paging" /\ ist' = ist
        /\ frames' = frames /\ holders' = holders
    BY <1>1, <1>5, FramesAssumption DEF init_stacks, AllocsResult, NULL, Frame
  <2>2. \A f : InStack(f)' <=> InStack(f)
    BY <2>1 DEF InStack
  <2>3. Shape'
    BY <1>2, <2>1 DEF KInv, Shape
  <2>4. Marked'
    BY <1>3, <2>1, <2>2 DEF KInv, Marked
  <2>5. StacksPassed' /\ StackRoom'
    BY <1>3, <2>1 DEF KInv, StacksPassed, StackRoom
  <2> QED  BY <1>4, <2>3, <2>4, <2>5 DEF KInv
<1>6. CASE ret'.frame # NULL
  <2> DEFINE s == ret'.frame
  <2>1. /\ s \in Frame /\ s + StackFrames <= Available
        /\ \A f \in Frame : f \in Run(s, StackFrames) /\ f # s => ~frames[f]
        /\ \A f \in Frame : frames'[f] <=> frames[f] \/ f \in Run(s, StackFrames)
        /\ \A f \in Frame : holders'[f] = IF f \in Run(s, StackFrames)
                                            THEN holders[f] + 1 ELSE holders[f]
    BY <1>1, <1>6 DEF AllocsResult
  <2>2. /\ ist' = Append(ist, s) /\ boot' \in {"paging", "stacks"}
        /\ boot' = "stacks" => Len(ist) + 1 # Stacks
    BY <1>6 DEF init_stacks
  <2> HIDE DEF s
  <2>3. /\ ist' \in Seq(Frame) /\ Len(ist') = Len(ist) + 1
        /\ DOMAIN ist' = 1 .. Len(ist) + 1 /\ DOMAIN ist = 1 .. Len(ist)
        /\ \A i \in DOMAIN ist : i \in DOMAIN ist' /\ ist'[i] = ist[i]
        /\ ist'[Len(ist) + 1] = s /\ Len(ist) \in Nat
        /\ \A f : InStack(f)' <=> InStack(f) \/ f \in Run(s, StackFrames)
    BY <1>2, <2>1, <2>2, StackAdded
  <2>4. \A i \in DOMAIN ist' : i \in DOMAIN ist \/ i = Len(ist) + 1
    BY <2>3
  <2>5. Shape'
    <3>1. \A i \in DOMAIN ist' : ist'[i] + StackFrames <= Available
      BY <2>1, <2>3, <2>4 DEF KInv, Shape
    <3>2. Len(ist') <= Stacks /\ (boot' = "stacks" => Len(ist') < Stacks)
      BY <1>1, <1>2, <2>2, <2>3
    <3> QED  BY <1>2, <2>2, <2>3, <3>1, <3>2 DEF Shape
  <2>6. Marked'
    BY <1>3, <2>1, <2>3 DEF KInv, Marked
  <2>7. StacksPassed'
    BY <1>3, <2>2 DEF StacksPassed
  <2>8. StackRoom'
    <3>1. ASSUME NEW i \in DOMAIN ist
          PROVE  Run(ist[i], StackFrames) \cap Run(s, StackFrames) \subseteq {s}
      <4> SUFFICES ASSUME NEW f \in Run(ist[i], StackFrames), f \in Run(s, StackFrames), f # s
                   PROVE  FALSE
        OBVIOUS
      <4>1. ist[i] \in Frame /\ ist[i] + StackFrames <= Available
        BY <1>2 DEF KInv, Shape
      <4>2. f \in Frame
        BY <1>1, <2>1, <4>1, FramesAssumption DEF Run, Frame
      <4>3. frames[f]
        BY <4>2 DEF KInv, Marked, InStack
      <4> QED  BY <2>1, <4>2, <4>3
    <3>2. \A i, j \in DOMAIN ist :
            i < j => Run(ist[i], StackFrames) \cap Run(ist[j], StackFrames) \subseteq {ist[j]}
      BY DEF KInv, StackRoom
    <3>3. ASSUME NEW i \in DOMAIN ist', NEW j \in DOMAIN ist', i < j
          PROVE  Run(ist'[i], StackFrames) \cap Run(ist'[j], StackFrames) \subseteq {ist'[j]}
      <4>1. i \in DOMAIN ist
        BY <2>3, <3>3
      <4>2. CASE j \in DOMAIN ist
        BY <2>3, <3>2, <3>3, <4>1, <4>2
      <4>3. CASE j = Len(ist) + 1
        BY <2>3, <3>1, <4>1, <4>3
      <4> QED  BY <2>4, <4>2, <4>3
    <3> QED  BY <3>3 DEF StackRoom
  <2> QED  BY <1>4, <2>5, <2>6, <2>7, <2>8 DEF KInv
<1> QED  BY <1>5, <1>6

\* Paging::init's and map's alloc keep the invariant: the frame was free, and
\* the search index goes past it, and so past every frame in use.
LEMMA TableStep ==
  ASSUME Available <= Wrap, TypeOK, UsedPrefix, KInv,
         boot \in {"paging", "running"}, TableFrame("running")
  PROVE  KInv'
<1>1. /\ AllocResult /\ latest_frame' >= latest_frame
      /\ ret'.frame = NULL => UNCHANGED <<frames, holders>>
      /\ latest_frame \in Nat /\ latest_frame' \in Int
  <2>1. alloc
    BY DEF TableFrame
  <2>2. latest_frame \in Nat /\ latest_frame' \in Int
    BY <2>1, FramesAssumption DEF TypeOK, alloc, AllocNull, AllocFrame
  <2> QED  BY <2>1, <2>2, AllocFacts
<1>2. ist' = ist /\ heap' = heap
  BY DEF TableFrame
<1>3. \A f : (InStack(f)' <=> InStack(f)) /\ (InHeap(f)' <=> InHeap(f))
  BY <1>2 DEF InStack, InHeap
<1>4. StackRoom'
  BY <1>2 DEF KInv, StackRoom
<1>5. SinglesPassed'
  <2>1. ASSUME NEW i \in DOMAIN heap, heap[i].len = 1
        PROVE  heap[i].start < latest_frame'
    <3>1. heap[i].start < latest_frame
      BY <2>1 DEF KInv, SinglesPassed
    <3>2. heap[i].start \in Frame
      BY PageFields DEF KInv, Shape
    <3> QED  BY <1>1, <3>1, <3>2 DEF Frame
  <2> QED  BY <1>2, <2>1 DEF KInv, SinglesPassed, SinglePagesPrivate
<1>6. CASE ret'.frame = NULL
  <2>1. boot' = "stopped" /\ tables' = tables /\ frames' = frames /\ holders' = holders
    BY <1>1, <1>6 DEF TableFrame
  <2>2. Shape'
    BY <1>2, <2>1 DEF KInv, Shape
  <2>3. Marked'
    BY <1>3, <2>1 DEF KInv, Marked
  <2>4. TablesPassed'
    <3>1. ASSUME NEW f \in tables PROVE f < latest_frame'
      <4>1. f < latest_frame /\ f \in Frame
        BY DEF KInv, TablesPassed, Shape
      <4> QED  BY <1>1, <4>1 DEF Frame
    <3> QED  BY <1>3, <2>1, <3>1 DEF KInv, TablesPassed
  <2>5. StacksPassed'
    BY <1>3, <2>1 DEF KInv, StacksPassed
  <2> QED  BY <1>4, <1>5, <2>2, <2>3, <2>4, <2>5 DEF KInv
<1>7. CASE ret'.frame # NULL
  <2> DEFINE t == ret'.frame
  <2>1. /\ t \in Frame /\ ~frames[t] /\ latest_frame' = t + 1 /\ t >= latest_frame
        /\ \A f \in Frame : frames'[f] <=> frames[f] \/ f = t
        /\ \A f \in Frame : holders'[f] = IF f = t THEN holders[f] + 1 ELSE holders[f]
    BY <1>1, <1>7 DEF AllocResult
  <2>2. boot' = "running" /\ tables' = tables \cup {t}
    BY <1>7 DEF TableFrame
  <2> HIDE DEF t
  <2>3. Shape'
    BY <1>2, <2>1, <2>2 DEF KInv, Shape
  <2>4. Marked'
    BY <1>3, <2>1 DEF KInv, Marked
  <2>5. holders[t] = 0 /\ ~InStack(t) /\ ~InHeap(t)
    <3>1. ~(holders[t] > 0) /\ ~InStack(t) /\ ~InHeap(t) /\ holders[t] \in Nat
      BY <2>1 DEF KInv, Marked, TypeOK
    <3> QED  BY <3>1
  <2>6. TablesPassed'
    <3>1. holders'[t] = 1 /\ t < latest_frame'
      BY <2>1, <2>5 DEF Frame
    <3>2. ASSUME NEW f \in tables, f # t
          PROVE  f < latest_frame' /\ holders'[f] = 1 /\ ~InStack(f) /\ ~InHeap(f)
      <4>1. f \in Frame /\ f < latest_frame /\ holders[f] = 1 /\ ~InStack(f) /\ ~InHeap(f)
        BY DEF KInv, TablesPassed, Shape
      <4> QED  BY <1>1, <2>1, <3>2, <4>1 DEF Frame
    <3> QED  BY <1>3, <2>2, <2>5, <3>1, <3>2 DEF TablesPassed
  <2>7. StacksPassed'
    <3>1. ASSUME NEW f \in Frame, InStack(f) PROVE f < latest_frame'
      <4>1. frames[f]
        BY <3>1 DEF KInv, Marked
      <4>2. ~(t < f) /\ t # f
        BY <2>1, <4>1 DEF UsedPrefix
      <4> QED  BY <2>1, <4>2 DEF Frame
    <3> QED  BY <1>3, <3>1 DEF KInv, StacksPassed
  <2> QED  BY <1>4, <1>5, <2>3, <2>4, <2>6, <2>7 DEF KInv
<1> QED  BY <1>6, <1>7
\* create_heap_page keeps the invariant: the run lies at or after the search
\* index, and so meets no table, no stack and no page of one frame.
LEMMA PageStep ==
  ASSUME Available <= Wrap, TypeOK, KInv, NEW n \in HeapRuns, create_heap_page(n)
  PROVE  KInv'
<1>1. AllocsResult(n) /\ n \in Nat /\ n > 0 /\ latest_frame \in Nat
  BY AllocsFacts, FramesAssumption, KernelMemoryAssumption
  DEF create_heap_page, TypeOK
<1>2. boot = "running" /\ ist' = ist /\ tables' = tables
  BY DEF create_heap_page
<1>3. \A f : InStack(f)' <=> InStack(f)
  BY <1>2 DEF InStack
<1>4. StackRoom'
  BY <1>2 DEF KInv, StackRoom
<1>5. CASE ret'.frame = NULL
  <2>1. /\ boot' = "stopped" /\ heap' = heap /\ frames' = frames
        /\ holders' = holders /\ latest_frame' = latest_frame
    BY <1>1, <1>5, FramesAssumption DEF create_heap_page, AllocsResult, NULL, Frame
  <2>2. \A f : InHeap(f)' <=> InHeap(f)
    BY <2>1 DEF InHeap
  <2>3. Shape'
    BY <1>2, <2>1 DEF KInv, Shape
  <2>4. Marked' /\ TablesPassed' /\ StacksPassed'
    BY <1>2, <1>3, <2>1, <2>2 DEF KInv, Marked, TablesPassed, StacksPassed
  <2>5. SinglesPassed'
    BY <2>1 DEF KInv, SinglesPassed, SinglePagesPrivate
  <2> QED  BY <1>4, <2>3, <2>4, <2>5 DEF KInv
<1>6. CASE ret'.frame # NULL
  <2> DEFINE s == ret'.frame
             k == Len(heap) + 1
  <2>1. /\ s \in Frame /\ s >= latest_frame /\ s + n <= Available
        /\ n = 1 => s = latest_frame
        /\ latest_frame' = latest_frame + 1
        /\ \A f \in Frame : frames'[f] <=> frames[f] \/ f \in Run(s, n)
        /\ \A f \in Frame : holders'[f] = IF f \in Run(s, n)
                                            THEN holders[f] + 1 ELSE holders[f]
    BY <1>1, <1>6 DEF AllocsResult
  <2>2. boot' = "running" /\ heap' = Append(heap, [start |-> s, len |-> n])
    BY <1>2, <1>6 DEF create_heap_page
  <2> HIDE DEF s
  <2>3. /\ heap \in Seq([start : Frame, len : HeapRuns])
        /\ heap' \in Seq([start : Frame, len : HeapRuns])
        /\ DOMAIN heap' = 1 .. k /\ DOMAIN heap = 1 .. Len(heap)
        /\ \A i \in DOMAIN heap : i \in DOMAIN heap' /\ heap'[i] = heap[i]
        /\ heap'[k].start = s /\ heap'[k].len = n /\ Len(heap) \in Nat
        /\ \A f : InHeap(f)' <=> InHeap(f) \/ f \in Run(s, n)
    <3>1. heap \in Seq([start : Frame, len : HeapRuns])
      BY DEF KInv, Shape
    <3> QED  BY <2>1, <2>2, <3>1, PageAdded
  <2>4. \A i \in DOMAIN heap' : i \in DOMAIN heap \/ i = k
    BY <2>3
  <2>5. \A f \in Frame : f \in Run(s, n) => f >= latest_frame
    BY <1>1, <2>1 DEF Run, Frame
  <2>6. Shape'
    <3>1. \A i \in DOMAIN heap' : heap'[i].start + heap'[i].len <= Available
      BY <2>1, <2>3, <2>4 DEF KInv, Shape
    <3> QED  BY <1>2, <2>2, <2>3, <3>1 DEF KInv, Shape
  <2>7. Marked'
    BY <1>3, <2>1, <2>3 DEF KInv, Marked
  <2>8. TablesPassed'
    <3>1. ASSUME NEW f \in tables
          PROVE  f < latest_frame' /\ holders'[f] = 1 /\ ~InStack(f)' /\ ~InHeap(f)'
      <4>1. f \in Frame /\ f < latest_frame /\ holders[f] = 1 /\ ~InStack(f) /\ ~InHeap(f)
        BY DEF KInv, TablesPassed, Shape
      <4>2. f \notin Run(s, n)
        BY <1>1, <2>5, <4>1 DEF Frame
      <4>3. f < latest_frame'
        BY <1>1, <2>1, <4>1 DEF Frame
      <4> QED  BY <1>3, <2>1, <2>3, <4>1, <4>2, <4>3
    <3> QED  BY <1>2, <3>1 DEF TablesPassed
  <2>9. StacksPassed'
    <3>1. ASSUME NEW f \in Frame, InStack(f)
          PROVE  f < latest_frame /\ f < latest_frame' /\ ~InHeap(f) /\ f \notin Run(s, n)
      <4>1. f < latest_frame /\ ~InHeap(f)
        BY <1>2, <3>1 DEF KInv, StacksPassed
      <4>2. f \notin Run(s, n) /\ f < latest_frame'
        BY <1>1, <2>1, <2>5, <4>1 DEF Frame
      <4> QED  BY <4>1, <4>2
    <3> QED  BY <1>3, <2>3, <3>1 DEF StacksPassed
  <2>10. SinglesPassed'
    <3>1. ASSUME NEW i \in DOMAIN heap, heap[i].len = 1
          PROVE  /\ heap[i].start \in Frame /\ heap[i].start < latest_frame
                 /\ heap[i].start < latest_frame'
      <4>1. heap[i].start < latest_frame
        BY <3>1 DEF KInv, SinglesPassed
      <4>2. heap[i].start \in Frame
        BY <2>3, PageFields
      <4> QED  BY <1>1, <2>1, <4>1, <4>2 DEF Frame
    <3>2. n = 1 => s < latest_frame'
      BY <1>1, <2>1
    <3>3. ASSUME NEW i \in DOMAIN heap, heap[i].len = 1
          PROVE  Run(heap[i].start, heap[i].len) \cap Run(s, n) = {}
      <4>1. Run(heap[i].start, heap[i].len) = {heap[i].start}
        BY <3>1, <3>3 DEF Run, Frame
      <4>2. heap[i].start \notin Run(s, n)
        BY <1>1, <2>5, <3>1, <3>3 DEF Frame
      <4> QED  BY <4>1, <4>2
    <3>4. ASSUME NEW i \in DOMAIN heap PROVE heap[i].len = 1 \/ heap[i].len > 1
      <4>1. heap[i].len \in Nat /\ heap[i].len # 0
        BY <2>3, PageFields, FramesAssumption, KernelMemoryAssumption, ZenonT(30)
      <4> QED  BY <4>1
    <3>5. SinglePagesPrivate'
      <4> SUFFICES ASSUME NEW i \in DOMAIN heap', NEW j \in DOMAIN heap', i < j,
                          Overlap(heap'[i], heap'[j])
                   PROVE  heap'[i].len > 1
        BY DEF SinglePagesPrivate, Overlap
      <4>1. i \in DOMAIN heap
        BY <2>3
      <4>2. CASE j \in DOMAIN heap
        BY <2>3, <4>1, <4>2 DEF KInv, SinglesPassed, SinglePagesPrivate
      <4>3. CASE j = k
        <5>1. Run(heap[i].start, heap[i].len) \cap Run(s, n) # {}
          BY <2>3, <4>1, <4>3 DEF Overlap
        <5> QED  BY <2>3, <3>3, <3>4, <4>1, <5>1
      <4> QED  BY <2>4, <4>2, <4>3
    <3>6. \A i \in DOMAIN heap' : heap'[i].len = 1 => heap'[i].start < latest_frame'
      BY <2>3, <2>4, <3>1, <3>2
    <3> QED  BY <3>5, <3>6 DEF SinglesPassed
  <2> QED  BY <1>4, <2>6, <2>7, <2>8, <2>9, <2>10 DEF KInv
<1> QED  BY <1>5, <1>6

-----------------------------------------------------------------------------
\* The callers use the allocator through its interface only, and free nothing:
\* every behaviour of the kernel is one of the allocator without free.
THEOREM CallersImplementBoot == KSpec => BootSpec
<1>1. KInit => Init
  BY DEF KInit
<1>2. [KNext]_kvars => [Allocate]_vars
  <2>1. init_stacks => Allocate
    BY KernelMemoryAssumption DEF init_stacks, Allocate
  <2>2. PagingInit \/ MapTable => Allocate
    BY DEF PagingInit, MapTable, TableFrame, Allocate
  <2>3. ASSUME NEW n \in HeapRuns PROVE create_heap_page(n) => Allocate
    BY KernelMemoryAssumption DEF create_heap_page, Allocate
  <2>4. UNCHANGED kvars => UNCHANGED vars
    BY DEF kvars
  <2> QED  BY <2>1, <2>2, <2>3, <2>4 DEF KNext
<1> QED  BY <1>1, <1>2, PTL DEF KSpec, BootSpec

\* KInv gives what the runs check.
LEMMA KInvImplies ==
  ASSUME KInv
  PROVE  TablesPrivate /\ StacksPrivate /\ StackRoom /\ SinglePagesPrivate
<1>1. /\ \A f : f \in StackArea <=> InStack(f)
      /\ \A f : f \in HeapFrames <=> InHeap(f)
  BY DEF StackArea, HeapFrames, InStack, InHeap
<1>2. TablesPrivate
  BY <1>1 DEF KInv, TablesPassed, TablesPrivate
<1>3. ASSUME NEW f, InStack(f) PROVE f \in Frame
  <2>1. PICK i \in DOMAIN ist : f \in Run(ist[i], StackFrames)
    BY <1>3 DEF InStack
  <2>2. ist[i] \in Frame /\ ist[i] + StackFrames <= Available /\ StackFrames \in Nat
    BY FramesAssumption, KernelMemoryAssumption DEF KInv, Shape
  <2> QED  BY <2>1, <2>2, FramesAssumption DEF Run, Frame
<1>4. StacksPrivate
  BY <1>1, <1>3 DEF KInv, TablesPassed, StacksPassed, StacksPrivate
<1> QED  BY <1>2, <1>4 DEF KInv, SinglesPassed

\* In every order in which the kernel makes stacks, page tables and heap pages,
\* for all sizes: page tables and stacks are never handed out again, but for the
\* lowest frame that a stack shares with an earlier one, and heap pages of one
\* frame are never overlapped.
THEOREM CallersCorrect ==
  ASSUME Available <= Wrap, Available <= Cleared
  PROVE  KSpec => /\ []TablesPrivate /\ []StacksPrivate
                  /\ []StackRoom /\ []SinglePagesPrivate
<1>1. KInit => KInv
  <2> SUFFICES ASSUME KInit PROVE KInv
    OBVIOUS
  <2>1. /\ holders = [f \in Frame |-> 0] /\ boot = "stacks" /\ ist = <<>>
        /\ tables = {} /\ heap = <<>>
    BY DEF KInit, Init
  <2>2. \A f : ~InStack(f) /\ ~InHeap(f)
    BY <2>1 DEF InStack, InHeap
  <2>3. Shape
    BY <2>1, KernelMemoryAssumption DEF Shape
  <2> QED  BY <2>1, <2>2, <2>3 DEF KInv, Marked, TablesPassed, StacksPassed,
             StackRoom, SinglesPassed, SinglePagesPrivate
<1>2. TypeOK /\ UsedPrefix /\ KInv /\ [KNext]_kvars => KInv'
  <2> SUFFICES ASSUME TypeOK, UsedPrefix, KInv, [KNext]_kvars PROVE KInv'
    OBVIOUS
  <2>1. CASE init_stacks
    BY <2>1, StackStep
  <2>2. CASE PagingInit \/ MapTable
    BY <2>2, TableStep DEF PagingInit, MapTable
  <2>3. ASSUME NEW n \in HeapRuns, create_heap_page(n) PROVE KInv'
    BY <2>3, PageStep
  <2>4. CASE UNCHANGED kvars
    BY <2>4, ZenonT(30) DEF kvars, vars, KInv, Shape, Marked, TablesPassed, StacksPassed,
      StackRoom, SinglesPassed, SinglePagesPrivate, InStack, InHeap
  <2> QED  BY <2>1, <2>2, <2>3, <2>4 DEF KNext
<1>3. BootSpec => Spec
  BY PTL DEF BootSpec, Spec, Next
<1>4. KInv => TablesPrivate /\ StacksPrivate /\ StackRoom /\ SinglePagesPrivate
  BY KInvImplies
<1> QED
  BY <1>1, <1>2, <1>3, <1>4, CallersImplementBoot, TypeCorrect, PrefixCorrect, PTL
  DEF KSpec

-----------------------------------------------------------------------------
(* The memory map before the allocator has its memory: sort_memmap, and  *)
(* the regions that the first page tables enter.                         *)

\* What the inner loop has achieved for place outer.
RoundSettled ==
  outer <= Count =>
    \/ Type(outer) = "usable"
    \/ \A l \in outer + 1 .. inner - 1 : l \in Place => Length(outer) >= Length(l)

\* No region is missing.
AllListed == \A r \in Place : \E k \in Place : entries[k] = r

SortInv ==
  /\ given \in [Place -> [type : Types, length : Lengths]]
  /\ MapTypeOK /\ KeepsRegions /\ AllListed
  /\ inner > outer
  /\ PassedPlacesSettled /\ RoundSettled

\* The steps that follow each loop of the mapper.
AfterUsable == {"map_hhdm_memory", "map_kernel_code", "load_cr3", "running"}
AfterFramebuffer == {"map_found_memory"} \cup AfterUsable
AfterBootloader == {"map_framebuffer_memory"} \cup AfterFramebuffer
AfterSort == {"map_bootloader_memory"} \cup AfterBootloader

\* What the steps so far have left behind.
BootInv ==
  /\ SortInv
  /\ step \in {"sort_memmap"} \cup AfterSort
  /\ step \in AfterSort => Sorted /\ memory = entries[1] /\ flags = entries[2]
  /\ step \in AfterBootloader => Regions("bootloader") \subseteq mapped
  /\ step \in AfterFramebuffer => Regions("framebuffer") \subseteq mapped
  /\ step \in AfterUsable => Regions("usable") \subseteq mapped

LEMMA SortInit == MInit => SortInv
<1> SUFFICES ASSUME MInit PROVE SortInv
  OBVIOUS
<1> USE MemmapAssumption DEF MInit, Place
<1>1. MapTypeOK /\ KeepsRegions /\ AllListed
  BY DEF MapTypeOK, KeepsRegions, AllListed
<1>2. PassedPlacesSettled
  BY DEF PassedPlacesSettled
<1>3. RoundSettled
  BY DEF RoundSettled
<1> QED  BY <1>1, <1>2, <1>3 DEF SortInv

\* Exchanging two places keeps the listing complete and free of repetitions.
LEMMA ExchangeKeeps ==
  ASSUME SortInv, outer \in Place, inner \in Place, entries' = Exchanged
  PROVE  /\ entries' \in [Place -> Place]
         /\ KeepsRegions' /\ AllListed'
<1> USE DEF SortInv, MapTypeOK
<1>1. entries' \in [Place -> Place]
  BY DEF Exchanged
<1>2. /\ entries'[outer] = entries[inner] /\ entries'[inner] = entries[outer]
      /\ \A k \in Place \ {outer, inner} : entries'[k] = entries[k]
  BY DEF Exchanged
<1>3. KeepsRegions'
  BY <1>2 DEF KeepsRegions, Place
<1>4. AllListed'
  <2> SUFFICES ASSUME NEW r \in Place PROVE \E k \in Place : entries'[k] = r
    BY DEF AllListed, Place
  <2>1. PICK k \in Place : entries[k] = r
    BY DEF AllListed
  <2> QED  BY <1>2, <2>1
<1> QED  BY <1>1, <1>3, <1>4

LEMMA InnerKeeps == SortInv /\ InnerRound => SortInv'
<1> SUFFICES ASSUME SortInv, InnerRound PROVE SortInv'
  OBVIOUS
<1> USE MemmapAssumption
<1>1. /\ outer \in Place /\ inner \in Place /\ outer < inner
      /\ outer' = outer /\ inner' = inner + 1 /\ given' = given
      /\ outer \in Nat /\ inner \in Nat
  BY DEF InnerRound, SortInv, MapTypeOK, Place
<1>2. /\ given' \in [Place -> [type : Types, length : Lengths]]
      /\ outer' \in 1 .. Count + 1 /\ inner' \in 2 .. Count + 2 /\ inner' > outer'
  <2>1. given' \in [Place -> [type : Types, length : Lengths]]
    BY <1>1 DEF SortInv
  <2> QED  BY <1>1, <2>1 DEF Place
<1>3. \A k \in Place : entries[k] \in Place /\ given[entries[k]].length \in Nat
  BY Zenon DEF SortInv, MapTypeOK
<1>4. /\ \A k \in 1 .. outer - 1 : \/ given[entries[k]].type = "usable"
                              \/ \A l \in k + 1 .. Count :
                                   given[entries[k]].length >= given[entries[l]].length
      /\ \/ given[entries[outer]].type = "usable"
         \/ \A l \in outer + 1 .. inner - 1 : given[entries[outer]].length >= given[entries[l]].length
  <2>1. outer <= Count /\ \A l \in outer + 1 .. inner - 1 : l \in Place
    BY <1>1 DEF Place
  <2> QED  BY <2>1 DEF SortInv, PassedPlacesSettled, RoundSettled, Type, Length
<1>5. CASE ~Swaps
  <2>1. entries' = entries
    BY <1>5 DEF InnerRound
  <2>2. MapTypeOK' /\ KeepsRegions' /\ AllListed'
    BY <1>2, <2>1 DEF SortInv, MapTypeOK, KeepsRegions, AllListed
  <2>3. PassedPlacesSettled'
    BY <1>1, <1>4, <2>1 DEF PassedPlacesSettled, Type, Length
  <2>4. RoundSettled'
    <3>1. \/ given[entries[outer]].type = "usable"
          \/ given[entries[outer]].length >= given[entries[inner]].length
      BY <1>1, <1>3, <1>5 DEF Swaps, Type, Length
    <3> QED  BY <1>1, <1>4, <2>1, <3>1 DEF RoundSettled, Type, Length
  <2> QED  BY <1>2, <2>2, <2>3, <2>4 DEF SortInv
<1>6. CASE Swaps
  <2>1. entries' = Exchanged
    BY <1>6 DEF InnerRound
  <2>2. entries' \in [Place -> Place] /\ KeepsRegions' /\ AllListed'
    BY <1>1, <2>1, ExchangeKeeps
  <2>3. /\ entries'[outer] = entries[inner] /\ entries'[inner] = entries[outer]
        /\ \A k \in Place \ {outer, inner} : entries'[k] = entries[k]
    BY <1>1, <2>1 DEF SortInv, MapTypeOK, Exchanged
  <2>4. /\ given[entries[outer]].type # "usable"
        /\ given[entries[outer]].length < given[entries[inner]].length
    BY <1>6 DEF Swaps, Type, Length
  <2>5. PassedPlacesSettled'
    <3> SUFFICES ASSUME NEW k \in 1 .. outer - 1,
                        given[entries'[k]].type # "usable", NEW l \in k + 1 .. Count
                 PROVE  given[entries'[k]].length >= given[entries'[l]].length
      BY <1>1 DEF PassedPlacesSettled, Type, Length
    <3>1. /\ k \in Place \ {outer, inner} /\ l \in Place
          /\ outer \in k + 1 .. Count /\ inner \in k + 1 .. Count
      BY <1>1 DEF Place
    <3>2. \A n \in k + 1 .. Count : given[entries[k]].length >= given[entries[n]].length
      BY <1>4, <2>3, <3>1
    <3> QED  BY <2>3, <3>1, <3>2
  <2>6. RoundSettled'
    <3> SUFFICES ASSUME NEW l \in outer + 1 .. inner
                 PROVE  given[entries'[outer]].length >= given[entries'[l]].length
      BY <1>1 DEF RoundSettled, Type, Length
    <3>1. CASE l = inner
      BY <1>1, <1>3, <2>3, <2>4, <3>1
    <3>2. CASE l # inner
      <4>1. l \in Place \ {outer, inner} /\ l \in outer + 1 .. inner - 1
        BY <1>1, <3>2 DEF Place
      <4>2. given[entries[outer]].length >= given[entries[l]].length
        BY <1>4, <2>4, <4>1
      <4> QED  BY <1>1, <1>3, <2>3, <2>4, <4>1, <4>2
    <3> QED  BY <3>1, <3>2
  <2> QED  BY <1>2, <2>2, <2>5, <2>6 DEF SortInv, MapTypeOK
<1> QED  BY <1>5, <1>6

LEMMA OuterKeeps == SortInv /\ OuterRound => SortInv'
<1> SUFFICES ASSUME SortInv, OuterRound PROVE SortInv'
  OBVIOUS
<1> USE MemmapAssumption
<1>1. /\ outer \in Place /\ outer \in Nat /\ inner \in Nat /\ inner > Count
      /\ outer' = outer + 1 /\ inner' = outer + 2 /\ given' = given /\ entries' = entries
  BY DEF OuterRound, SortInv, MapTypeOK, Place
<1>2. given' \in [Place -> [type : Types, length : Lengths]]
  BY <1>1 DEF SortInv
<1>3. MapTypeOK' /\ inner' > outer'
  BY <1>1 DEF SortInv, MapTypeOK, Place
<1>4. KeepsRegions' /\ AllListed'
  BY <1>1 DEF SortInv, KeepsRegions, AllListed
<1>5. PassedPlacesSettled'
  <2> SUFFICES ASSUME NEW k \in 1 .. outer
               PROVE  \/ given[entries[k]].type = "usable"
                      \/ \A l \in k + 1 .. Count :
                           given[entries[k]].length >= given[entries[l]].length
    BY <1>1 DEF PassedPlacesSettled, Type, Length
  <2>1. CASE k = outer
    <3>1. outer <= Count /\ \A l \in k + 1 .. Count : l \in outer + 1 .. inner - 1 /\ l \in Place
      BY <1>1, <2>1 DEF Place
    <3> QED  BY <2>1, <3>1 DEF SortInv, RoundSettled, Type, Length
  <2>2. CASE k # outer
    <3>1. k \in 1 .. outer - 1
      BY <1>1, <2>2
    <3> QED  BY <3>1 DEF SortInv, PassedPlacesSettled, Type, Length
  <2> QED  BY <2>1, <2>2
<1>6. RoundSettled'
  BY <1>1 DEF RoundSettled
<1> QED  BY <1>2, <1>3, <1>4, <1>5, <1>6 DEF SortInv

\* The loops of the mapper leave the sorted map alone and enter their regions.
LEMMA BootStep == BootInv /\ [BNext]_bvars => BootInv'
<1> SUFFICES ASSUME BootInv, [BNext]_bvars PROVE BootInv'
  OBVIOUS
<1> USE DEF AfterUsable, AfterFramebuffer, AfterBootloader, AfterSort
<1>1. CASE SortStep
  <2>1. SortInv'
    BY <1>1, InnerKeeps, OuterKeeps DEF SortStep, MNext, BootInv
  <2> QED  BY <1>1, <2>1 DEF SortStep, BootInv
<1>2. ASSUME UNCHANGED <<given, entries, outer, inner>>
      PROVE  /\ SortInv' /\ (Sorted' <=> Sorted)
             /\ \A type : Regions(type)' = Regions(type)
  <2>1. SortInv'
    <3>1. /\ MapTypeOK' /\ KeepsRegions' /\ AllListed'
          /\ PassedPlacesSettled' /\ RoundSettled'
      BY <1>2, Zenon DEF BootInv, SortInv, MapTypeOK, KeepsRegions, AllListed,
         PassedPlacesSettled, RoundSettled, Type, Length
    <3> QED  BY <1>2, <3>1 DEF BootInv, SortInv
  <2>2. Sorted' <=> Sorted
    BY <1>2 DEF Sorted
  <2>3. \A type : Regions(type)' = Regions(type)
    BY <1>2 DEF Regions, Type
  <2> QED  BY <2>1, <2>2, <2>3
<1>3. CASE FrameInit
  BY <1>2, <1>3 DEF FrameInit, BootInv
<1>4. CASE map_bootloader_memory
  BY <1>2, <1>4 DEF map_bootloader_memory, MapLoop, BootInv
<1>5. CASE map_framebuffer_memory
  BY <1>2, <1>5 DEF map_framebuffer_memory, MapLoop, BootInv
<1>6. CASE map_found_memory
  BY <1>2, <1>6 DEF map_found_memory, MapLoop, BootInv
<1>7. CASE map_hhdm_memory
  BY <1>2, <1>7 DEF map_hhdm_memory, MapLoop, BootInv
<1>8. CASE map_kernel_code
  BY <1>2, <1>8 DEF map_kernel_code, BootInv
<1>9. CASE load_cr3
  BY <1>2, <1>9 DEF load_cr3, BootInv
<1>10. CASE UNCHANGED bvars
  BY <1>2, <1>10 DEF bvars, BootInv
<1> QED  BY <1>1, <1>3, <1>4, <1>5, <1>6, <1>7, <1>8, <1>9, <1>10 DEF BNext

LEMMA BootInitial == BInit => BootInv
BY SortInit DEF BInit, BootInv, AfterUsable, AfterFramebuffer, AfterBootloader, AfterSort

\* A region the mapper left out is not shorter than a usable one further back.
LEMMA FrontSettled ==
  ASSUME BootInv, step = "running", NEW k \in {1, 2},
         given[entries[k]].type # "usable",
         NEW q \in Place \ {memory, flags}
  PROVE  given[q].length <= given[entries[k]].length
<1>1. /\ SortInv /\ outer > Count /\ memory = entries[1] /\ flags = entries[2]
  BY DEF BootInv, Sorted, AfterSort, AfterBootloader, AfterFramebuffer, AfterUsable
<1>2. PICK l \in Place : entries[l] = q
  BY <1>1 DEF SortInv, AllListed
<1>3. l \in k + 1 .. Count /\ k \in 1 .. outer - 1 /\ k \in Place
  <2>1. l # 1 /\ l # 2
    BY <1>1, <1>2
  <2>2. outer \in Nat /\ Count \in Nat /\ Count >= 2 /\ l \in 1 .. Count
    BY <1>1, MemmapAssumption DEF SortInv, MapTypeOK, Place
  <2> QED  BY <1>1, <2>1, <2>2 DEF Place
<1>4. given[entries[k]].length >= given[entries[l]].length
  BY <1>1, <1>3 DEF SortInv, PassedPlacesSettled, Type, Length
<1>5. given[q].length \in Nat /\ given[entries[k]].length \in Nat
  BY <1>1, <1>3, MemmapAssumption, ZenonT(30) DEF SortInv, MapTypeOK
<1> QED  BY <1>2, <1>4, <1>5

LEMMA MappedAtEnd == BootInv => AllocatorMapped
<1> SUFFICES ASSUME BootInv, step = "running" PROVE AllocatorMapped
  BY DEF AllocatorMapped
<1>1. SortInv /\ memory = entries[1] /\ flags = entries[2] /\ 1 \in Place /\ 2 \in Place
  BY MemmapAssumption DEF BootInv, AfterSort, AfterBootloader, AfterFramebuffer, AfterUsable, Place
<1>2. memory # flags
  BY <1>1 DEF SortInv, KeepsRegions
<1>3. ASSUME NEW k \in {1, 2}, entries[k] \notin mapped
      PROVE  given[entries[k]].type \notin {"usable", "bootloader", "framebuffer"}
  <2>1. /\ Regions("bootloader") \subseteq mapped /\ Regions("framebuffer") \subseteq mapped
        /\ Regions("usable") \subseteq mapped
    BY DEF BootInv, AfterBootloader, AfterFramebuffer, AfterUsable
  <2> QED  BY <1>1, <1>3, <2>1 DEF Regions, Type
<1>4. ASSUME NEW k \in {1, 2}, entries[k] \notin mapped
      PROVE  \A q \in Place \ {memory, flags} :
               given[q].type = "usable" => given[q].length <= given[entries[k]].length
  BY <1>3, <1>4, FrontSettled
<1> QED  BY <1>1, <1>2, <1>3, <1>4 DEF AllocatorMapped

\* sort_memmap, and all that follows it, keeps every region exactly once.
THEOREM RegionsKept == BSpec => []KeepsRegions
<1>1. BootInv => KeepsRegions
  BY DEF BootInv, SortInv
<1> QED  BY <1>1, BootInitial, BootStep, PTL DEF BSpec

\* Every place the loops of sort_memmap have passed holds a usable region, or one no
\* shorter than any behind it.
THEOREM PlacesSettled == BSpec => []PassedPlacesSettled
<1>1. BootInv => PassedPlacesSettled
  BY DEF BootInv, SortInv
<1> QED  BY <1>1, BootInitial, BootStep, PTL DEF BSpec

\* When Paging::init has loaded cr3, the frame allocator's two regions are different,
\* and each is mapped unless it is of a type full_map leaves out and no usable region
\* behind it is longer.
THEOREM AllocatorReachable == BSpec => []AllocatorMapped
BY BootInitial, BootStep, MappedAtEnd, PTL DEF BSpec
=============================================================================
