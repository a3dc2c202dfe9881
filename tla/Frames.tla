------------------------------- MODULE Frames -------------------------------
(***************************************************************************)
(* The physical frame allocator Mem::Frame of                              *)
(* src/src/kernel/mem/frames/frames.cc.                                    *)
(*                                                                         *)
(* Frames are numbered 0..Available-1 from base_addr.  The allocator runs  *)
(* with no preemption (its callers are boot code and the heap), so every   *)
(* call is one step.  Byte contents of frames are abstracted away.         *)
(***************************************************************************)
EXTENDS Integers

CONSTANTS
  Available,   \* available_frames: frames of memmap_entries[0]
  Cleared,     \* nframes: bytes of the flag array that Frame::init zeroes
  Wrap,        \* 2^32 / FRAME_SIZE: offsets are computed in 32 bits
  RunLengths,  \* the counts callers pass to allocs
  MaxHolders   \* bound: how often one frame may be handed out at a time

ASSUME FramesAssumption ==
  /\ Available \in Nat
  /\ Cleared \in Nat
  /\ Wrap \in Nat \ {0}
  /\ RunLengths \subseteq Nat \ {0}
  /\ MaxHolders \in Nat

VARIABLES
  frames,        \* frames[f]: the flag "frame f is used"
  latest_frame,  \* where the next search starts
  ret,           \* what the last call returned: [op, frame, len]
  holders,       \* history: how many callers hold frame f now
  heads          \* history: frames some run returned by allocs began at

vars == <<frames, latest_frame, ret, holders, heads>>

Frame == 0 .. Available - 1

NULL == -1

\* base_addr + n * FRAME_SIZE, with the product in u32, as a frame number.
FrameAddr(n) == n % Wrap

\* Mutant: a cast to a narrower type.
FrameNumberNarrow(p) == p % 4

\* (u32)(frame - base_addr) / FRAME_SIZE.
FrameNumber(p) == p % Wrap

-----------------------------------------------------------------------------
\* Frame::init: only the first nframes flags are zeroed; the others are
\* whatever the memory under the flag array held.
Init ==
  /\ \E junk \in [{f \in Frame : f >= Cleared} -> BOOLEAN] :
       frames = [f \in Frame |-> IF f < Cleared THEN FALSE ELSE junk[f]]
  /\ latest_frame = 0
  /\ ret = [op |-> "init", frame |-> NULL, len |-> 0]
  /\ holders = [f \in Frame |-> 0]
  /\ heads = {}

\* The caller of a call that returned frame p now holds p .. p+n-1.
Hand(p, n) ==
  /\ holders' = [f \in Frame |-> IF f \in p .. p + n - 1
                                   THEN holders[f] + 1 ELSE holders[f]]
  /\ \A f \in Frame : holders'[f] <= MaxHolders

\* alloc's loop stops at f: everything it passed is used, f is not.
SearchStopsAt(f) ==
  /\ \A g \in latest_frame .. f - 1 : frames[g]
  /\ f < Available => ~frames[f]

AllocNull ==
  /\ SearchStopsAt(Available)
  /\ latest_frame' = Available
  /\ ret' = [op |-> "alloc", frame |-> NULL, len |-> 1]
  /\ UNCHANGED <<frames, holders, heads>>

AllocFrame(f) ==
  /\ SearchStopsAt(f)
  /\ frames' = [frames EXCEPT ![f] = TRUE]
  /\ latest_frame' = f + 1
  /\ ret' = [op |-> "alloc", frame |-> FrameAddr(f), len |-> 1]
  /\ Hand(FrameAddr(f), 1)
  /\ UNCHANGED heads

alloc == AllocNull \/ \E f \in latest_frame .. Available - 1 : AllocFrame(f)

\* Mutant: the branch for a used frame is missing.
RunAtNoRestart(s, n) == s = latest_frame /\ s + n <= Available

\* Mutant: the loop stops one frame early.
RunAtShort(s, n) ==
  /\ s + n < Available
  /\ s = latest_frame \/ frames[s]
  /\ \A f \in s + 1 .. s + n - 1 : ~frames[f]

\* The loop of allocs has start_frame = s and frame_count = n after looking
\* at frame s+n-1.  start_frame is latest_frame or the last USED frame seen
\* (which the loop counts as the run's first), and all after it are free.
RunAt(s, n) ==
  /\ s + n <= Available
  /\ s = latest_frame \/ frames[s]
  /\ \A f \in s + 1 .. s + n - 1 : ~frames[f]

\* The loop breaks at the first such s.
ScanStopsAt(s, n) ==
  /\ RunAt(s, n)
  /\ \A r \in latest_frame .. s - 1 : ~RunAt(r, n)

\* Mutant: the search index stays where it is.
AfterAllocsStays == latest_frame

\* Mutant: one frame too many is passed over.
AfterAllocsFar == latest_frame + 2

\* latest_frame moves by one frame whatever the length of the run.
AfterAllocs == latest_frame + 1

AllocsNull(n) ==
  /\ \A s \in latest_frame .. Available - 1 : ~RunAt(s, n)
  /\ ret' = [op |-> "allocs", frame |-> NULL, len |-> n]
  /\ UNCHANGED <<frames, latest_frame, holders, heads>>

AllocsRun(s, n) ==
  /\ ScanStopsAt(s, n)
  /\ frames' = [f \in Frame |-> frames[f] \/ f \in s .. s + n - 1]
  /\ latest_frame' = AfterAllocs
  /\ ret' = [op |-> "allocs", frame |-> FrameAddr(s), len |-> n]
  /\ Hand(FrameAddr(s), n)
  /\ heads' = heads \cup {FrameAddr(s)}

allocs(n) ==
  AllocsNull(n) \/ \E s \in latest_frame .. Available - 1 : AllocsRun(s, n)

\* free takes back one frame; p is a frame its caller holds.
free(p) ==
  /\ holders[p] > 0
  /\ frames' = [frames EXCEPT ![FrameNumber(p)] = FALSE]
  /\ latest_frame' = FrameNumber(p)
  /\ ret' = [op |-> "free", frame |-> p, len |-> 1]
  /\ holders' = [holders EXCEPT ![p] = @ - 1]
  /\ UNCHANGED heads

Allocate == alloc \/ \E n \in RunLengths : allocs(n)

Next == Allocate \/ \E p \in Frame : free(p)

Spec == Init /\ [][Next]_vars

\* The kernel as it is built: nothing in it calls Frame::free.
BootSpec == Init /\ [][Allocate]_vars

-----------------------------------------------------------------------------
\* The search index stays inside the flag array or one past its end, so no
\* call of alloc or allocs reads a flag outside it.
TypeOK ==
  /\ frames \in [Frame -> BOOLEAN]
  /\ latest_frame \in 0 .. Available
  /\ ret \in [op : {"init", "alloc", "allocs", "free"},
              frame : Frame \cup {NULL}, len : Nat]
  /\ holders \in [Frame -> Nat]
  /\ heads \subseteq Frame

\* A frame that two callers hold at the same time is always the first frame of
\* a run returned by allocs: that frame is the only way the allocator gives
\* away what it has given away already, free included.
SharedOnlyAtRunStart ==
  \A f \in Frame : holders[f] > 1 => f \in heads

\* A frame its holder has not freed is marked used, unless it was a run's
\* first frame, which another holder may have freed.
HeldIsMarked ==
  \A f \in Frame : holders[f] > 0 /\ f \notin heads => frames[f]

\* As long as nothing is freed, alloc returns nullptr only when every frame
\* is used: the search index never passes a free frame.
NullMeansFull ==
  ret.op = "alloc" /\ ret.frame = NULL => \A f \in Frame : frames[f]

\* Wherever a run of n free frames lies at or after latest_frame, the scan of
\* allocs(n) finds a run: nullptr is never returned while there is room.
RoomMeansFound ==
  \A n \in RunLengths :
    (\E s \in latest_frame .. Available - n :
        \A f \in s .. s + n - 1 : ~frames[f])
      => \E s \in latest_frame .. Available - 1 : ScanStopsAt(s, n)

\* frames.cc:26, "find adjacent free frames": a frame that a call hands out
\* was free when the call was made.
HandedOutWasFree ==
  [][\A f \in Frame : holders'[f] > holders[f] => ~frames[f]]_vars

=============================================================================
