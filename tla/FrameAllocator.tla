--------------------------- MODULE FrameAllocator ---------------------------
(***************************************************************************)
(* The physical frame allocator of memory/frame.rs: a bump cursor over the *)
(* usable regions, with an intrusive free list in front of it.             *)
(*                                                                         *)
(* The free list lives in the frames themselves: the first four bytes of a *)
(* free frame hold the index of the next one.  Those bytes are modelled by *)
(* `link`, for every frame, because the owner of a frame overwrites them.  *)
(*                                                                         *)
(* The pool handed to the allocator (regions and reservations, in frame    *)
(* indices) is a parameter; module MemoryMap computes it from what the     *)
(* firmware reports, the way FrameAllocator::new does.                     *)
(***************************************************************************)
EXTENDS Integers, Sequences, FiniteSets

CONSTANTS
  MAX_FRAME_INDEX,  \* one past the last frame index
  NO_FRAME,         \* the end-of-list sentinel, not a frame index
  regions,          \* the usable regions, a sequence of [start, end) ranges
  reservations,     \* the set of reserved [start, end) ranges
  RunLengths,       \* lengths callers ask allocate_contiguous for
  Memory0,          \* first word of every frame as the machine left it
  Data              \* words that owners write into their frames

Frames == 0 .. MAX_FRAME_INDEX - 1
Word == Frames \cup {NO_FRAME}
FrameRange == [start : Nat, end : Nat]
contains(range, index) == range.start <= index /\ index < range.end

is_reserved(index) == \E r \in reservations : contains(r, index)

\* region_of: the region that holds a frame.  Under RegionsAssumption at most
\* one does, so "the first" that the code's position() finds is "the" one.
InRegion(index, r) == r \in 1 .. Len(regions) /\ contains(regions[r], index)

\* The frames the allocator may hand out.
Managed(index) == (\E r \in 1 .. Len(regions) : InRegion(index, r)) /\ ~is_reserved(index)
Pool == {f \in Frames : Managed(f)}

ASSUME FrameAssumption ==
  /\ MAX_FRAME_INDEX \in Nat
  /\ NO_FRAME \notin Frames
  /\ RunLengths \subseteq Nat
  /\ Memory0 \in [Frames -> Word]
  /\ Data \subseteq Word

\* FrameAllocator::new keeps only non-empty ranges below MAX_FRAME_INDEX.
\* That usable regions do not overlap is the firmware's promise, not the code's.
ASSUME RegionsAssumption ==
  /\ regions \in Seq(FrameRange)
  /\ \A r \in 1 .. Len(regions) : /\ regions[r].start < regions[r].end
                                  /\ regions[r].end <= MAX_FRAME_INDEX
  /\ \A q, r \in 1 .. Len(regions) :
        q # r => \A f \in Frames : ~(contains(regions[q], f) /\ contains(regions[r], f))
  /\ reservations \subseteq FrameRange

VARIABLES
  cursor_region,  \* region the bump cursor is in, 1-based; Len(regions) + 1 when exhausted
  cursor_frame,   \* next frame it will consider
  free_list,      \* head of the free list
  free_count,     \* its length
  in_use,         \* frames handed out, by the allocator's own count
  link,           \* first word of every frame
  owners,         \* history: how many callers hold each frame right now
  ever,           \* history: the frames handed out at least once
  stray           \* history: the frames freed before they were ever handed out

allocator == <<cursor_region, cursor_frame, free_list, free_count, in_use>>
vars == <<allocator, link, owners, ever, stray>>

\* FrameAllocator::new, and memory in whatever state the machine left it.
Init ==
  /\ cursor_region = 1
  /\ cursor_frame = IF regions = << >> THEN 0 ELSE regions[1].start
  /\ free_list = NO_FRAME
  /\ free_count = 0
  /\ in_use = 0
  /\ link = Memory0
  /\ owners = [f \in Frames |-> 0]
  /\ ever = {}
  /\ stray = {}

(***************************************************************************)
(* The bump cursor.                                                        *)
(***************************************************************************)
\* handed_out: the cursor has passed this frame.
handed_out(index) ==
  \E r \in 1 .. Len(regions) :
    /\ InRegion(index, r)
    /\ r < cursor_region \/ (r = cursor_region /\ index < cursor_frame)

\* A run of `count` unreserved frames of region r, starting at s, that the
\* cursor has not passed.
IsRun(r, s, count) ==
  /\ InRegion(s, r)
  /\ r > cursor_region \/ (r = cursor_region /\ s >= cursor_frame)
  /\ s + count <= regions[r].end
  /\ \A f \in s .. s + count - 1 : ~is_reserved(f)

\* The run at which the loops of allocate (count = 1) and allocate_contiguous
\* stop: no other comes before it.  Everything they step over stays behind.
FirstRun(r, s, count) ==
  /\ IsRun(r, s, count)
  /\ \A q \in 1 .. Len(regions), t \in Frames :
        IsRun(q, t, count) => r < q \/ (r = q /\ s <= t)

NoRun(count) == \A r \in 1 .. Len(regions), s \in Frames : ~IsRun(r, s, count)

Grant(run) ==
  /\ owners' = [f \in Frames |-> IF f \in run THEN owners[f] + 1 ELSE owners[f]]
  /\ ever' = ever \cup run

\* Mutant: a run is counted as one frame in use.
BumpCountsOne(count) ==
  \E r \in 1 .. Len(regions), s \in Frames :
    /\ FirstRun(r, s, count)
    /\ cursor_region' = r
    /\ cursor_frame' = s + count
    /\ in_use' = in_use + 1
    /\ Grant(s .. s + count - 1)
    /\ UNCHANGED <<free_list, free_count, link, stray>>

Bump(count) ==
  \E r \in 1 .. Len(regions), s \in Frames :
    /\ FirstRun(r, s, count)
    /\ cursor_region' = r
    /\ cursor_frame' = s + count
    /\ in_use' = in_use + count
    /\ Grant(s .. s + count - 1)
    /\ UNCHANGED <<free_list, free_count, link, stray>>

\* The loop ran off the last region.  cursor_frame is not read again.
Exhaust(count) ==
  /\ NoRun(count)
  /\ cursor_region' = Len(regions) + 1
  /\ UNCHANGED <<cursor_frame, free_list, free_count, in_use, link, owners, ever, stray>>

(***************************************************************************)
(* The free list.                                                          *)
(***************************************************************************)
\* `current` in on_free_list after n turns of its loop.
walk[n \in Nat] ==
  IF n = 0 THEN free_list
  ELSE IF walk[n - 1] \in Frames THEN link[walk[n - 1]] ELSE NO_FRAME

\* Mutant: the walk stops one frame short.
on_free_list_short(index) == \E n \in 0 .. free_count - 2 : walk[n] = index

on_free_list(index) == \E n \in 0 .. free_count - 1 : walk[n] = index

\* Mutant: the head is moved before the link is written from it.
push_free_head_first(index) ==
  /\ link' = [link EXCEPT ![index] = index]
  /\ free_list' = index
  /\ free_count' = free_count + 1

push_free(index) ==
  /\ link' = [link EXCEPT ![index] = free_list]
  /\ free_list' = index
  /\ free_count' = free_count + 1

saturating_pred(n) == IF n = 0 THEN 0 ELSE n - 1

pop_free ==
  /\ free_list # NO_FRAME
  /\ free_list' = link[free_list]
  /\ free_count' = saturating_pred(free_count)

(***************************************************************************)
(* Operations.                                                             *)
(***************************************************************************)
AllocateFromFreeList ==
  /\ pop_free
  /\ in_use' = in_use + 1
  /\ Grant({free_list})
  /\ UNCHANGED <<cursor_region, cursor_frame, link, stray>>

Allocate ==
  \/ AllocateFromFreeList
  \/ free_list = NO_FRAME /\ (Bump(1) \/ Exhaust(1))

\* A count of zero returns before anything changes.
AllocateContiguous(count) == count # 0 /\ (Bump(count) \/ Exhaust(count))

FreeError(index) ==
  IF ~Managed(index) THEN "NotManaged"
  ELSE IF ~handed_out(index) THEN "NeverAllocated"
  ELSE IF on_free_list(index) THEN "AlreadyFree"
  ELSE "Ok"

\* free, called with any frame by anyone.  Refused calls change nothing.
Free(index) ==
  /\ FreeError(index) = "Ok"
  /\ push_free(index)
  /\ in_use' = saturating_pred(in_use)
  /\ owners' = [owners EXCEPT ![index] = saturating_pred(owners[index])]
  /\ stray' = stray \cup ({index} \ ever)
  /\ UNCHANGED <<cursor_region, cursor_frame, ever>>

\* The owner of a frame uses it, overwriting the word a link was kept in.
OwnerWrites(index, word) ==
  /\ owners[index] > 0
  /\ link' = [link EXCEPT ![index] = word]
  /\ UNCHANGED <<allocator, owners, ever, stray>>

Next ==
  \/ Allocate
  \/ \E count \in RunLengths : AllocateContiguous(count)
  \/ \E index \in Frames : Free(index)
  \/ \E index \in Frames, word \in Data : OwnerWrites(index, word)

Spec == Init /\ [][Next]_vars

(***************************************************************************)
(* Properties.                                                             *)
(***************************************************************************)
Owned == {f \in Frames : owners[f] > 0}

\* Every variable stays in its type.
TypeOK ==
  /\ cursor_region \in 1 .. Len(regions) + 1
  /\ cursor_frame \in 0 .. MAX_FRAME_INDEX
  /\ free_list \in Word
  /\ free_count \in Nat
  /\ in_use \in Nat
  /\ link \in [Frames -> Word]
  /\ owners \in [Frames -> Nat]
  /\ ever \subseteq Frames
  /\ stray \subseteq Frames

\* No frame ever has two owners, whatever order frames are allocated, freed,
\* freed again and freed by the wrong caller in (free, pop_free, the cursor).
SingleOwner == \A f \in Frames : owners[f] <= 1

\* What is handed out is usable RAM that no reservation covers, and that the
\* cursor has passed, so that free will take it back.
OwnedIsManaged == \A f \in Owned : Managed(f) /\ handed_out(f)

\* A frame that is handed out belongs to the pool, and to one caller.
OwnersAreSound == SingleOwner /\ OwnedIsManaged

\* The links kept inside free frames always spell out a list of exactly
\* free_count distinct frames, all managed and none of them owned, so no
\* owner's write can reach a link and on_free_list never stops short.
FreeListSound ==
  /\ walk[free_count] = NO_FRAME
  /\ \A n \in 0 .. free_count - 1 :
       /\ walk[n] \in Pool \ Owned
       /\ handed_out(walk[n])
       /\ \A m \in 0 .. n - 1 : walk[m] # walk[n]

\* As long as no one has freed a frame that was never handed out, the count of
\* frames in use is the number of frames owned, and every frame ever handed out
\* is either owned or on the free list: free and allocate leak nothing, double
\* frees included.
Accounting ==
  stray = {} =>
    /\ in_use = Cardinality(Owned)
    /\ ever = Owned \cup {walk[n] : n \in 0 .. free_count - 1}

\* "The bump cursor only ever moves forward": a frame that has been passed
\* stays passed, so `NeverAllocated` is never reported for a frame in use.
CursorMovesForward == [][\A f \in Frames : handed_out(f) => handed_out(f)']_vars
=============================================================================
