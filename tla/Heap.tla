-------------------------------- MODULE Heap --------------------------------
(***************************************************************************)
(* The kernel heap of memory/heap.rs: a first-fit free list, sorted by     *)
(* address, that splits on allocation and coalesces on free.               *)
(*                                                                         *)
(* Block headers live in the heap itself, in front of every block, so they *)
(* are memory: `size` and `next` hold what the two header words would read *)
(* at every aligned address, and the owner of a block overwrites the ones  *)
(* inside its payload.  The loops of allocate and insert_free are one step *)
(* per iteration, with the locals `prev` and `current` as variables.       *)
(*                                                                         *)
(* Callers keep the GlobalAlloc contract: they free only what they hold.   *)
(* The counter `allocations`, which nothing reads, is left out.            *)
(***************************************************************************)
EXTENDS Integers, FiniteSets

CONSTANTS
  ALIGN, HEADER_SIZE,
  HEAP_START,   \* what frame::allocate_contiguous returned
  HEAP_SIZE,
  USIZE_MAX,
  Sizes,        \* layout.size() of the requests
  Aligns,       \* layout.align() of the requests
  Junk          \* what owners write where a size used to be

ASSUME HeapAssumption ==
  /\ ALIGN \in Nat \ {0} /\ HEADER_SIZE \in Nat \ {0}
  /\ HEAP_START \in Nat \ {0} /\ HEAP_SIZE \in Nat
  /\ HEADER_SIZE <= HEAP_SIZE
  /\ HEADER_SIZE % ALIGN = 0 /\ HEAP_SIZE % ALIGN = 0 /\ HEAP_START % ALIGN = 0
  /\ USIZE_MAX \in Nat
  /\ HEAP_START + HEAP_SIZE <= USIZE_MAX
  /\ Sizes \subseteq Nat /\ Aligns \subseteq Nat /\ Junk \subseteq Nat

null == 0
END == HEAP_START + HEAP_SIZE

\* The addresses a header can be at.
Starts == {HEAP_START + i * ALIGN : i \in 0 .. (HEAP_SIZE \div ALIGN) - 1}

\* align_up and aligned_block_size, with None as -1.  `x & !mask` rounds down.
None == -1
\* Mutant: plain `+` instead of checked_add.
align_up_wraps(value, align) ==
  LET sum == (value + align - 1) % (USIZE_MAX + 1) IN sum - (sum % align)

align_up(value, align) ==
  LET mask == align - 1 IN
  IF value + mask > USIZE_MAX THEN None
                              ELSE value + mask - ((value + mask) % align)

aligned_block_size(payload) ==
  LET without_header == align_up(payload, ALIGN) IN
  IF without_header = None \/ without_header + HEADER_SIZE > USIZE_MAX
    THEN None
    ELSE align_up(without_header + HEADER_SIZE, ALIGN)

VARIABLES
  heap_start, heap_end, free_list, used,   \* struct Heap
  size, next,                              \* header words in memory
  pc, request, prev, current, needed, block,  \* the call in progress and its locals
  live,                                    \* blocks in the hands of callers
  asked                                    \* bytes their owners asked for

locals == <<request, prev, current, needed, block>>
vars == <<heap_start, heap_end, free_list, used, size, next, pc, locals, live, asked>>

is_ready == heap_end > heap_start

\* Heap::empty, and memory as the machine left it.
Init ==
  /\ heap_start = 1 /\ heap_end = 1 /\ free_list = null /\ used = 0
  /\ size = [a \in Starts |-> 0] /\ next = [a \in Starts |-> null]
  /\ pc = "idle" /\ request = 0 /\ prev = null /\ current = null /\ needed = 0 /\ block = null
  /\ live = {} /\ asked = [a \in Starts |-> 0]

\* init, and Heap::init: the whole heap becomes one hole.
init ==
  /\ pc = "idle" /\ ~is_ready
  /\ size' = [size EXCEPT ![HEAP_START] = HEAP_SIZE]
  /\ next' = [next EXCEPT ![HEAP_START] = null]
  /\ heap_start' = HEAP_START /\ heap_end' = END
  /\ free_list' = HEAP_START /\ used' = 0
  /\ UNCHANGED <<pc, locals, live, asked>>

Return ==
  /\ pc' = "idle" /\ request' = 0
  /\ prev' = null /\ current' = null /\ needed' = 0 /\ block' = null

\* allocate's early returns: nothing changes and the caller gets null.
Refused(bytes, align) ==
  ~is_ready \/ bytes = 0 \/ align > ALIGN \/ aligned_block_size(bytes) = None

AllocateRefused(bytes, align) == pc = "idle" /\ Refused(bytes, align) /\ UNCHANGED vars

AllocateCall(bytes, align) ==
  /\ pc = "idle" /\ ~Refused(bytes, align)
  /\ pc' = "allocate" /\ request' = bytes /\ needed' = aligned_block_size(bytes)
  /\ prev' = null /\ current' = free_list
  /\ UNCHANGED <<heap_start, heap_end, free_list, used, size, next, block, live, asked>>

\* Mutant: off by one at an exact fit.
FitsStrictly(b) == size[b] > needed

Fits(b) == size[b] >= needed

AllocateWalk ==
  /\ pc = "allocate" /\ current # null /\ ~Fits(current)
  /\ prev' = current /\ current' = next[current]
  /\ UNCHANGED <<heap_start, heap_end, free_list, used, size, next, pc, request, needed,
                 block, live, asked>>

\* Mutant: the last hole is taken whole and stays the head of the list.
head_kept_if_last(new_next) == IF prev # null \/ new_next = null THEN free_list ELSE new_next

\* unlink: the list's head once `current`, after `prev`, is replaced by new_next.
unlinked_head(new_next) == IF prev = null THEN new_next ELSE free_list

\* First fit: split the tail off when it can hold a header, then unlink.
AllocateTake ==
  /\ pc = "allocate" /\ current # null /\ Fits(current)
  /\ LET remaining == size[current] - needed
         splits    == remaining >= HEADER_SIZE
         split     == current + needed
         new_next  == IF splits THEN split ELSE next[current]
         total     == IF splits THEN needed ELSE needed + remaining
         carved_size == IF splits THEN [size EXCEPT ![split] = remaining] ELSE size
         carved_next == IF splits THEN [next EXCEPT ![split] = next[current]] ELSE next
         unlinked    == IF prev = null THEN carved_next
                                       ELSE [carved_next EXCEPT ![prev] = new_next]
     IN  /\ free_list' = unlinked_head(new_next)
         /\ size' = [carved_size EXCEPT ![current] = total]
         /\ next' = [unlinked EXCEPT ![current] = null]
         /\ used' = used + total
  /\ live' = live \cup {current}
  /\ asked' = [asked EXCEPT ![current] = request]
  /\ Return
  /\ UNCHANGED <<heap_start, heap_end>>

\* The list is exhausted: the caller gets null.
AllocateFails ==
  /\ pc = "allocate" /\ current = null
  /\ Return
  /\ UNCHANGED <<heap_start, heap_end, free_list, used, size, next, live, asked>>

saturating_sub(x, y) == IF x >= y THEN x - y ELSE 0

\* What deallocate reads from the header in front of the pointer.
freed(b) == size[b]

\* deallocate, up to the call of insert_free, and insert_free's first writes.
Deallocate(b) ==
  /\ pc = "idle" /\ b \in live
  /\ live' = live \ {b}
  /\ asked' = [asked EXCEPT ![b] = 0]
  /\ IF ~is_ready \/ b < heap_start \/ b >= heap_end
        \/ size[b] < HEADER_SIZE \/ b + size[b] > heap_end
       THEN UNCHANGED <<used, next, pc, prev, current, block>>
       ELSE /\ used' = saturating_sub(used, freed(b))
            /\ next' = [next EXCEPT ![b] = null]
            /\ pc' = "insert" /\ block' = b
            /\ prev' = null /\ current' = free_list
  /\ UNCHANGED <<heap_start, heap_end, free_list, size, request, needed>>

InsertWalk ==
  /\ pc = "insert" /\ current # null /\ current < block
  /\ prev' = current /\ current' = next[current]
  /\ UNCHANGED <<heap_start, heap_end, free_list, used, size, next, pc, request, needed,
                 block, live, asked>>

\* Mutant: the size is absorbed, the link is not.
MergeSizeOnly(h, left, right) ==
  IF left # null /\ right # null /\ left + h.size[left] = right
    THEN [h EXCEPT !.size[left] = @ + h.size[right]]
    ELSE h

\* Mutant: the payload is taken for the block, so touching blocks are missed.
MergePayload(h, left, right) ==
  IF left # null /\ right # null /\ left + HEADER_SIZE + h.size[left] = right
    THEN [size |-> [h.size EXCEPT ![left] = @ + h.size[right]],
          next |-> [h.next EXCEPT ![left] = h.next[right]]]
    ELSE h

\* Absorb `right` into `left` when they touch; h is the pair of header words.
Merge(h, left, right) ==
  IF left # null /\ right # null /\ left + h.size[left] = right
    THEN [size |-> [h.size EXCEPT ![left] = @ + h.size[right]],
          next |-> [h.next EXCEPT ![left] = h.next[right]]]
    ELSE h

\* Splice the block in between prev and current, then merge both ways.
InsertSplice ==
  /\ pc = "insert" /\ (current = null \/ current >= block)
  /\ LET linked == [next EXCEPT ![block] = current]
         spliced == IF prev = null THEN linked ELSE [linked EXCEPT ![prev] = block]
         forward == Merge([size |-> size, next |-> spliced], block, current)
         both    == Merge(forward, prev, block)
     IN  size' = both.size /\ next' = both.next
  /\ free_list' = IF prev = null THEN block ELSE free_list
  /\ Return
  /\ UNCHANGED <<heap_start, heap_end, used, live, asked>>

\* The owner of a block writes its payload, over any old header in there.
OwnerWrites(b, junk) ==
  /\ pc = "idle" /\ b \in live
  /\ size' = [a \in Starts |-> IF b < a /\ a < b + size[b] THEN junk ELSE size[a]]
  /\ next' = [a \in Starts |-> IF b < a /\ a < b + size[b] THEN a ELSE next[a]]
  /\ UNCHANGED <<heap_start, heap_end, free_list, used, pc, locals, live, asked>>

Step == AllocateWalk \/ AllocateTake \/ AllocateFails \/ InsertWalk \/ InsertSplice

Next ==
  \/ init
  \/ \E bytes \in Sizes, align \in Aligns :
        AllocateRefused(bytes, align) \/ AllocateCall(bytes, align)
  \/ \E b \in Starts : Deallocate(b)
  \/ \E b \in Starts, junk \in Junk : OwnerWrites(b, junk)
  \/ Step

Spec == Init /\ [][Next]_vars

\* A call runs on the CPU until it returns: no lock is held by anyone else.
FairSpec == Spec /\ WF_vars(Step)
-----------------------------------------------------------------------------
\* The free list as it is linked: what every set closed under `next` holds.
Closed(S) == /\ free_list # null => free_list \in S
             /\ \A a \in S : next[a] # null => next[a] \in S
Holes == {a \in Starts : \A S \in SUBSET Starts : Closed(S) => a \in S}

\* Every block: the holes, the live ones, and the one being inserted.
Blocks == Holes \cup live \cup (IF pc = "insert" THEN {block} ELSE {})
Within(a, b) == b <= a /\ a < b + size[b]

(***************************************************************************)
(* Every byte of the heap belongs to exactly one block, a hole or a live   *)
(* one, whatever has been split, merged and overwritten since init: no     *)
(* byte is handed out twice, and none is lost to both lists.               *)
(***************************************************************************)
BlocksTile ==
  is_ready =>
    LET blocks == Blocks IN
    /\ Holes \cap live = {}
    /\ \A b \in blocks : b + size[b] <= heap_end
    /\ \A a \in heap_start .. heap_end - 1 :
          \E b \in blocks : Within(a, b) /\ \A c \in blocks : Within(a, c) => c = b

(***************************************************************************)
(* The free list is sorted by address and two holes never touch, so every  *)
(* free has merged with both neighbours (insert_free), and a heap with     *)
(* nothing live is one hole again.                                         *)
(***************************************************************************)
HolesStayApart ==
  \A h \in Holes : next[h] # null => h + size[h] < next[h]

(***************************************************************************)
(* allocate reaches the end of the list, and returns null, only when no    *)
(* hole of the heap is large enough.                                       *)
(***************************************************************************)
NullOnlyWhenNothingFits ==
  pc = "allocate" /\ current = null => \A h \in Holes : size[h] < needed

\* The bytes in the hands of callers, headers included.
LiveBytes == {a \in HEAP_START .. END - 1 : \E b \in live : Within(a, b)}

(***************************************************************************)
(* A block is never smaller than what its owner asked for plus the header, *)
(* so the rounding of aligned_block_size never wraps past usize, and       *)
(* `used` counts the bytes of the blocks in the hands of callers.          *)
(***************************************************************************)
LiveIsAccounted ==
  /\ \A b \in live : asked[b] > 0 /\ size[b] >= asked[b] + HEADER_SIZE
  /\ used = Cardinality(LiveBytes)

\* The header words at these addresses read the same before and after a step.
Kept(S) == \A a \in S : size'[a] = size[a] /\ next'[a] = next[a]
Payload(b) == {a \in Starts : b < a /\ a < b + size[b]}

(***************************************************************************)
(* The heap never writes into a block a caller holds: no split, unlink,    *)
(* insertion or merge, and no write of another block's owner, changes its  *)
(* payload or the size in front of it.                                     *)
(***************************************************************************)
PayloadsAreKept ==
  [][\A b \in live \cap live' :
       /\ size'[b] = size[b]
       /\ Kept(Payload(b)) \/ \E junk \in Junk : OwnerWrites(b, junk)]_vars

(***************************************************************************)
(* Every call returns: the walks of allocate and insert_free never meet a  *)
(* cycle in the free list.                                                 *)
(***************************************************************************)
CallsReturn == pc # "idle" ~> pc = "idle"

(***************************************************************************)
(* Why they return: each turn of either walk goes on at a hole further up  *)
(* in the heap, or at the end of the list, so that a call takes no more    *)
(* turns than the heap has places for a header, whatever the owners have   *)
(* written over old ones.                                                  *)
(***************************************************************************)
WalksGoForward ==
  [][pc # "idle" /\ pc' # "idle" =>
       current # null /\ (current' = null \/ (current < current' /\ current' < heap_end))]_vars
=============================================================================
