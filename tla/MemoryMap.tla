----------------------------- MODULE MemoryMap ------------------------------
(***************************************************************************)
(* From the firmware's memory map to the pool of frames: detect_memory in  *)
(* boot.asm walks the BIOS's E820 map into the handoff block, map::load    *)
(* reads the block, and FrameAllocator::new turns the usable regions into  *)
(* frame ranges and the kernel's own memory into reservations.             *)
(*                                                                         *)
(* Byte addresses are scaled down: FRAME_SIZE, the 32-bit frame limit and  *)
(* the 64-bit address limit are constants.  The BIOS is external: it has a *)
(* map, and tells it one entry per call.                                   *)
(***************************************************************************)
EXTENDS Integers, Sequences, FiniteSets

CONSTANTS
  FRAME_SIZE,
  MAX_FRAME_INDEX,  \* frames the CPU can address
  U64_MAX,          \* the largest 64-bit address
  MAX_ENTRIES,      \* entries the handoff block has room for
  Reserved,         \* byte ranges the kernel keeps: low memory, boot sector, image, ROM
  BiosMaps          \* the firmware maps to boot with

ASSUME MapAssumption ==
  /\ FRAME_SIZE \in Nat \ {0} /\ MAX_FRAME_INDEX \in Nat /\ MAX_ENTRIES \in Nat \ {0}
  /\ U64_MAX \in Nat /\ MAX_FRAME_INDEX * FRAME_SIZE <= U64_MAX
  /\ \A r \in Reserved : r.start \in Nat /\ r.end \in Nat /\ r.start < r.end

Usable == 1       \* RegionKind::Usable's raw number
Unwritten == -1   \* a 20-byte entry: the firmware leaves the attributes alone

Entries == [base : 0 .. U64_MAX, length : 0 .. U64_MAX, kind : Nat, attributes : Nat \cup {Unwritten}]

ASSUME BiosAssumption == BiosMaps \subseteq Seq(Entries)

VARIABLES
  bios,       \* the firmware's map, entries in the order it tells them
  ending,     \* how its walk ends: "zero" continuation, "carry", or "none": no service
  step,       \* "detect", "load", "entries", "new", "regions", "count" or "done"
  asked,      \* INT 15h calls answered so far
  block,      \* the handoff block
  map,        \* struct MemoryMap
  pool,       \* struct FrameAllocator, as far as new fills it in
  index       \* turns taken of the loop that runs: over entries, regions or ranges

vars == <<bios, ending, step, asked, block, map, pool, index>>

empty_map == [regions |-> <<>>, reported |-> 0, available |-> FALSE]

\* What low memory holds before the boot sector runs is unknown.
Init ==
  /\ bios \in BiosMaps
  /\ ending \in IF bios = <<>> THEN {"none", "carry"} ELSE {"zero", "carry"}
  /\ step = "detect" /\ asked = 0
  /\ block = [signature |-> FALSE, count |-> 0, entries |-> <<>>]
  /\ map = empty_map
  /\ pool = [regions |-> <<>>, reservations |-> {}, cursor_frame |-> 0, total |-> 0]
  /\ index = 0

Carry == asked = Len(bios)
LastEntry == ending = "zero" /\ asked + 1 = Len(bios)

\* .next_entry: the attributes are preset, so an entry that lacks them keeps 1.
Stored(entry) == [entry EXCEPT !.attributes = IF @ = Unwritten THEN 1 ELSE @]

detect_entry ==
  /\ step = "detect" /\ ~Carry
  /\ asked' = asked + 1
  /\ block' = [signature |-> TRUE, count |-> asked + 1,
               entries |-> Append(block.entries, Stored(bios[asked + 1]))]
  /\ step' = IF LastEntry \/ asked + 1 = MAX_ENTRIES THEN "load" ELSE "detect"
  /\ UNCHANGED <<bios, ending, map, pool, index>>

\* INT 15h returns carry, or something other than 'SMAP'.
detect_carry ==
  /\ step = "detect" /\ Carry
  /\ block' = [block EXCEPT !.signature = TRUE]
  /\ step' = "load"
  /\ UNCHANGED <<bios, ending, asked, map, pool, index>>

min(x, y) == IF x < y THEN x ELSE y
max(x, y) == IF x < y THEN y ELSE x

saturating_add(x, y) == min(x + y, U64_MAX)

\* load, up to its loop.
load_header ==
  /\ step = "load"
  /\ IF block.signature
       THEN /\ map' = [map EXCEPT !.available = TRUE, !.reported = block.count]
            /\ step' = "entries"
       ELSE /\ step' = "new"
            /\ UNCHANGED map
  /\ index' = 0
  /\ UNCHANGED <<bios, ending, asked, block, pool>>

\* The entries load keeps, as regions.
Kept(entry) == entry.length # 0 /\ entry.attributes % 2 = 1
Region(entry) == [base |-> entry.base, length |-> entry.length, kind |-> entry.kind]

\* A turn of load's loop, or its end.
load_entry ==
  /\ step = "entries"
  /\ IF index < min(map.reported, MAX_ENTRIES)
       THEN /\ LET entry == block.entries[index + 1]
               IN  map' = IF Kept(entry) THEN [map EXCEPT !.regions = Append(@, Region(entry))]
                          ELSE map
            /\ index' = index + 1
            /\ UNCHANGED step
       ELSE /\ step' = "new"
            /\ UNCHANGED <<map, index>>
  /\ UNCHANGED <<bios, ending, asked, block, pool>>

load == load_header \/ load_entry

end(region) == saturating_add(region.base, region.length)
is_usable(region) == region.kind = Usable

index_floor(address) == min(address \div FRAME_SIZE, MAX_FRAME_INDEX)
index_ceil(address) == index_floor(saturating_add(address, FRAME_SIZE - 1))

inside(start, stop) ==
  LET first == index_ceil(start) IN [start |-> first, end |-> max(index_floor(stop), first)]

covering(start, stop) == [start |-> index_floor(start), end |-> index_ceil(stop)]

contains(range, f) == range.start <= f /\ f < range.end
is_empty(range) == range.start >= range.end
is_reserved(reservations, f) == \E r \in reservations : contains(r, f)

\* Mutant: empty ranges are kept.
keeps_all(range) == TRUE

keeps(range) == ~is_empty(range)

\* new, up to its loop: each range of Reserved is reserved.
reserve ==
  /\ step = "new"
  /\ pool' = [pool EXCEPT !.reservations = {covering(r.start, r.end) : r \in Reserved}]
  /\ step' = "regions" /\ index' = 0
  /\ UNCHANGED <<bios, ending, asked, block, map>>

range_of(region) == inside(region.base, end(region))

\* A turn of new's loop, which stops at MAX_REGIONS, as many as the block's
\* entries; then the cursor is put on the first range.
new_region ==
  /\ step = "regions"
  /\ IF index < Len(map.regions) /\ Len(pool.regions) # MAX_ENTRIES
       THEN /\ LET region == map.regions[index + 1]
               IN  pool' = IF is_usable(region) /\ keeps(range_of(region))
                             THEN [pool EXCEPT !.regions = Append(@, range_of(region))]
                             ELSE pool
            /\ index' = index + 1
            /\ UNCHANGED step
       ELSE /\ pool' = IF pool.regions = <<>> THEN pool
                       ELSE [pool EXCEPT !.cursor_frame = pool.regions[1].start]
            /\ step' = "count" /\ index' = 0
  /\ UNCHANGED <<bios, ending, asked, block, map>>

Allocatable(range) == {f \in range.start .. range.end - 1 : ~is_reserved(pool.reservations, f)}

\* A turn of its outer loop: region by region, so a frame of two regions
\* counts twice.
count_allocatable ==
  /\ step = "count"
  /\ IF index < Len(pool.regions)
       THEN /\ pool' = [pool EXCEPT !.total = @ + Cardinality(Allocatable(pool.regions[index + 1]))]
            /\ index' = index + 1
            /\ UNCHANGED step
       ELSE /\ step' = "done"
            /\ UNCHANGED <<pool, index>>
  /\ UNCHANGED <<bios, ending, asked, block, map>>

new == reserve \/ new_region \/ count_allocatable

-----------------------------------------------------------------------------
\* What the firmware told, before the block ran out of room, that a reader of
\* the ACPI rules would call usable.
Told == {bios[i] : i \in 1 .. asked}
Valid(entry) == entry.kind = Usable /\ (entry.attributes = Unwritten \/ entry.attributes % 2 = 1)
Covers(entry, byte) == entry.base <= byte /\ byte < entry.base + entry.length

Frame(f) == f * FRAME_SIZE .. (f + 1) * FRAME_SIZE - 1
Pool == {f \in 0 .. MAX_FRAME_INDEX :
            /\ \E i \in 1 .. Len(pool.regions) : contains(pool.regions[i], f)
            /\ ~is_reserved(pool.reservations, f)}

Disjoint == \A i, j \in 1 .. asked :
              i # j => \A byte \in 0 .. U64_MAX : ~(Covers(bios[i], byte) /\ Covers(bios[j], byte))

(***************************************************************************)
(* The pool is exactly the frames a byte-by-byte reading of the firmware's *)
(* map allows: every byte in one usable region, none of them reserved, all *)
(* below the 32-bit limit.  No rounding, preset attribute, saturated end   *)
(* or empty range on the way from detect_memory to FrameAllocator::new     *)
(* lets a wrong frame in or loses a right one.                             *)
(***************************************************************************)
PoolIsExact ==
  step = "done" =>
    Pool = {f \in 0 .. MAX_FRAME_INDEX - 1 :
              /\ \E e \in Told : Valid(e) /\ \A byte \in Frame(f) : Covers(e, byte)
              /\ \A r \in Reserved, byte \in Frame(f) : ~(r.start <= byte /\ byte < r.end)}

(***************************************************************************)
(* The ranges are what the allocator is built on: none empty, none past    *)
(* the limit, the cursor at the first; and when the firmware's regions are *)
(* disjoint so are they (FrameAllocator's RegionsAssumption), and `total`  *)
(* is the size of the pool.                                                *)
(***************************************************************************)
RegionsAreSound ==
  step = "done" =>
    /\ \A i \in 1 .. Len(pool.regions) : /\ pool.regions[i].start < pool.regions[i].end
                                         /\ pool.regions[i].end <= MAX_FRAME_INDEX
    /\ Len(pool.regions) > 0 => pool.cursor_frame = pool.regions[1].start
    /\ Disjoint =>
         /\ pool.total = Cardinality(Pool)
         /\ \A i, j \in 1 .. Len(pool.regions) : i # j =>
              \A f \in 0 .. MAX_FRAME_INDEX :
                ~(contains(pool.regions[i], f) /\ contains(pool.regions[j], f))

(***************************************************************************)
(* FrameAllocator::new starts from the right frames, in the right form.    *)
(***************************************************************************)
PoolIsSound == PoolIsExact /\ RegionsAreSound
=============================================================================
