----------------------------- MODULE BootProofs -----------------------------
(***************************************************************************)
(* The boot, for every firmware map, frame size, set of reserved ranges    *)
(* and drive geometry: the pool of frames is exactly the one a byte by     *)
(* byte reading of the map allows, and the kernel is entered only with     *)
(* all of its sectors in place.                                            *)
(***************************************************************************)
EXTENDS Boot, FiniteSetTheorems, TLAPS

\* The provers have half a minute for each leaf that names none itself.
USE SMTT(30), ZenonT(30)

-----------------------------------------------------------------------------
(***************************************************************************)
(* Division, as the shifts and the `div`s of the boot use it.              *)
(***************************************************************************)

\* Quotient and remainder, and where they lie.
LEMMA Division ==
  ASSUME NEW x \in Nat, NEW d \in Nat, d > 0
  PROVE  /\ x \div d \in Nat /\ x % d \in Nat /\ x % d < d
         /\ x = (x \div d) * d + (x % d)
OBVIOUS

\* Multiples are ordered as their factors are.
LEMMA Multiples ==
  ASSUME NEW a \in Nat, NEW b \in Nat, NEW c \in Nat
  PROVE  /\ a <= b => a * c <= b * c
         /\ a < b => a * c + c <= b * c
OBVIOUS

\* A quotient is at least q exactly when q times the divisor fits.
LEMMA QuotientBound ==
  ASSUME NEW x \in Nat, NEW d \in Nat, d > 0, NEW q \in Nat
  PROVE  q <= x \div d <=> q * d <= x
<1> PICK y \in Nat, r \in Nat : y = x \div d /\ r = x % d
  BY Division
<1>1. x = y * d + r /\ r < d
  BY Division
<1>2. ASSUME q <= y PROVE q * d <= x
  BY <1>1, <1>2, Multiples
<1>3. ASSUME y < q PROVE ~(q * d <= x)
  BY <1>1, <1>3, Multiples
<1> QED
  BY <1>2, <1>3

-----------------------------------------------------------------------------
(***************************************************************************)
(* Frames and bytes.                                                       *)
(***************************************************************************)

\* The constants, one fact each.
LEMMA MapConstants ==
  /\ FRAME_SIZE \in Nat /\ FRAME_SIZE > 0 /\ MAX_FRAME_INDEX \in Nat
  /\ MAX_ENTRIES \in Nat /\ U64_MAX \in Nat
  /\ MAX_FRAME_INDEX * FRAME_SIZE <= U64_MAX
BY MapAssumption

\* A frame the CPU can address ends at or below the 64-bit limit.
LEMMA FrameBounds ==
  ASSUME NEW f \in Nat, f < MAX_FRAME_INDEX
  PROVE  /\ f * FRAME_SIZE \in Nat
         /\ (f + 1) * FRAME_SIZE = f * FRAME_SIZE + FRAME_SIZE
         /\ (f + 1) * FRAME_SIZE <= U64_MAX
<1>1. f + 1 \in Nat /\ f + 1 <= MAX_FRAME_INDEX
  BY MapConstants
<1>2. (f + 1) * FRAME_SIZE <= MAX_FRAME_INDEX * FRAME_SIZE
  BY <1>1, MapConstants, Multiples
<1>3. f * FRAME_SIZE \in Nat /\ MAX_FRAME_INDEX * FRAME_SIZE \in Nat
  BY MapConstants
<1>4. (f + 1) * FRAME_SIZE = f * FRAME_SIZE + FRAME_SIZE
  BY MapConstants
<1> QED
  BY <1>2, <1>3, <1>4, MapConstants

\* index_floor is past f when f's end is at or below the address.
LEMMA FloorPasses ==
  ASSUME NEW x \in Nat, NEW f \in Nat
  PROVE  /\ index_floor(x) \in 0 .. MAX_FRAME_INDEX
         /\ f < index_floor(x) <=> f < MAX_FRAME_INDEX /\ (f + 1) * FRAME_SIZE <= x
         /\ f < MAX_FRAME_INDEX => (index_floor(x) <= f <=> x < (f + 1) * FRAME_SIZE)
<1>1. f + 1 <= x \div FRAME_SIZE <=> (f + 1) * FRAME_SIZE <= x
  BY MapConstants, QuotientBound
<1>2. x \div FRAME_SIZE \in Nat /\ (f + 1) * FRAME_SIZE \in Nat
  BY MapConstants, Division
<1> QED
  BY <1>1, <1>2, MapConstants DEF index_floor, min

\* index_ceil is at or below f when the address is at or below f's start.
LEMMA CeilReaches ==
  ASSUME NEW x \in Nat, NEW f \in Nat
  PROVE  /\ index_ceil(x) \in 0 .. MAX_FRAME_INDEX
         /\ f < MAX_FRAME_INDEX => (index_ceil(x) <= f <=> x <= f * FRAME_SIZE)
<1> DEFINE y == saturating_add(x, FRAME_SIZE - 1)
<1>1. y \in Nat /\ (y = x + FRAME_SIZE - 1 \/ (y = U64_MAX /\ U64_MAX < x + FRAME_SIZE - 1))
  BY MapConstants DEF saturating_add, min
<1>2. index_ceil(x) = index_floor(y)
  BY DEF index_ceil
<1> HIDE DEF y
<1>3. index_floor(y) \in 0 .. MAX_FRAME_INDEX
  BY <1>1, FloorPasses
<1>4. ASSUME f < MAX_FRAME_INDEX PROVE index_floor(y) <= f <=> x <= f * FRAME_SIZE
  <2>1. index_floor(y) <= f <=> y < (f + 1) * FRAME_SIZE
    BY <1>1, <1>4, FloorPasses
  <2>2. /\ f * FRAME_SIZE \in Nat
        /\ (f + 1) * FRAME_SIZE = f * FRAME_SIZE + FRAME_SIZE
        /\ (f + 1) * FRAME_SIZE <= U64_MAX
    BY <1>4, FrameBounds
  <2> PICK g \in Nat : g = f * FRAME_SIZE
    BY <2>2
  <2> QED
    BY <1>1, <2>1, <2>2, MapConstants
<1> QED
  BY <1>2, <1>3, <1>4

\* FrameRange::inside: the frames of which every byte is in the range.
LEMMA InsideIsExact ==
  ASSUME NEW start \in Nat, NEW stop \in Nat, NEW f \in Nat
  PROVE  /\ inside(start, stop).start \in 0 .. MAX_FRAME_INDEX
         /\ inside(start, stop).end \in 0 .. MAX_FRAME_INDEX
         /\ contains(inside(start, stop), f)
              <=> f < MAX_FRAME_INDEX /\ start <= f * FRAME_SIZE /\ (f + 1) * FRAME_SIZE <= stop
<1>1. /\ index_ceil(start) \in 0 .. MAX_FRAME_INDEX
      /\ f < MAX_FRAME_INDEX => (index_ceil(start) <= f <=> start <= f * FRAME_SIZE)
  BY CeilReaches
<1>2. /\ index_floor(stop) \in 0 .. MAX_FRAME_INDEX
      /\ f < index_floor(stop) <=> f < MAX_FRAME_INDEX /\ (f + 1) * FRAME_SIZE <= stop
  BY FloorPasses
<1>3. /\ inside(start, stop).start = index_ceil(start)
      /\ inside(start, stop).end = max(index_floor(stop), index_ceil(start))
  BY DEF inside
<1>4. inside(start, stop).end \in 0 .. MAX_FRAME_INDEX
  BY <1>1, <1>2, <1>3, MapConstants DEF max
<1>5. contains(inside(start, stop), f) <=> index_ceil(start) <= f /\ f < index_floor(stop)
  BY <1>1, <1>2, <1>3, MapConstants DEF contains, max
<1> QED
  BY <1>1, <1>2, <1>3, <1>4, <1>5

\* FrameRange::covering: the frames of which some byte is in the range.
LEMMA CoveringIsExact ==
  ASSUME NEW start \in Nat, NEW stop \in Nat, start < stop,
         NEW f \in Nat, f < MAX_FRAME_INDEX
  PROVE  contains(covering(start, stop), f)
           <=> start < (f + 1) * FRAME_SIZE /\ f * FRAME_SIZE < stop
<1>1. /\ index_floor(start) \in 0 .. MAX_FRAME_INDEX
      /\ index_floor(start) <= f <=> start < (f + 1) * FRAME_SIZE
  BY FloorPasses
<1>2. /\ index_ceil(stop) \in 0 .. MAX_FRAME_INDEX
      /\ index_ceil(stop) <= f <=> stop <= f * FRAME_SIZE
  BY CeilReaches
<1>3. f * FRAME_SIZE \in Nat
  BY FrameBounds
<1>4. contains(covering(start, stop), f) <=> index_floor(start) <= f /\ f < index_ceil(stop)
  BY DEF contains, covering
<1> QED
  BY <1>1, <1>2, <1>3, <1>4, MapConstants

Regions == [base : 0 .. U64_MAX, length : 0 .. U64_MAX, kind : Nat]

\* A region becomes the frames of which it covers every byte.
LEMMA RangeBytes ==
  ASSUME NEW r \in Regions, NEW f \in Nat
  PROVE  contains(range_of(r), f)
           <=> f < MAX_FRAME_INDEX /\ \A byte \in Frame(f) : Covers(r, byte)
<1> PICK b \in Nat, n \in Nat : b = r.base /\ n = r.length
  BY MapConstants DEF Regions
<1> DEFINE stop == saturating_add(b, n)
<1>1. stop \in Nat /\ (stop = b + n \/ (stop = U64_MAX /\ U64_MAX < b + n))
  BY MapConstants DEF saturating_add, min
<1>2. range_of(r) = inside(b, stop)
  BY DEF range_of, end
<1> HIDE DEF stop
<1>3. contains(inside(b, stop), f)
        <=> f < MAX_FRAME_INDEX /\ b <= f * FRAME_SIZE /\ (f + 1) * FRAME_SIZE <= stop
  BY <1>1, InsideIsExact
<1>4. ASSUME f < MAX_FRAME_INDEX
      PROVE  b <= f * FRAME_SIZE /\ (f + 1) * FRAME_SIZE <= stop
               <=> \A byte \in Frame(f) : Covers(r, byte)
  <2>1. /\ f * FRAME_SIZE \in Nat
        /\ (f + 1) * FRAME_SIZE = f * FRAME_SIZE + FRAME_SIZE
        /\ (f + 1) * FRAME_SIZE <= U64_MAX
    BY <1>4, FrameBounds
  <2> PICK g \in Nat : g = f * FRAME_SIZE
    BY <2>1
  <2>2. Frame(f) = g .. g + FRAME_SIZE - 1
    <3>1. (f + 1) * FRAME_SIZE = g + FRAME_SIZE
      BY <2>1
    <3> QED
      BY ONLY <3>1, MapConstants, g = f * FRAME_SIZE, SMTT(30) DEF Frame
  <2>3. \A byte \in Frame(f) : Covers(r, byte) <=> b <= byte /\ byte < b + n
    BY DEF Covers
  <2>4. g \in Frame(f) /\ g + FRAME_SIZE - 1 \in Frame(f)
    BY <2>2, MapConstants
  <2>5. (\A byte \in Frame(f) : Covers(r, byte)) => b <= g /\ g + FRAME_SIZE - 1 < b + n
    BY <2>3, <2>4, ZenonT(30)
  <2>6. b <= g /\ g + FRAME_SIZE - 1 < b + n => \A byte \in Frame(f) : Covers(r, byte)
    <3> SUFFICES ASSUME b <= g, g + FRAME_SIZE - 1 < b + n, NEW byte \in g .. g + FRAME_SIZE - 1
                 PROVE  b <= byte /\ byte < b + n
      BY <2>2, <2>3
    <3> QED
      BY MapConstants
  <2>7. (f + 1) * FRAME_SIZE <= stop <=> g + FRAME_SIZE - 1 < b + n
    BY <1>1, <2>1, MapConstants
  <2> QED
    BY <2>5, <2>6, <2>7
<1> QED
  BY <1>2, <1>3, <1>4

\* A reservation keeps the frames that have a byte in it.
LEMMA ReservationBytes ==
  ASSUME NEW r \in Reserved, NEW f \in Nat, f < MAX_FRAME_INDEX
  PROVE  contains(covering(r.start, r.end), f)
           <=> \E byte \in Frame(f) : r.start <= byte /\ byte < r.end
<1> PICK b \in Nat, e \in Nat : b = r.start /\ e = r.end /\ b < e
  BY MapAssumption
<1>1. contains(covering(b, e), f) <=> b < (f + 1) * FRAME_SIZE /\ f * FRAME_SIZE < e
  BY CoveringIsExact
<1>2. f * FRAME_SIZE \in Nat /\ (f + 1) * FRAME_SIZE = f * FRAME_SIZE + FRAME_SIZE
  BY FrameBounds
<1> PICK g \in Nat : g = f * FRAME_SIZE
  BY <1>2
<1>3. Frame(f) = g .. g + FRAME_SIZE - 1
  <2>1. (f + 1) * FRAME_SIZE = g + FRAME_SIZE
    BY <1>2
  <2> QED
    BY ONLY <2>1, MapConstants, g = f * FRAME_SIZE, SMTT(30) DEF Frame
<1>4. ASSUME b < g + FRAME_SIZE, g < e
      PROVE  \E byte \in Frame(f) : b <= byte /\ byte < e
  <2>1. CASE b <= g
    <3>1. g \in Frame(f)
      BY <1>3, MapConstants
    <3> QED
      BY <1>4, <2>1, <3>1
  <2>2. CASE g < b
    <3>1. b \in Frame(f)
      BY <1>3, <1>4, <2>2, MapConstants
    <3> QED
      BY <3>1
  <2> QED
    BY <2>1, <2>2
<1>5. ASSUME NEW byte \in Frame(f), b <= byte, byte < e
      PROVE  b < g + FRAME_SIZE /\ g < e
  BY <1>3, <1>5, MapConstants
<1> QED
  BY <1>1, <1>2, <1>4, <1>5

-----------------------------------------------------------------------------
(***************************************************************************)
(* The inductive invariant of the map's way, one stage after the other.    *)
(***************************************************************************)

Ranges == [start : 0 .. MAX_FRAME_INDEX, end : 0 .. MAX_FRAME_INDEX]
PoolType == [regions : Seq(Ranges), reservations : SUBSET Ranges, cursor_frame : Nat, total : Nat]

StepType ==
  /\ step \in {"detect", "load", "entries", "new", "regions", "count", "done"}
  /\ index \in Nat

\* The block holds the entries told so far, their attributes preset.
BlockInv ==
  /\ bios \in Seq(Entries)
  /\ asked \in 0 .. Len(bios) /\ asked <= MAX_ENTRIES
  /\ step = "detect" => asked < MAX_ENTRIES
  /\ block \in [signature : BOOLEAN, count : Nat, entries : Seq(Entries)]
  /\ step # "detect" => block.signature
  /\ block.count = asked /\ Len(block.entries) = asked
  /\ \A i \in 1 .. asked : block.entries[i] = Stored(bios[i])

\* The entries that load has looked at.
Read == IF step \in {"detect", "load"} THEN 0 ELSE IF step = "entries" THEN index ELSE asked

\* The map holds the entries read that load keeps, and no others.
MapInv ==
  /\ map \in [regions : Seq(Regions), reported : Nat, available : BOOLEAN]
  /\ step = "entries" => map.reported = asked
  /\ Read <= asked
  /\ Len(map.regions) <= Read
  /\ \A i \in 1 .. Len(map.regions) : \E j \in 1 .. Read :
       Kept(block.entries[j]) /\ map.regions[i] = Region(block.entries[j])
  /\ \A j \in 1 .. Read : Kept(block.entries[j]) =>
       \E i \in 1 .. Len(map.regions) : map.regions[i] = Region(block.entries[j])

\* Regions of disjoint entries are disjoint.
ApartInv ==
  Disjoint =>
    \A i, k \in 1 .. Len(map.regions) : i # k =>
      \A byte \in 0 .. U64_MAX : ~(Covers(map.regions[i], byte) /\ Covers(map.regions[k], byte))

\* The regions that new has looked at.
Built ==
  IF step \in {"detect", "load", "entries", "new"} THEN 0
  ELSE IF step = "regions" THEN index ELSE Len(map.regions)

Chosen(region) == is_usable(region) /\ keeps(range_of(region))

\* The pool has the ranges of the usable regions seen, and no others.
PoolInv ==
  /\ pool \in PoolType
  /\ Built <= Len(map.regions)
  /\ Len(pool.regions) <= Built
  /\ step \in {"regions", "count", "done"} =>
       pool.reservations = {covering(r.start, r.end) : r \in Reserved}
  /\ \A i \in 1 .. Len(pool.regions) : \E j \in 1 .. Built :
       Chosen(map.regions[j]) /\ pool.regions[i] = range_of(map.regions[j])
  /\ \A j \in 1 .. Built : Chosen(map.regions[j]) =>
       \E i \in 1 .. Len(pool.regions) : pool.regions[i] = range_of(map.regions[j])

\* Ranges of disjoint entries share no frame.
RangesApart ==
  Disjoint =>
    \A i, k \in 1 .. Len(pool.regions) : i # k =>
      \A f \in Nat : ~(contains(pool.regions[i], f) /\ contains(pool.regions[k], f))

\* The ranges that count_allocatable has counted, and their frames.
Counted == IF step = "count" THEN index ELSE IF step = "done" THEN Len(pool.regions) ELSE 0

PoolOf(n) ==
  {f \in 0 .. MAX_FRAME_INDEX :
     /\ \E i \in 1 .. n : contains(pool.regions[i], f)
     /\ ~is_reserved(pool.reservations, f)}

\* total is what has been counted, the cursor at the first range.
CountInv ==
  /\ Counted <= Len(pool.regions)
  /\ step \in {"count", "done"} /\ Len(pool.regions) > 0 =>
       pool.cursor_frame = pool.regions[1].start
  /\ step \in {"detect", "load", "entries", "new", "regions"} => pool.total = 0
  /\ Disjoint => pool.total = Cardinality(PoolOf(Counted))

MapWay == StepType /\ BlockInv /\ MapInv /\ ApartInv /\ PoolInv /\ RangesApart /\ CountInv

-----------------------------------------------------------------------------
(***************************************************************************)
(* Each step of the boot is a step of the map's way or of the loader, or   *)
(* leaves it alone.                                                        *)
(***************************************************************************)

MapNext == detect_entry \/ detect_carry \/ load_header \/ load_entry
             \/ reserve \/ new_region \/ count_allocatable

\* The map's half of a step.
LEMMA MapMoves ==
  ASSUME [BootNext]_boot_vars
  PROVE  [MapNext]_vars
<1>1. UNCHANGED boot_vars => UNCHANGED vars
  BY DEF boot_vars
<1>2. Rest => UNCHANGED vars
  BY <1>1 DEF Rest
<1>3. LoadKernel => UNCHANGED vars
  BY DEF LoadKernel
<1>4. DetectMemory => MapNext
  BY DEF DetectMemory, MapNext
<1>5. KernelMain => MapNext
  BY DEF KernelMain, MapNext, load, new
<1> QED
  BY <1>1, <1>2, <1>3, <1>4, <1>5 DEF BootNext, Step

\* An entry in the block is an entry, with its base, length and kind as told.
LEMMA StoredEntry ==
  ASSUME NEW e \in Entries
  PROVE  /\ Stored(e) \in Entries
         /\ Stored(e).base = e.base /\ Stored(e).length = e.length /\ Stored(e).kind = e.kind
         /\ Stored(e).attributes = IF e.attributes = Unwritten THEN 1 ELSE e.attributes
         /\ Stored(e).attributes \in Nat
BY DEF Stored, Entries, Unwritten

\* The step and the block.
LEMMA BlockStep ==
  ASSUME StepType, BlockInv, MapInv, [MapNext]_vars
  PROVE  StepType' /\ BlockInv'
<1> USE DEF StepType, BlockInv
<1>1. CASE detect_entry
  <2>1. asked + 1 \in 1 .. Len(bios) /\ asked' = asked + 1 /\ bios' = bios
    BY <1>1 DEF detect_entry, Carry
  <2>2. bios[asked + 1] \in Entries
    BY <2>1
  <2> PICK e \in Entries : e = Stored(bios[asked + 1])
    BY <2>2, StoredEntry
  <2>3. block' = [signature |-> TRUE, count |-> asked + 1, entries |-> Append(block.entries, e)]
    BY <1>1 DEF detect_entry
  <2>4. /\ Append(block.entries, e) \in Seq(Entries)
        /\ Len(Append(block.entries, e)) = asked + 1
        /\ \A i \in 1 .. asked : Append(block.entries, e)[i] = block.entries[i]
        /\ Append(block.entries, e)[asked + 1] = e
    OBVIOUS
  <2>5. /\ block' \in [signature : BOOLEAN, count : Nat, entries : Seq(Entries)]
        /\ block'.signature /\ block'.count = asked' /\ Len(block'.entries) = asked'
    BY <2>1, <2>3, <2>4
  <2>6. \A i \in 1 .. asked' : block'.entries[i] = Stored(bios'[i])
    <3> SUFFICES ASSUME NEW i \in 1 .. asked + 1
                 PROVE  Append(block.entries, e)[i] = Stored(bios[i])
      BY <2>1, <2>3
    <3>1. CASE i \in 1 .. asked
      BY <2>4, <3>1
    <3>2. CASE i = asked + 1
      BY <2>4, <3>2
    <3> QED
      BY <3>1, <3>2
  <2>7. /\ step' \in {"detect", "load"} /\ (step' = "detect" => asked + 1 # MAX_ENTRIES)
        /\ index' = index
    BY <1>1 DEF detect_entry
  <2>8. asked < MAX_ENTRIES
    BY <1>1 DEF detect_entry
  <2> QED
    BY <2>1, <2>5, <2>6, <2>7, <2>8, MapConstants
<1>2. CASE detect_carry
  BY <1>2, ZenonT(30) DEF detect_carry
<1>3. CASE load_header
  BY <1>3 DEF load_header
<1>4. CASE load_entry
  BY <1>4 DEF load_entry
<1>5. CASE reserve
  BY <1>5 DEF reserve
<1>6. CASE new_region
  BY <1>6 DEF new_region
<1>7. CASE count_allocatable
  BY <1>7 DEF count_allocatable
<1>8. CASE UNCHANGED vars
  BY <1>8 DEF vars
<1> QED
  BY <1>1, <1>2, <1>3, <1>4, <1>5, <1>6, <1>7, <1>8 DEF MapNext

\* The steps of the kernel leave the block alone, and what was told.
LEMMA BlockKept ==
  ASSUME \/ load_header \/ load_entry \/ reserve \/ new_region \/ count_allocatable
         \/ UNCHANGED vars
  PROVE  bios' = bios /\ asked' = asked /\ block' = block
BY DEF load_header, load_entry, reserve, new_region, count_allocatable, vars

\* A turn of load's loop, and its end.
LEMMA EntryOutcome ==
  ASSUME StepType, BlockInv, MapInv, load_entry
  PROVE  /\ bios' = bios /\ asked' = asked /\ block' = block /\ pool' = pool
         /\ \/ /\ index < asked /\ step' = "entries" /\ index' = index + 1
               /\ block.entries[index + 1] \in Entries
               /\ map' = IF Kept(block.entries[index + 1])
                           THEN [map EXCEPT !.regions = Append(@, Region(block.entries[index + 1]))]
                           ELSE map
            \/ index = asked /\ step' = "new" /\ map' = map
<1>1. step = "entries" /\ map.reported = asked /\ index \in Nat /\ asked \in Nat /\ Read = index
  BY DEF load_entry, MapInv, BlockInv, StepType, Read
<1>2. min(map.reported, MAX_ENTRIES) = asked
  BY <1>1, MapConstants DEF BlockInv, min
<1>3. index <= asked
  BY <1>1 DEF MapInv
<1>4. CASE index < asked
  <2>1. block.entries[index + 1] \in Entries
    BY <1>1, <1>4 DEF BlockInv
  <2> QED
    BY <1>1, <1>2, <1>4, <2>1 DEF load_entry
<1>5. CASE ~(index < asked)
  BY <1>1, <1>2, <1>3, <1>5 DEF load_entry
<1> QED
  BY <1>4, <1>5

\* The map's regions.
LEMMA MapStep ==
  ASSUME StepType, BlockInv, MapInv, [MapNext]_vars
  PROVE  MapInv'
<1>1. asked \in Nat /\ map.regions \in Seq(Regions)
  BY DEF BlockInv, MapInv
<1>2. ASSUME detect_entry \/ detect_carry \/ load_header
      PROVE  MapInv'
  <2>1. /\ step \in {"detect", "load"} /\ step' \in {"detect", "load", "entries"}
        /\ map'.regions = map.regions /\ map' \in [regions : Seq(Regions), reported : Nat, available : BOOLEAN]
        /\ (step' = "entries" => index' = 0 /\ map'.reported = asked')
        /\ asked' \in Nat
    <3>1. CASE detect_entry \/ detect_carry
      BY <3>1 DEF detect_entry, detect_carry, MapInv, BlockInv
    <3>2. CASE load_header
      <4>1. step = "load" /\ block.signature /\ block.count \in Nat /\ block.count = asked
        BY <3>2 DEF load_header, BlockInv
      <4>2. /\ map' = [map EXCEPT !.available = TRUE, !.reported = block.count]
            /\ step' = "entries" /\ index' = 0 /\ asked' = asked
        BY <3>2, <4>1 DEF load_header
      <4>3. map \in [regions : Seq(Regions), reported : Nat, available : BOOLEAN]
        BY DEF MapInv
      <4> QED
        BY <1>1, <4>1, <4>2, <4>3, ZenonT(30)
    <3> QED
      BY <1>2, <3>1, <3>2
  <2>2. Read = 0 /\ Read' = 0
    BY <2>1 DEF Read
  <2>3. Len(map'.regions) <= 0 /\ Len(map'.regions) \in Nat
    BY <1>1, <2>1, <2>2 DEF MapInv
  <2> QED
    BY <2>1, <2>2, <2>3 DEF MapInv
<1>3. ASSUME load_entry
      PROVE  MapInv'
  <2>1. /\ asked' = asked /\ block' = block /\ step = "entries"
        /\ Read = index /\ index \in Nat
    BY <1>3, EntryOutcome DEF load_entry, Read, StepType
  <2>2. CASE index = asked /\ step' = "new" /\ map' = map
    <3>1. Read' = Read
      BY <2>1, <2>2 DEF Read
    <3> QED
      BY <2>1, <2>2, <3>1 DEF MapInv
  <2>3. CASE /\ index < asked /\ step' = "entries" /\ index' = index + 1
             /\ map' = map /\ ~Kept(block.entries[index + 1])
    <3>1. Read' = index + 1
      BY <2>1, <2>3 DEF Read
    <3>2. \A j \in 1 .. index + 1 : Kept(block.entries[j]) => j \in 1 .. index
      BY <2>1, <2>3
    <3> QED
      BY <1>1, <2>1, <2>3, <3>1, <3>2 DEF MapInv
  <2>4. CASE /\ index < asked /\ step' = "entries" /\ index' = index + 1
             /\ block.entries[index + 1] \in Entries /\ Kept(block.entries[index + 1])
             /\ map' = [map EXCEPT !.regions = Append(@, Region(block.entries[index + 1]))]
    <3>1. Read' = index + 1
      BY <2>1, <2>4 DEF Read
    <3> PICK r \in Regions : r = Region(block.entries[index + 1])
      BY <2>4 DEF Region, Regions, Entries
    <3> PICK n \in Nat : n = Len(map.regions)
      BY <1>1
    <3>2. /\ map'.regions = Append(map.regions, r) /\ map'.reported = map.reported
          /\ map' \in [regions : Seq(Regions), reported : Nat, available : BOOLEAN]
      <4>1. map \in [regions : Seq(Regions), reported : Nat, available : BOOLEAN]
        BY DEF MapInv
      <4>2. map' = [map EXCEPT !.regions = Append(map.regions, r)]
        BY <2>4
      <4>3. Append(map.regions, r) \in Seq(Regions)
        BY <1>1
      <4> QED
        BY <4>1, <4>2, <4>3, ZenonT(30)
    <3>3. /\ Len(map'.regions) = n + 1 /\ map'.regions[n + 1] = r
          /\ \A i \in 1 .. n : map'.regions[i] = map.regions[i]
      BY <1>1, <3>2
    <3>4. ASSUME NEW i \in 1 .. n + 1
          PROVE  \E j \in 1 .. index + 1 :
                   Kept(block.entries[j]) /\ map'.regions[i] = Region(block.entries[j])
      <4>1. CASE i = n + 1
        <5>1. index + 1 \in 1 .. index + 1
          BY <2>1
        <5> QED
          BY <2>4, <3>3, <4>1, <5>1
      <4>2. CASE i \in 1 .. n
        <5> PICK j \in 1 .. index :
              Kept(block.entries[j]) /\ map.regions[i] = Region(block.entries[j])
          BY <2>1, <4>2 DEF MapInv
        <5> QED
          BY <2>1, <3>3, <4>2
      <4> QED
        BY <4>1, <4>2
    <3>5. ASSUME NEW j \in 1 .. index + 1, Kept(block.entries[j])
          PROVE  \E i \in 1 .. n + 1 : map'.regions[i] = Region(block.entries[j])
      <4>1. CASE j = index + 1
        BY <3>3, <4>1
      <4>2. CASE j \in 1 .. index
        <5> PICK i \in 1 .. n : map.regions[i] = Region(block.entries[j])
          BY <2>1, <3>5, <4>2 DEF MapInv
        <5> QED
          BY <3>3
      <4> QED
        BY <2>1, <4>1, <4>2
    <3>6. n <= index
      BY <2>1 DEF MapInv
    <3>7. step' = "entries" => map'.reported = asked'
      BY <2>1, <3>2 DEF MapInv
    <3>8. /\ Read' <= asked' /\ Len(map'.regions) <= Read'
      BY <1>1, <2>1, <2>4, <3>1, <3>3, <3>6
    <3>9. /\ \A i \in 1 .. Len(map'.regions) : \E j \in 1 .. Read' :
               Kept(block'.entries[j]) /\ map'.regions[i] = Region(block'.entries[j])
          /\ \A j \in 1 .. Read' : Kept(block'.entries[j]) =>
               \E i \in 1 .. Len(map'.regions) : map'.regions[i] = Region(block'.entries[j])
      BY <2>1, <3>1, <3>3, <3>4, <3>5
    <3> QED
      BY <3>2, <3>7, <3>8, <3>9, ZenonT(30) DEF MapInv
  <2> QED
    BY <1>3, <2>2, <2>3, <2>4, EntryOutcome
<1>4. ASSUME reserve \/ new_region \/ count_allocatable \/ UNCHANGED vars
      PROVE  MapInv'
  <2>1. /\ map' = map /\ asked' = asked /\ block' = block
        /\ \/ step' = step /\ index' = index
           \/ /\ step \in {"new", "regions", "count"}
              /\ step' \in {"regions", "count", "done"}
    BY <1>4 DEF reserve, new_region, count_allocatable, vars
  <2>2. Read' = Read
    BY <2>1 DEF Read
  <2>3. step' = "entries" => step = "entries"
    BY <2>1
  <2> QED
    BY <2>1, <2>2, <2>3 DEF MapInv
<1> QED
  BY <1>2, <1>3, <1>4 DEF MapNext

\* What is disjoint stays so while nothing more is told.
LEMMA DisjointKept ==
  ASSUME bios' = bios, asked' = asked
  PROVE  Disjoint' = Disjoint
BY DEF Disjoint, Covers

\* A region covers what its entry covers.
LEMMA RegionCovers ==
  ASSUME NEW e \in Entries, NEW byte
  PROVE  Covers(Region(Stored(e)), byte) = Covers(e, byte)
BY StoredEntry DEF Region, Covers

\* Disjoint entries make disjoint regions.
LEMMA ApartStep ==
  ASSUME StepType, BlockInv, MapInv, ApartInv, [MapNext]_vars
  PROVE  ApartInv'
<1>1. map.regions \in Seq(Regions)
  BY DEF MapInv
<1>2. ASSUME detect_entry \/ detect_carry
      PROVE  ApartInv'
  <2>1. step = "detect" /\ map' = map
    BY <1>2 DEF detect_entry, detect_carry
  <2>2. Len(map.regions) <= 0 /\ Len(map.regions) \in Nat
    BY <1>1, <2>1 DEF MapInv, Read
  <2> QED
    BY <2>1, <2>2 DEF ApartInv
<1>3. ASSUME load_entry, Disjoint',
             NEW i \in 1 .. Len(map'.regions), NEW k \in 1 .. Len(map'.regions), i # k,
             NEW byte \in 0 .. U64_MAX,
             Covers(map'.regions[i], byte), Covers(map'.regions[k], byte)
      PROVE  FALSE
  <2>1. bios' = bios /\ asked' = asked
    BY <1>3, BlockKept
  <2>2. Disjoint
    BY <1>3, <2>1, DisjointKept, ZenonT(30)
  <2>3. CASE map' = map
    BY <1>3, <2>2, <2>3 DEF ApartInv
  <2>4. CASE /\ index < asked /\ block.entries[index + 1] \in Entries
             /\ map' = [map EXCEPT !.regions = Append(@, Region(block.entries[index + 1]))]
    <3> PICK n \in Nat : n = Len(map.regions)
      BY <1>1
    <3> PICK r \in Regions : r = Region(block.entries[index + 1])
      BY <2>4 DEF Region, Regions, Entries
    <3>1. index \in Nat /\ Read = index /\ asked \in Nat /\ index + 1 \in 1 .. asked
      BY <1>3, <2>4 DEF Read, StepType, BlockInv, load_entry
    <3>2. map'.regions = Append(map.regions, r)
      BY <2>4 DEF MapInv
    <3>3. /\ Len(map'.regions) = n + 1 /\ map'.regions[n + 1] = r
          /\ \A m \in 1 .. n : map'.regions[m] = map.regions[m]
      BY <1>1, <3>2
    <3>4. bios[index + 1] \in Entries /\ r = Region(Stored(bios[index + 1]))
      BY <3>1 DEF BlockInv
    <3>5. ASSUME NEW m \in 1 .. n, Covers(map.regions[m], byte), Covers(r, byte)
          PROVE  FALSE
      <4> PICK j \in 1 .. index : map.regions[m] = Region(block.entries[j])
        BY <3>1 DEF MapInv
      <4>1. bios[j] \in Entries /\ block.entries[j] = Stored(bios[j]) /\ j \in 1 .. asked
        BY <3>1 DEF BlockInv
      <4>2. Covers(bios[j], byte)
        BY <3>5, <4>1, RegionCovers
      <4>3. Covers(bios[index + 1], byte)
        BY <3>4, <3>5, RegionCovers
      <4>4. j # index + 1
        BY <3>1
      <4> QED
        BY <2>2, <3>1, <4>1, <4>2, <4>3, <4>4 DEF Disjoint
    <3>6. CASE i \in 1 .. n /\ k \in 1 .. n
      BY <1>3, <2>2, <3>3, <3>6 DEF ApartInv
    <3>7. CASE i = n + 1 /\ k \in 1 .. n
      BY <1>3, <3>3, <3>5, <3>7
    <3>8. CASE i \in 1 .. n /\ k = n + 1
      BY <1>3, <3>3, <3>5, <3>8
    <3> QED
      BY <1>3, <3>3, <3>6, <3>7, <3>8
  <2> QED
    BY <1>3, <2>3, <2>4, EntryOutcome
<1>4. ASSUME load_header \/ reserve \/ new_region \/ count_allocatable \/ UNCHANGED vars
      PROVE  ApartInv'
  <2>1. bios' = bios /\ asked' = asked
    BY <1>4, BlockKept
  <2>2. map'.regions = map.regions
    BY <1>4, ZenonT(30) DEF load_header, reserve, new_region, count_allocatable, vars, MapInv
  <2>3. Disjoint' = Disjoint
    BY <2>1, DisjointKept
  <2> QED
    BY <2>2, <2>3 DEF ApartInv, Covers
<1>5. load_entry => ApartInv'
  BY <1>3 DEF ApartInv
<1> QED
  BY <1>2, <1>4, <1>5 DEF MapNext

\* A region that load keeps gives a range of frames.
LEMMA RangeType ==
  ASSUME NEW r \in Regions
  PROVE  range_of(r) \in Ranges
<1> PICK b \in Nat, e \in Nat : b = r.base /\ e = end(r)
  BY MapConstants DEF Regions, end, saturating_add, min
<1>1. inside(b, e).start \in 0 .. MAX_FRAME_INDEX /\ inside(b, e).end \in 0 .. MAX_FRAME_INDEX
  BY InsideIsExact
<1>2. inside(b, e) = [start |-> index_ceil(b), end |-> max(index_floor(e), index_ceil(b))]
  BY DEF inside
<1> QED
  BY <1>1, <1>2 DEF range_of, Ranges

\* Reservations are ranges of frames.
LEMMA ReservationType ==
  {covering(r.start, r.end) : r \in Reserved} \subseteq Ranges
<1> SUFFICES ASSUME NEW r \in Reserved PROVE covering(r.start, r.end) \in Ranges
  OBVIOUS
<1> PICK b \in Nat, e \in Nat : b = r.start /\ e = r.end
  BY MapAssumption
<1>1. index_floor(b) \in 0 .. MAX_FRAME_INDEX /\ index_ceil(e) \in 0 .. MAX_FRAME_INDEX
  BY FloorPasses, CeilReaches
<1> QED
  BY <1>1 DEF covering, Ranges

\* A turn of new's loop, which never meets MAX_REGIONS, and its end.
LEMMA RegionOutcome ==
  ASSUME StepType, BlockInv, MapInv, PoolInv, new_region
  PROVE  /\ map' = map
         /\ \/ /\ index < Len(map.regions) /\ step' = "regions" /\ index' = index + 1
               /\ map.regions[index + 1] \in Regions
               /\ pool' = IF Chosen(map.regions[index + 1])
                            THEN [pool EXCEPT !.regions = Append(@, range_of(map.regions[index + 1]))]
                            ELSE pool
            \/ /\ index = Len(map.regions) /\ step' = "count" /\ index' = 0
               /\ pool' = IF pool.regions = <<>> THEN pool
                          ELSE [pool EXCEPT !.cursor_frame = pool.regions[1].start]
<1>1. step = "regions" /\ index \in Nat /\ Built = index /\ Read = asked
  BY DEF new_region, StepType, Built, Read
<1>2. map.regions \in Seq(Regions) /\ Len(map.regions) <= asked /\ asked <= MAX_ENTRIES /\ asked \in Nat
  BY <1>1 DEF MapInv, BlockInv
<1>3. /\ pool.regions \in Seq(Ranges) /\ Len(pool.regions) \in Nat
      /\ Len(pool.regions) <= index /\ index <= Len(map.regions)
  BY <1>1 DEF PoolInv, PoolType
<1>4. CASE index < Len(map.regions)
  <2>1. Len(pool.regions) # MAX_ENTRIES
    BY <1>1, <1>2, <1>3, <1>4, MapConstants
  <2>2. map.regions[index + 1] \in Regions
    BY <1>1, <1>2, <1>4
  <2> QED
    BY <1>1, <1>4, <2>1, <2>2 DEF new_region, Chosen
<1>5. CASE ~(index < Len(map.regions))
  <2>1. index = Len(map.regions)
    BY <1>1, <1>2, <1>3, <1>5
  <2> QED
    BY <1>5, <2>1 DEF new_region
<1> QED
  BY <1>4, <1>5

\* The ranges of the pool.
LEMMA PoolStep ==
  ASSUME StepType, BlockInv, MapInv, PoolInv, [MapNext]_vars, MapInv'
  PROVE  PoolInv'
<1>1. /\ map.regions \in Seq(Regions) /\ map'.regions \in Seq(Regions)
      /\ pool \in PoolType /\ pool.regions \in Seq(Ranges)
  BY DEF MapInv, PoolInv, PoolType
<1>2. ASSUME detect_entry \/ detect_carry \/ load_header \/ load_entry \/ reserve
      PROVE  PoolInv'
  <2>1. /\ step \in {"detect", "load", "entries", "new"}
        /\ \/ step' \in {"detect", "load", "entries", "new"} /\ pool' = pool
           \/ /\ reserve
              /\ step' = "regions" /\ index' = 0
              /\ pool' = [pool EXCEPT !.reservations = {covering(r.start, r.end) : r \in Reserved}]
    BY <1>2 DEF detect_entry, detect_carry, load_header, load_entry, reserve
  <2>2. Built = 0 /\ Built' = 0
    BY <2>1 DEF Built
  <2>3. pool' \in PoolType /\ pool'.regions = pool.regions
    BY <1>1, <2>1, ReservationType DEF PoolType
  <2>4. step' \in {"regions", "count", "done"} =>
          pool'.reservations = {covering(r.start, r.end) : r \in Reserved}
    BY <1>1, <2>1 DEF PoolType
  <2>5. Len(pool'.regions) <= 0 /\ Len(pool'.regions) \in Nat /\ 0 <= Len(map'.regions)
    BY <1>1, <2>2, <2>3 DEF PoolInv
  <2> QED
    BY <2>2, <2>3, <2>4, <2>5 DEF PoolInv, PoolType
<1>3. ASSUME new_region
      PROVE  PoolInv'
  <2>1. /\ map' = map /\ step = "regions" /\ Built = index /\ index \in Nat
        /\ pool.reservations = {covering(r.start, r.end) : r \in Reserved}
    BY <1>3, RegionOutcome DEF new_region, Built, StepType, PoolInv
  <2>2. CASE /\ index = Len(map.regions) /\ step' = "count"
             /\ pool' = IF pool.regions = <<>> THEN pool
                        ELSE [pool EXCEPT !.cursor_frame = pool.regions[1].start]
    <3>1. Built' = index
      BY <2>1, <2>2 DEF Built
    <3>2. /\ pool' \in PoolType /\ pool'.regions = pool.regions
          /\ pool'.reservations = pool.reservations
      <4>1. CASE pool.regions = <<>>
        BY <1>1, <2>2, <4>1
      <4>2. CASE pool.regions # <<>>
        <5>1. pool.regions[1] \in Ranges
          BY <1>1, <4>2
        <5> PICK c \in Nat : c = pool.regions[1].start
          BY <5>1, MapConstants DEF Ranges
        <5>2. pool' = [pool EXCEPT !.cursor_frame = c]
          BY <2>2, <4>2
        <5> QED
          BY <1>1, <5>2, ZenonT(30) DEF PoolType
      <4> QED
        BY <4>1, <4>2
    <3> QED
      BY <2>1, <3>1, <3>2 DEF PoolInv, PoolType
  <2>3. CASE /\ index < Len(map.regions) /\ step' = "regions" /\ index' = index + 1
             /\ pool' = pool /\ ~Chosen(map.regions[index + 1])
    <3>1. Built' = index + 1
      BY <2>1, <2>3 DEF Built
    <3>2. \A j \in 1 .. index + 1 : Chosen(map.regions[j]) => j \in 1 .. index
      BY <2>1, <2>3
    <3>3. Len(pool.regions) <= index + 1 /\ index + 1 <= Len(map.regions)
      BY <1>1, <2>1, <2>3 DEF PoolInv
    <3> QED
      BY <1>1, <2>1, <2>3, <3>1, <3>2, <3>3 DEF PoolInv
  <2>4. CASE /\ index < Len(map.regions) /\ step' = "regions" /\ index' = index + 1
             /\ map.regions[index + 1] \in Regions /\ Chosen(map.regions[index + 1])
             /\ pool' = [pool EXCEPT !.regions = Append(@, range_of(map.regions[index + 1]))]
    <3>1. Built' = index + 1
      BY <2>1, <2>4 DEF Built
    <3> PICK r \in Ranges : r = range_of(map.regions[index + 1])
      BY <2>4, RangeType
    <3> PICK n \in Nat : n = Len(pool.regions)
      BY <1>1
    <3>2. /\ pool'.regions = Append(pool.regions, r) /\ pool' \in PoolType
          /\ pool'.reservations = pool.reservations
      <4>1. pool' = [pool EXCEPT !.regions = Append(pool.regions, r)]
        BY <2>4
      <4>2. Append(pool.regions, r) \in Seq(Ranges)
        BY <1>1
      <4> QED
        BY <1>1, <4>1, <4>2, ZenonT(30) DEF PoolType
    <3>3. /\ Len(pool'.regions) = n + 1 /\ pool'.regions[n + 1] = r
          /\ \A i \in 1 .. n : pool'.regions[i] = pool.regions[i]
      BY <1>1, <3>2
    <3>4. ASSUME NEW i \in 1 .. n + 1
          PROVE  \E j \in 1 .. index + 1 :
                   Chosen(map.regions[j]) /\ pool'.regions[i] = range_of(map.regions[j])
      <4>1. CASE i = n + 1
        <5>1. index + 1 \in 1 .. index + 1
          BY <2>1
        <5> QED
          BY <2>4, <3>3, <4>1, <5>1
      <4>2. CASE i \in 1 .. n
        <5> PICK j \in 1 .. index :
              Chosen(map.regions[j]) /\ pool.regions[i] = range_of(map.regions[j])
          BY <2>1, <4>2 DEF PoolInv
        <5>1. j \in 1 .. index + 1 /\ pool'.regions[i] = pool.regions[i]
          BY <2>1, <3>3, <4>2
        <5> QED
          BY <5>1
      <4> QED
        BY <4>1, <4>2
    <3>5. ASSUME NEW j \in 1 .. index + 1, Chosen(map.regions[j])
          PROVE  \E i \in 1 .. n + 1 : pool'.regions[i] = range_of(map.regions[j])
      <4>1. CASE j = index + 1
        BY <3>3, <4>1
      <4>2. CASE j \in 1 .. index
        <5> PICK i \in 1 .. n : pool.regions[i] = range_of(map.regions[j])
          BY <2>1, <3>5, <4>2 DEF PoolInv
        <5> QED
          BY <3>3
      <4> QED
        BY <2>1, <4>1, <4>2
    <3>6. n <= index
      BY <2>1 DEF PoolInv
    <3>7. Built' <= Len(map'.regions) /\ Len(pool'.regions) <= Built'
      BY <1>1, <2>1, <2>4, <3>1, <3>3, <3>6
    <3>8. /\ \A i \in 1 .. Len(pool'.regions) : \E j \in 1 .. Built' :
               Chosen(map'.regions[j]) /\ pool'.regions[i] = range_of(map'.regions[j])
          /\ \A j \in 1 .. Built' : Chosen(map'.regions[j]) =>
               \E i \in 1 .. Len(pool'.regions) : pool'.regions[i] = range_of(map'.regions[j])
      BY <2>1, <3>1, <3>3, <3>4, <3>5
    <3> QED
      BY <2>1, <3>2, <3>7, <3>8 DEF PoolInv, PoolType
  <2> QED
    BY <1>3, <2>2, <2>3, <2>4, RegionOutcome
<1>4. ASSUME count_allocatable \/ UNCHANGED vars
      PROVE  PoolInv'
  <2>1. /\ map' = map
        /\ \/ step' = step /\ index' = index
           \/ step = "count" /\ step' \in {"count", "done"}
        /\ \/ pool' = pool
           \/ /\ step = "count" /\ index < Len(pool.regions)
              /\ pool' = [pool EXCEPT !.total = @ + Cardinality(Allocatable(pool.regions[index + 1]))]
    BY <1>4 DEF count_allocatable, vars
  <2>2. Built' = Built
    BY <2>1 DEF Built
  <2>3. /\ pool' \in PoolType /\ pool'.regions = pool.regions
        /\ pool'.reservations = pool.reservations
    <3>1. CASE pool' = pool
      BY <1>1, <3>1
    <3>2. CASE /\ step = "count" /\ index < Len(pool.regions)
               /\ pool' = [pool EXCEPT !.total = @ + Cardinality(Allocatable(pool.regions[index + 1]))]
      <4>1. pool.regions[index + 1] \in Ranges
        BY <1>1, <3>2 DEF StepType
      <4>2. IsFiniteSet(pool.regions[index + 1].start .. pool.regions[index + 1].end - 1)
        BY <4>1, FS_Interval, MapConstants DEF Ranges
      <4>3. IsFiniteSet(Allocatable(pool.regions[index + 1]))
        BY <4>2, FS_Subset, ZenonT(30) DEF Allocatable
      <4> PICK c \in Nat : c = Cardinality(Allocatable(pool.regions[index + 1]))
        BY <4>3, FS_CardinalityType
      <4>4. pool' = [pool EXCEPT !.total = pool.total + c]
        BY <3>2
      <4>5. pool.total + c \in Nat
        BY <1>1 DEF PoolType
      <4> QED
        BY <1>1, <4>4, <4>5, ZenonT(30) DEF PoolType
    <3> QED
      BY <2>1, <3>1, <3>2
  <2>4. step' \in {"regions", "count", "done"} => step \in {"regions", "count", "done"}
    BY <2>1
  <2> QED
    BY <2>1, <2>2, <2>3, <2>4 DEF PoolInv, PoolType
<1> QED
  BY <1>2, <1>3, <1>4 DEF MapNext

\* Two regions that share a frame share its first byte.
LEMMA SharedByte ==
  ASSUME NEW r \in Regions, NEW f \in Nat, contains(range_of(r), f)
  PROVE  f * FRAME_SIZE \in 0 .. U64_MAX /\ Covers(r, f * FRAME_SIZE)
<1>1. f < MAX_FRAME_INDEX /\ \A byte \in Frame(f) : Covers(r, byte)
  BY RangeBytes
<1>2. /\ f * FRAME_SIZE \in Nat
      /\ (f + 1) * FRAME_SIZE = f * FRAME_SIZE + FRAME_SIZE
      /\ (f + 1) * FRAME_SIZE <= U64_MAX
  BY <1>1, FrameBounds
<1>3. f * FRAME_SIZE \in Frame(f)
  BY <1>2, MapConstants DEF Frame
<1> QED
  BY <1>1, <1>2, <1>3, MapConstants

\* Disjoint regions make disjoint ranges.
LEMMA RangesApartStep ==
  ASSUME StepType, BlockInv, MapInv, ApartInv, PoolInv, RangesApart, [MapNext]_vars
  PROVE  RangesApart'
<1>1. map.regions \in Seq(Regions) /\ pool \in PoolType /\ pool.regions \in Seq(Ranges)
  BY DEF MapInv, PoolInv, PoolType
<1>2. ASSUME detect_entry \/ detect_carry
      PROVE  RangesApart'
  <2>1. step = "detect" /\ pool' = pool
    BY <1>2 DEF detect_entry, detect_carry
  <2>2. Len(pool.regions) <= 0 /\ Len(pool.regions) \in Nat
    BY <1>1, <2>1 DEF PoolInv, Built
  <2> QED
    BY <2>1, <2>2 DEF RangesApart
<1>3. ASSUME new_region, Disjoint',
             NEW i \in 1 .. Len(pool'.regions), NEW k \in 1 .. Len(pool'.regions), i # k,
             NEW f \in Nat,
             contains(pool'.regions[i], f), contains(pool'.regions[k], f)
      PROVE  FALSE
  <2>1. bios' = bios /\ asked' = asked
    BY <1>3, BlockKept
  <2>2. Disjoint
    BY <1>3, <2>1, DisjointKept, ZenonT(30)
  <2>3. CASE pool'.regions = pool.regions
    BY <1>3, <2>2, <2>3 DEF RangesApart
  <2>4. CASE /\ index < Len(map.regions) /\ map.regions[index + 1] \in Regions
             /\ pool' = [pool EXCEPT !.regions = Append(@, range_of(map.regions[index + 1]))]
    <3> PICK n \in Nat : n = Len(pool.regions)
      BY <1>1
    <3> PICK r \in Ranges : r = range_of(map.regions[index + 1])
      BY <2>4, RangeType
    <3>1. index \in Nat /\ Built = index /\ index + 1 \in 1 .. Len(map.regions)
      <4>1. index \in Nat /\ Built = index
        BY <1>3 DEF Built, StepType, new_region
      <4> QED
        BY <1>1, <2>4, <4>1
    <3>2. pool'.regions = Append(pool.regions, r)
      BY <1>1, <2>4 DEF PoolType
    <3>3. /\ Len(pool'.regions) = n + 1 /\ pool'.regions[n + 1] = r
          /\ \A m \in 1 .. n : pool'.regions[m] = pool.regions[m]
      BY <1>1, <3>2
    <3>4. ASSUME NEW m \in 1 .. n, contains(pool.regions[m], f), contains(r, f)
          PROVE  FALSE
      <4> PICK j \in 1 .. index : pool.regions[m] = range_of(map.regions[j])
        BY <3>1 DEF PoolInv
      <4>1. map.regions[j] \in Regions /\ j \in 1 .. Len(map.regions) /\ j # index + 1
        BY <1>1, <3>1
      <4>2. f * FRAME_SIZE \in 0 .. U64_MAX /\ Covers(map.regions[j], f * FRAME_SIZE)
        BY <3>4, <4>1, SharedByte
      <4>3. Covers(map.regions[index + 1], f * FRAME_SIZE)
        BY <2>4, <3>4, SharedByte
      <4> QED
        BY <2>2, <3>1, <4>1, <4>2, <4>3 DEF ApartInv
    <3>5. CASE i \in 1 .. n /\ k \in 1 .. n
      BY <1>3, <2>2, <3>3, <3>5 DEF RangesApart
    <3>6. CASE i = n + 1 /\ k \in 1 .. n
      BY <1>3, <3>3, <3>4, <3>6
    <3>7. CASE i \in 1 .. n /\ k = n + 1
      BY <1>3, <3>3, <3>4, <3>7
    <3> QED
      BY <1>3, <3>3, <3>5, <3>6, <3>7
  <2>5. pool' = [pool EXCEPT !.cursor_frame = pool.regions[1].start] => pool'.regions = pool.regions
    BY <1>1 DEF PoolType
  <2>6. pool' = pool => pool'.regions = pool.regions
    OBVIOUS
  <2> QED
    BY <1>3, <2>3, <2>4, <2>5, <2>6, RegionOutcome
<1>4. ASSUME load_header \/ load_entry \/ reserve \/ count_allocatable \/ UNCHANGED vars
      PROVE  RangesApart'
  <2>1. bios' = bios /\ asked' = asked
    BY <1>4, BlockKept
  <2>2. pool'.regions = pool.regions
    BY <1>1, <1>4 DEF load_header, load_entry, reserve, count_allocatable, vars, PoolType
  <2>3. Disjoint' = Disjoint
    BY <2>1, DisjointKept
  <2> QED
    BY <2>2, <2>3 DEF RangesApart, contains
<1>5. new_region => RangesApart'
  BY <1>3 DEF RangesApart
<1> QED
  BY <1>2, <1>4, <1>5 DEF MapNext

\* The frames of n + 1 ranges are those of n and of one more.
LEMMA PoolGrows ==
  ASSUME PoolInv, NEW n \in Nat, n < Len(pool.regions)
  PROVE  /\ PoolOf(n + 1) = PoolOf(n) \cup Allocatable(pool.regions[n + 1])
         /\ IsFiniteSet(PoolOf(n)) /\ IsFiniteSet(Allocatable(pool.regions[n + 1]))
         /\ RangesApart /\ Disjoint => PoolOf(n) \cap Allocatable(pool.regions[n + 1]) = {}
<1>0. pool.regions \in Seq(Ranges)
  BY DEF PoolInv, PoolType
<1> PICK m \in Nat : m = Len(pool.regions)
  BY <1>0
<1> PICK r \in Ranges : r = pool.regions[n + 1]
  BY <1>0
<1>1. r.start \in 0 .. MAX_FRAME_INDEX /\ r.end \in 0 .. MAX_FRAME_INDEX
  BY DEF Ranges
<1>2. \A f : f \in r.start .. r.end - 1 <=> f \in 0 .. MAX_FRAME_INDEX /\ contains(r, f)
  <2> PICK a \in 0 .. MAX_FRAME_INDEX, b \in 0 .. MAX_FRAME_INDEX : a = r.start /\ b = r.end
    BY <1>1
  <2>0. MAX_FRAME_INDEX \in Nat
    BY MapConstants
  <2>1. ASSUME NEW f \in a .. b - 1 PROVE f \in 0 .. MAX_FRAME_INDEX /\ a <= f /\ f < b
    <3>1. a \in Nat /\ b \in Nat /\ b <= MAX_FRAME_INDEX
      BY <2>0
    <3>2. f \in Int /\ a <= f /\ f <= b - 1
      BY <3>1
    <3> QED
      BY <2>0, <3>1, <3>2
  <2>2. ASSUME NEW f \in 0 .. MAX_FRAME_INDEX, a <= f, f < b PROVE f \in a .. b - 1
    BY <2>2
  <2> QED
    BY <2>1, <2>2 DEF contains
<1>3. \A f : f \in Allocatable(r) <=>
               f \in 0 .. MAX_FRAME_INDEX /\ contains(r, f) /\ ~is_reserved(pool.reservations, f)
  BY <1>2 DEF Allocatable
<1>4. \A f : (\E i \in 1 .. n + 1 : contains(pool.regions[i], f)) <=>
               (\E i \in 1 .. n : contains(pool.regions[i], f)) \/ contains(r, f)
  <2>1. 1 .. n + 1 = (1 .. n) \cup {n + 1}
    OBVIOUS
  <2> QED
    BY <2>1
<1>5. PoolOf(n + 1) = PoolOf(n) \cup Allocatable(r)
  BY <1>3, <1>4 DEF PoolOf
<1>6. IsFiniteSet(0 .. MAX_FRAME_INDEX)
  BY FS_Interval, MapConstants
<1>7. IsFiniteSet(PoolOf(n)) /\ IsFiniteSet(Allocatable(r))
  <2>1. PoolOf(n) \subseteq 0 .. MAX_FRAME_INDEX /\ Allocatable(r) \subseteq 0 .. MAX_FRAME_INDEX
    BY <1>3 DEF PoolOf
  <2> QED
    BY <1>6, <2>1, FS_Subset, ZenonT(30)
<1>8. ASSUME RangesApart, Disjoint, NEW f \in PoolOf(n), f \in Allocatable(r)
      PROVE  FALSE
  <2>1. f \in Nat /\ contains(r, f)
    BY <1>3, <1>8, MapConstants
  <2> PICK i \in 1 .. n : contains(pool.regions[i], f)
    BY <1>8 DEF PoolOf
  <2>2. i \in 1 .. Len(pool.regions) /\ n + 1 \in 1 .. Len(pool.regions) /\ i # n + 1
    OBVIOUS
  <2> QED
    BY <1>8, <2>1, <2>2 DEF RangesApart
<1> QED
  BY <1>5, <1>7, <1>8

\* The count of the pool.
LEMMA CountStep ==
  ASSUME StepType, BlockInv, MapInv, PoolInv, RangesApart, CountInv, [MapNext]_vars
  PROVE  CountInv'
<1>1. pool \in PoolType /\ pool.regions \in Seq(Ranges) /\ index \in Nat
  BY DEF PoolInv, PoolType, StepType
<1>2. ASSUME MapNext, ~count_allocatable
      PROVE  CountInv'
  <2>1. /\ step \in {"detect", "load", "entries", "new", "regions"}
        /\ \/ step' \in {"detect", "load", "entries", "new", "regions"}
           \/ new_region /\ step' = "count" /\ index' = 0
    BY <1>2 DEF MapNext, detect_entry, detect_carry, load_header, load_entry, reserve, new_region
  <2>2. Counted' = 0
    BY <2>1 DEF Counted
  <2>3. pool'.total = 0
    <3>1. pool.total = 0
      BY <2>1 DEF CountInv
    <3>2. pool'.total = pool.total
      BY <1>1, <1>2 DEF MapNext, detect_entry, detect_carry, load_header, load_entry, reserve,
                        new_region, PoolType
    <3> QED
      BY <3>1, <3>2
  <2>4. PoolOf(0)' = {}
    BY DEF PoolOf
  <2>5. pool'.total = Cardinality(PoolOf(Counted)')
    BY <2>2, <2>3, <2>4, FS_EmptySet DEF PoolOf
  <2>6. ASSUME step' \in {"count", "done"}, Len(pool'.regions) > 0
        PROVE  pool'.cursor_frame = pool'.regions[1].start
    <3>1. /\ new_region /\ step' = "count"
      BY <2>1, <2>6
    <3>2. pool' = IF pool.regions = <<>> THEN pool
                  ELSE [pool EXCEPT !.cursor_frame = pool.regions[1].start]
      BY <3>1, RegionOutcome
    <3>3. pool.regions # <<>>
      BY <2>6, <3>2
    <3> QED
      BY <1>1, <3>2, <3>3 DEF PoolType
  <2>7. 0 <= Len(pool'.regions)
    <3>1. pool'.regions \in Seq(Ranges)
      <4> HIDE DEF PoolInv
      <4>1. MapInv'
        BY MapStep DEF MapNext
      <4>2. PoolInv'
        BY <1>2, <4>1, PoolStep
      <4> QED
        BY <4>2 DEF PoolInv, PoolType
    <3> QED
      BY <3>1
  <2> QED
    BY <2>1, <2>2, <2>3, <2>5, <2>6, <2>7 DEF CountInv
<1>3. ASSUME count_allocatable
      PROVE  CountInv'
  <2>1. bios' = bios /\ asked' = asked /\ step = "count" /\ Counted = index
    BY <1>3, BlockKept DEF count_allocatable, Counted
  <2>2. Disjoint' = Disjoint
    BY <2>1, DisjointKept
  <2>3. CASE index < Len(pool.regions)
    <3> DEFINE A == Allocatable(pool.regions[index + 1])
    <3>1. /\ pool' = [pool EXCEPT !.total = @ + Cardinality(A)]
          /\ index' = index + 1 /\ step' = "count"
      BY <1>3, <2>1, <2>3 DEF count_allocatable
    <3>2. /\ PoolOf(index + 1) = PoolOf(index) \cup A
          /\ IsFiniteSet(PoolOf(index)) /\ IsFiniteSet(A)
          /\ Disjoint => PoolOf(index) \cap A = {}
      BY <1>1, <2>3, PoolGrows
    <3> HIDE DEF A
    <3>3. /\ pool'.regions = pool.regions /\ pool'.reservations = pool.reservations
          /\ pool'.cursor_frame = pool.cursor_frame /\ pool'.total = pool.total + Cardinality(A)
      BY <1>1, <3>1 DEF PoolType
    <3>4. Counted' = index + 1
      BY <3>1 DEF Counted
    <3>5. PoolOf(Counted)' = PoolOf(index + 1)
      BY <3>3, <3>4 DEF PoolOf
    <3>6. ASSUME Disjoint
          PROVE  pool'.total = Cardinality(PoolOf(index + 1))
      <4>1. pool.total = Cardinality(PoolOf(index))
        BY <2>1, <3>6 DEF CountInv
      <4>2. Cardinality(PoolOf(index) \cup A)
              = Cardinality(PoolOf(index)) + Cardinality(A) - Cardinality(PoolOf(index) \cap A)
        BY <3>2, FS_Union
      <4>3. Cardinality(PoolOf(index) \cap A) = 0
        BY <3>2, <3>6, FS_EmptySet
      <4>4. Cardinality(PoolOf(index)) \in Nat /\ Cardinality(A) \in Nat
        BY <3>2, FS_CardinalityType
      <4> PICK c \in Nat, d \in Nat : c = Cardinality(PoolOf(index)) /\ d = Cardinality(A)
        BY <4>4
      <4>5. Cardinality(PoolOf(index + 1)) = c + d
        BY <3>2, <4>2, <4>3
      <4> QED
        BY <3>3, <4>1, <4>5
    <3>7. Counted' <= Len(pool'.regions)
      BY <1>1, <2>3, <3>3, <3>4
    <3>8. Len(pool.regions) > 0 => pool.cursor_frame = pool.regions[1].start
      BY <2>1 DEF CountInv
    <3>9. Disjoint' => pool'.total = Cardinality(PoolOf(Counted)')
      BY <2>2, <3>5, <3>6
    <3> QED
      BY <3>1, <3>3, <3>7, <3>8, <3>9 DEF CountInv
  <2>4. CASE ~(index < Len(pool.regions))
    <3>1. pool' = pool /\ step' = "done"
      BY <1>3, <2>4 DEF count_allocatable
    <3>2. Counted' = Counted
      BY <1>1, <2>1, <2>4, <3>1 DEF Counted, CountInv
    <3>3. PoolOf(Counted)' = PoolOf(Counted)
      BY <3>1, <3>2 DEF PoolOf
    <3> QED
      BY <2>1, <2>2, <3>1, <3>2, <3>3 DEF CountInv
  <2> QED
    BY <2>3, <2>4
<1>4. ASSUME UNCHANGED vars
      PROVE  CountInv'
  <2>1. pool' = pool /\ step' = step /\ index' = index /\ bios' = bios /\ asked' = asked
    BY <1>4 DEF vars
  <2>2. Disjoint' = Disjoint /\ Counted' = Counted
    BY <2>1, DisjointKept DEF Counted
  <2>3. PoolOf(Counted)' = PoolOf(Counted)
    BY <2>1, <2>2 DEF PoolOf
  <2> QED
    BY <2>1, <2>2, <2>3 DEF CountInv
<1> QED
  BY <1>2, <1>3, <1>4

\* The map's way starts well.
LEMMA MapStart ==
  ASSUME Init
  PROVE  MapWay
<1>1. bios \in Seq(Entries)
  BY BiosAssumption DEF Init
<1>2. /\ step = "detect" /\ asked = 0 /\ index = 0
      /\ block = [signature |-> FALSE, count |-> 0, entries |-> <<>>]
      /\ map = [regions |-> <<>>, reported |-> 0, available |-> FALSE]
      /\ pool = [regions |-> <<>>, reservations |-> {}, cursor_frame |-> 0, total |-> 0]
  BY DEF Init, empty_map
<1>3. Read = 0 /\ Built = 0 /\ Counted = 0
  BY <1>2 DEF Read, Built, Counted
<1>4. StepType /\ BlockInv
  <2>1. Len(bios) \in Nat /\ MAX_ENTRIES > 0 /\ MAX_ENTRIES \in Nat
    BY <1>1, MapAssumption
  <2>2. StepType
    BY <1>2 DEF StepType
  <2>3. block.count = 0 /\ block.entries = <<>> /\ block.signature = FALSE
    BY <1>2
  <2>4. <<>> \in Seq(Entries) /\ Len(<<>>) = 0
    OBVIOUS
  <2>5. block \in [signature : BOOLEAN, count : Nat, entries : Seq(Entries)]
    BY <1>2, <2>4
  <2>6. asked \in 0 .. Len(bios) /\ asked < MAX_ENTRIES /\ asked <= MAX_ENTRIES
    BY <1>2, <2>1
  <2>7. \A i \in 1 .. asked : FALSE
    BY <1>2
  <2>8. block.count = asked /\ Len(block.entries) = asked
    BY <1>2, <2>3, <2>4, ZenonT(30)
  <2>9. \A i \in 1 .. asked : block.entries[i] = Stored(bios[i])
    BY <2>7, ZenonT(30)
  <2>10. step # "detect" => block.signature
    BY <1>2, ZenonT(30)
  <2> QED
    BY <1>1, <2>2, <2>5, <2>6, <2>8, <2>9, <2>10, ZenonT(30) DEF BlockInv
<1>5. MapInv /\ ApartInv
  <2>1. map.regions = <<>> /\ Len(map.regions) = 0
    BY <1>2
  <2>2. <<>> \in Seq(Regions)
    OBVIOUS
  <2>3. map \in [regions : Seq(Regions), reported : Nat, available : BOOLEAN]
    BY <1>2, <2>2
  <2>4. (\A i \in 1 .. Len(map.regions) : FALSE) /\ (\A j \in 1 .. Read : FALSE)
    BY <1>3, <2>1
  <2>5. Read <= asked /\ Len(map.regions) <= Read /\ step # "entries"
    BY <1>2, <1>3, <2>1
  <2>6. ApartInv
    BY <2>4, ZenonT(30) DEF ApartInv
  <2>7. MapInv
    BY <2>3, <2>4, <2>5, ZenonT(30) DEF MapInv
  <2> QED
    BY <2>6, <2>7
<1>6. PoolInv /\ RangesApart
  <2>1. pool.regions = <<>> /\ Len(pool.regions) = 0 /\ Len(map.regions) = 0
    BY <1>2
  <2>2. <<>> \in Seq(Ranges)
    OBVIOUS
  <2>3. pool \in PoolType
    BY <1>2, <2>2 DEF PoolType
  <2>4. (\A i \in 1 .. Len(pool.regions) : FALSE) /\ (\A j \in 1 .. Built : FALSE)
    BY <1>3, <2>1
  <2>5. Built <= Len(map.regions) /\ Len(pool.regions) <= Built
    BY <1>3, <2>1
  <2>6. step \notin {"regions", "count", "done"}
    BY <1>2
  <2>7. RangesApart
    BY <2>4, ZenonT(30) DEF RangesApart
  <2>8. PoolInv
    BY <2>3, <2>4, <2>5, <2>6, ZenonT(30) DEF PoolInv
  <2> QED
    BY <2>7, <2>8
<1>7. PoolOf(Counted) = {}
  BY <1>3 DEF PoolOf
<1>8. CountInv
  <2>1. Cardinality(PoolOf(Counted)) = 0
    BY <1>7, FS_EmptySet
  <2>2. pool.regions = <<>> /\ Len(pool.regions) = 0 /\ pool.total = 0
    BY <1>2
  <2>3. Counted <= Len(pool.regions)
    BY <1>3, <2>2
  <2>4. step \notin {"count", "done"}
    BY <1>2
  <2>5. pool.total = Cardinality(PoolOf(Counted))
    BY <2>1, <2>2, ZenonT(30)
  <2> QED
    BY <2>2, <2>3, <2>4, <2>5, ZenonT(30) DEF CountInv
<1> QED
  BY <1>4, <1>5, <1>6, <1>8 DEF MapWay

\* Every step of the boot keeps the map's invariant.
LEMMA MapWayStep ==
  ASSUME MapWay, [BootNext]_boot_vars
  PROVE  MapWay'
<1>1. [MapNext]_vars
  BY MapMoves
<1>2. MapInv'
  BY <1>1, MapStep DEF MapWay
<1> QED
  BY <1>1, <1>2, BlockStep, ApartStep, PoolStep, RangesApartStep, CountStep DEF MapWay

\* An entry's way to the pool: it is kept, chosen and holds a frame exactly when
\* it is valid and covers every byte of the frame.
LEMMA EntryIsExact ==
  ASSUME NEW e \in Entries, NEW f \in Nat
  PROVE  /\ Region(Stored(e)) \in Regions
         /\ Kept(Stored(e)) /\ Chosen(Region(Stored(e))) /\ contains(range_of(Region(Stored(e))), f)
              <=> Valid(e) /\ f < MAX_FRAME_INDEX /\ \A byte \in Frame(f) : Covers(e, byte)
<1> DEFINE r == Region(Stored(e))
<1>1. /\ Stored(e) \in Entries /\ Stored(e).length = e.length
      /\ Stored(e).attributes = IF e.attributes = Unwritten THEN 1 ELSE e.attributes
      /\ Stored(e).kind = e.kind
  BY StoredEntry
<1>2. r \in Regions /\ r.kind = e.kind
  BY <1>1 DEF Region, Regions, Entries
<1>3. \A byte : Covers(r, byte) = Covers(e, byte)
  BY RegionCovers
<1>4. is_usable(r) /\ Stored(e).attributes % 2 = 1 <=> Valid(e)
  <2>1. 1 % 2 = 1
    OBVIOUS
  <2> QED
    BY <1>1, <1>2, <2>1 DEF is_usable, Valid
<1> HIDE DEF r
<1>5. contains(range_of(r), f) <=> f < MAX_FRAME_INDEX /\ \A byte \in Frame(f) : Covers(e, byte)
  BY <1>2, <1>3, RangeBytes
<1>6. contains(range_of(r), f) => keeps(range_of(r))
  <2>1. range_of(r) \in Ranges
    BY <1>2, RangeType
  <2> PICK a \in Nat, b \in Nat : a = range_of(r).start /\ b = range_of(r).end
    BY <2>1, MapConstants DEF Ranges
  <2> QED
    BY DEF contains, keeps, is_empty
<1>7. ASSUME contains(range_of(r), f) PROVE Stored(e).length # 0
  <2>1. f < MAX_FRAME_INDEX /\ \A byte \in Frame(f) : Covers(e, byte)
    BY <1>5, <1>7
  <2>2. f * FRAME_SIZE \in Nat /\ f * FRAME_SIZE \in Frame(f)
    BY <2>1, FrameBounds, MapConstants DEF Frame
  <2>3. Covers(e, f * FRAME_SIZE)
    BY <2>1, <2>2
  <2> QED
    BY <1>1, <2>2, <2>3, MapConstants DEF Covers, Entries
<1> QED
  BY <1>2, <1>4, <1>5, <1>6, <1>7 DEF r, Kept, Chosen

\* What the invariant says of the finished pool.
LEMMA PoolFromInv ==
  ASSUME MapWay
  PROVE  PoolIsSound
<1> SUFFICES ASSUME step = "done"
             PROVE  PoolIsSound
  BY DEF PoolIsSound, PoolIsExact, RegionsAreSound
<1>1. Read = asked /\ Built = Len(map.regions) /\ Counted = Len(pool.regions)
  BY DEF Read, Built, Counted
<1>2. /\ bios \in Seq(Entries) /\ asked \in 0 .. Len(bios)
      /\ \A i \in 1 .. asked : block.entries[i] = Stored(bios[i])
  BY DEF MapWay, BlockInv
<1>3. /\ \A i \in 1 .. Len(map.regions) : \E j \in 1 .. asked :
           Kept(Stored(bios[j])) /\ map.regions[i] = Region(Stored(bios[j]))
      /\ \A j \in 1 .. asked : Kept(Stored(bios[j])) =>
           \E i \in 1 .. Len(map.regions) : map.regions[i] = Region(Stored(bios[j]))
  BY <1>1, <1>2 DEF MapWay, MapInv
<1>4. /\ \A i \in 1 .. Len(pool.regions) : \E j \in 1 .. Len(map.regions) :
           Chosen(map.regions[j]) /\ pool.regions[i] = range_of(map.regions[j])
      /\ \A j \in 1 .. Len(map.regions) : Chosen(map.regions[j]) =>
           \E i \in 1 .. Len(pool.regions) : pool.regions[i] = range_of(map.regions[j])
      /\ pool.reservations = {covering(r.start, r.end) : r \in Reserved}
      /\ pool.regions \in Seq(Ranges)
  BY <1>1 DEF MapWay, PoolInv, PoolType
<1>5. \A j \in 1 .. asked : bios[j] \in Entries
  BY <1>2
<1> DEFINE Whole(e, f) == \A byte \in Frame(f) : Covers(e, byte)
           Clear(f) == \A r \in Reserved, byte \in Frame(f) : ~(r.start <= byte /\ byte < r.end)
<1>6. ASSUME NEW f \in Nat
      PROVE  (\E i \in 1 .. Len(pool.regions) : contains(pool.regions[i], f))
               <=> f < MAX_FRAME_INDEX /\ \E e \in Told : Valid(e) /\ Whole(e, f)
  <2>1. ASSUME NEW i \in 1 .. Len(pool.regions), contains(pool.regions[i], f)
        PROVE  f < MAX_FRAME_INDEX /\ \E e \in Told : Valid(e) /\ Whole(e, f)
    <3> PICK j \in 1 .. Len(map.regions) :
          Chosen(map.regions[j]) /\ pool.regions[i] = range_of(map.regions[j])
      BY <1>4
    <3> PICK k \in 1 .. asked :
          Kept(Stored(bios[k])) /\ map.regions[j] = Region(Stored(bios[k]))
      BY <1>3
    <3>1. Valid(bios[k]) /\ f < MAX_FRAME_INDEX /\ Whole(bios[k], f)
      BY <1>5, <2>1, EntryIsExact
    <3>2. bios[k] \in Told
      BY DEF Told
    <3> QED
      BY <3>1, <3>2
  <2>2. ASSUME f < MAX_FRAME_INDEX, NEW e \in Told, Valid(e), Whole(e, f)
        PROVE  \E i \in 1 .. Len(pool.regions) : contains(pool.regions[i], f)
    <3> PICK k \in 1 .. asked : e = bios[k]
      BY DEF Told
    <3>1. /\ Kept(Stored(bios[k])) /\ Chosen(Region(Stored(bios[k])))
          /\ contains(range_of(Region(Stored(bios[k]))), f)
      BY <1>5, <2>2, EntryIsExact
    <3> PICK j \in 1 .. Len(map.regions) : map.regions[j] = Region(Stored(bios[k]))
      BY <1>3, <3>1
    <3> PICK i \in 1 .. Len(pool.regions) : pool.regions[i] = range_of(map.regions[j])
      BY <1>4, <3>1
    <3> QED
      BY <3>1
  <2> QED
    BY <2>1, <2>2
<1>7. ASSUME NEW f \in Nat, f < MAX_FRAME_INDEX
      PROVE  ~is_reserved(pool.reservations, f) <=> Clear(f)
  <2>1. is_reserved(pool.reservations, f) <=> \E r \in Reserved : contains(covering(r.start, r.end), f)
    BY <1>4 DEF is_reserved
  <2>2. \A r \in Reserved : contains(covering(r.start, r.end), f)
                              <=> \E byte \in Frame(f) : r.start <= byte /\ byte < r.end
    BY <1>7, ReservationBytes
  <2> QED
    BY <2>1, <2>2
<1>8. PoolIsExact
  <2>1. \A f : f \in 0 .. MAX_FRAME_INDEX - 1 <=> f \in 0 .. MAX_FRAME_INDEX /\ f < MAX_FRAME_INDEX
    BY MapConstants
  <2>2. \A f \in 0 .. MAX_FRAME_INDEX : f \in Nat
    OBVIOUS
  <2>3. Pool = {f \in 0 .. MAX_FRAME_INDEX - 1 :
                  (\E e \in Told : Valid(e) /\ Whole(e, f)) /\ Clear(f)}
    <3>1. \A f : f \in Pool <=> /\ f \in 0 .. MAX_FRAME_INDEX
                                /\ \E i \in 1 .. Len(pool.regions) : contains(pool.regions[i], f)
                                /\ ~is_reserved(pool.reservations, f)
      BY DEF Pool
    <3>2. \A f : f \in Pool <=> /\ f \in 0 .. MAX_FRAME_INDEX /\ f < MAX_FRAME_INDEX
                                /\ \E e \in Told : Valid(e) /\ Whole(e, f)
                                /\ Clear(f)
      BY <1>6, <1>7, <2>2, <3>1
    <3> QED
      BY <2>1, <3>2
  <2> QED
    BY <2>3 DEF PoolIsExact
<1>9. RegionsAreSound
  <2>1. ASSUME NEW i \in 1 .. Len(pool.regions)
        PROVE  pool.regions[i].start < pool.regions[i].end /\ pool.regions[i].end <= MAX_FRAME_INDEX
    <3> PICK r \in Ranges : r = pool.regions[i]
      BY <1>4
    <3>1. keeps(r)
      BY <1>4 DEF Chosen
    <3> PICK a \in 0 .. MAX_FRAME_INDEX, b \in 0 .. MAX_FRAME_INDEX : a = r.start /\ b = r.end
      BY DEF Ranges
    <3>2. ~(a >= b)
      BY <3>1 DEF keeps, is_empty
    <3> QED
      BY <3>2, MapConstants
  <2>2. Len(pool.regions) > 0 => pool.cursor_frame = pool.regions[1].start
    BY DEF MapWay, CountInv
  <2>3. PoolOf(Counted) = Pool
    BY <1>1 DEF PoolOf, Pool
  <2>4. Disjoint => pool.total = Cardinality(Pool)
    BY <2>3 DEF MapWay, CountInv
  <2>5. Disjoint => \A i, j \in 1 .. Len(pool.regions) : i # j =>
                      \A f \in 0 .. MAX_FRAME_INDEX :
                        ~(contains(pool.regions[i], f) /\ contains(pool.regions[j], f))
    BY DEF MapWay, RangesApart
  <2> QED
    BY <2>1, <2>2, <2>4, <2>5 DEF RegionsAreSound
<1> QED
  BY <1>8, <1>9 DEF PoolIsSound

(***************************************************************************)
(* For every firmware map, frame size, limit and set of reserved ranges,   *)
(* the pool that FrameAllocator::new builds is exactly the frames that a   *)
(* byte by byte reading of the E820 map allows; and from disjoint regions  *)
(* come disjoint, non-empty ranges whose frames `total` counts.            *)
(***************************************************************************)
THEOREM PoolIsRight == BootSpec => []PoolIsSound
<1>1. BootInit => MapWay
  BY MapStart DEF BootInit
<1>2. MapWay /\ [BootNext]_boot_vars => MapWay'
  BY MapWayStep
<1>3. MapWay => PoolIsSound
  BY PoolFromInv
<1> QED
  BY <1>1, <1>2, <1>3, PTL DEF BootSpec

-----------------------------------------------------------------------------
(***************************************************************************)
(* The loader.                                                             *)
(***************************************************************************)

\* A remainder by more is the number itself.
LEMMA SmallRemainder ==
  ASSUME NEW x \in Nat, NEW d \in Nat, x < d
  PROVE  x % d = x
OBVIOUS

\* What the BIOS makes of a cylinder and of the rest of an address.
Address(b, top, h, s, c, rest) ==
  (((c % b) + ((c \div b) % top) * b) * h + ((rest \div s) % b)) * s + ((rest % s) + 1) - 1

\* Cylinder, head and sector in their registers address the sector they were
\* computed from, while the cylinder fits its ten bits and the head its byte.
LEMMA ChsRoundTrip ==
  ASSUME NEW b \in Nat, NEW top \in Nat, NEW h \in Nat, NEW s \in Nat, NEW place \in Nat,
         b > 0, h > 0, h < b, s > 0, place < b * top * (h * s),
         NEW c \in Nat, c = place \div (h * s),
         NEW rest \in Nat, rest = place % (h * s)
  PROVE  Address(b, top, h, s, c, rest) = place
<1>1. h * s \in Nat /\ h * s > 0 /\ b * top \in Nat /\ b * top = top * b
  OBVIOUS
<1> PICK t \in Nat : t = h * s /\ t > 0
  BY <1>1
<1>2. place = c * t + rest /\ rest < t
  BY Division
<1>3. c < b * top
  <2>1. b * top <= place \div t <=> (b * top) * t <= place
    BY <1>1, QuotientBound
  <2>2. (b * top) * t \in Nat
    BY <1>1
  <2> QED
    BY <1>1, <2>1, <2>2
<1> PICK q \in Nat, m \in Nat : q = c \div b /\ m = c % b
  BY Division
<1>4. c = q * b + m
  BY Division
<1>5. q < top
  <2>1. top <= c \div b <=> top * b <= c
    BY QuotientBound
  <2> QED
    BY <1>1, <1>3, <2>1
<1>6. q % top = q
  BY <1>5, SmallRemainder
<1> PICK head \in Nat, sector \in Nat : head = rest \div s /\ sector = rest % s
  BY Division
<1>7. rest = head * s + sector
  BY Division
<1>8. head < h
  <2>1. h <= rest \div s <=> h * s <= rest
    BY QuotientBound
  <2> QED
    BY <1>1, <1>2, <2>1
<1>9. head % b = head
  BY <1>8, SmallRemainder
<1>10. (c * h + head) * s = c * t + head * s
  <2>1. (c * h + head) * s = (c * h) * s + head * s
    OBVIOUS
  <2>2. (c * h) * s = c * (h * s)
    OBVIOUS
  <2> QED
    BY <2>1, <2>2
<1>11. ((c % b) + ((c \div b) % top) * b) = c
  BY <1>4, <1>6
<1>12. (rest \div s) % b = head
  BY <1>9
<1>13. (c * h + head) * s + (sector + 1) - 1 = place
  <2> PICK u \in Nat, v \in Nat : u = c * t /\ v = head * s
    BY <1>1
  <2> QED
    BY <1>2, <1>7, <1>10
<1> QED
  BY <1>11, <1>12, <1>13, ZenonT(30) DEF Address

\* The sectors read so far.
Loaded == KERNEL_SECTORS - sectors_remaining

LoaderType ==
  /\ geometry \in Geometries
  /\ stage \in {"geometry", "load", "kernel", "disk_error", "fault"}
  /\ memory \in [0 .. SEGMENTS - 1 -> Int]
  /\ sectors_remaining \in 0 .. KERNEL_SECTORS

\* While it loads, and once the kernel runs, the sectors read are in their
\* places, and the next one, if any, is the one the loop will ask for.
LoadInv ==
  stage \in {"load", "kernel"} =>
    /\ sectors_per_track = geometry.sectors
    /\ heads_per_cylinder = geometry.heads % BYTE
    /\ sectors_per_cylinder = heads_per_cylinder * sectors_per_track
    /\ stage = "kernel" => sectors_remaining = 0
    /\ current_lba = 1 + Loaded
    /\ sectors_remaining # 0 => current_segment = KERNEL_LOAD_SEGMENT + Loaded
    /\ \A i \in 0 .. Loaded - 1 : memory[KERNEL_LOAD_SEGMENT + i] = 1 + i

LoaderInv == LoaderType /\ LoadInv

\* The loader's half of a step.
LEMMA LoaderMoves ==
  ASSUME [BootNext]_boot_vars
  PROVE  [L!Loader]_loader_vars
<1>1. UNCHANGED boot_vars => UNCHANGED loader_vars
  BY DEF boot_vars
<1>2. Rest => UNCHANGED loader_vars
  BY <1>1 DEF Rest
<1> QED
  BY <1>1, <1>2 DEF BootNext, Step, DetectMemory, LoadKernel, KernelMain

\* The constants, one fact each.
LEMMA LoaderConstants ==
  /\ BYTE \in Nat /\ BYTE > 0 /\ CYLINDER_HIGH \in Nat
  /\ SEGMENTS \in Nat /\ KERNEL_LOAD_SEGMENT \in Nat /\ KERNEL_SECTORS \in Nat
  /\ KERNEL_LOAD_SEGMENT + KERNEL_SECTORS <= SEGMENTS
  /\ LBAS \in Nat /\ KERNEL_SECTORS + 1 < LBAS
BY BootloaderAssumption

\* The sector the BIOS reads is the one the loop asks for.
LEMMA ReadsTheSector ==
  ASSUME LoaderInv, stage = "load", sectors_remaining # 0, sectors_per_cylinder # 0
  PROVE  L!Chs(current_lba) = current_lba
<1> PICK h \in 1 .. BYTE, s \in 1 .. BYTE - 1 :
      h = geometry.heads /\ s = geometry.sectors /\ KERNEL_SECTORS < BYTE * CYLINDER_HIGH * (h * s)
  BY BootloaderAssumption DEF LoaderInv, LoaderType
<1>1. h \in Nat /\ h > 0 /\ s \in Nat /\ s > 0
  BY LoaderConstants
<1>2. /\ sectors_per_track = s /\ heads_per_cylinder = h % BYTE
      /\ sectors_per_cylinder = heads_per_cylinder * sectors_per_track
      /\ current_lba = 1 + Loaded
  BY DEF LoaderInv, LoadInv
<1>3. h # BYTE
  <2>1. h = BYTE => h % BYTE = 0
    BY LoaderConstants
  <2>2. 0 * s = 0
    BY <1>1
  <2> QED
    BY <1>2, <2>1, <2>2
<1>4. h < BYTE /\ h % BYTE = h
  BY <1>1, <1>3, LoaderConstants, SmallRemainder
<1>5. sectors_per_cylinder = h * s /\ h * s \in Nat /\ h * s > 0
  BY <1>1, <1>2, <1>4
<1>6. current_lba \in Nat /\ current_lba <= KERNEL_SECTORS
  BY <1>2, LoaderConstants DEF LoaderInv, LoaderType, Loaded
<1>7. BYTE * CYLINDER_HIGH * (h * s) \in Nat
  BY <1>1, LoaderConstants
<1>8. current_lba < BYTE * CYLINDER_HIGH * (h * s)
  BY <1>6, <1>7, LoaderConstants
<1> PICK c \in Nat, rest \in Nat : c = current_lba \div (h * s) /\ rest = current_lba % (h * s)
  BY <1>5, <1>6, Division
<1>9. Address(BYTE, CYLINDER_HIGH, h, s, c, rest) = current_lba
  <2>1. BYTE \in Nat /\ BYTE > 0 /\ CYLINDER_HIGH \in Nat
    BY LoaderConstants
  <2> QED
    BY ONLY <1>1, <1>4, <1>6, <1>8, <2>1, c \in Nat, rest \in Nat,
            c = current_lba \div (h * s), rest = current_lba % (h * s), ChsRoundTrip, SMTT(30)
<1> QED
  BY <1>2, <1>5, <1>9, ZenonT(30) DEF L!Chs, L!Bios, Address

\* The loader keeps its invariant.
LEMMA LoaderStep ==
  ASSUME LoaderInv, [BootNext]_boot_vars
  PROVE  LoaderInv'
<1>1. [L!Loader]_loader_vars
  BY LoaderMoves
<1>2. /\ geometry \in Geometries /\ memory \in [0 .. SEGMENTS - 1 -> Int]
      /\ sectors_remaining \in 0 .. KERNEL_SECTORS
  BY DEF LoaderInv, LoaderType
<1>3. L!disk_error => LoaderInv'
  BY DEF L!disk_error, LoaderInv, LoaderType, LoadInv
<1>4. ASSUME L!get_disk_geometry
      PROVE  LoaderInv'
  <2>1. CASE L!disk_error
    BY <1>3, <2>1
  <2>2. CASE ~L!disk_error
    <3>1. /\ stage' = "load" /\ geometry' = geometry /\ memory' = memory
          /\ sectors_per_track' = geometry.sectors
          /\ heads_per_cylinder' = L!Heads(geometry.heads - 1)
          /\ sectors_per_cylinder' = heads_per_cylinder' * sectors_per_track'
          /\ sectors_remaining' = KERNEL_SECTORS /\ current_lba' = 1
          /\ current_segment' = KERNEL_LOAD_SEGMENT
      BY <1>4, <2>2 DEF L!get_disk_geometry
    <3>2. L!Heads(geometry.heads - 1) = geometry.heads % BYTE
      <4> PICK h \in 1 .. BYTE : h = geometry.heads
        BY <1>2, BootloaderAssumption, ZenonT(30)
      <4>1. h - 1 + 1 = h
        BY LoaderConstants
      <4> QED
        BY <4>1 DEF L!Heads
    <3>3. Loaded' = 0
      BY <3>1, LoaderConstants DEF Loaded
    <3>4. KERNEL_SECTORS \in 0 .. KERNEL_SECTORS
      BY LoaderConstants
    <3>5. LoaderType'
      BY <1>2, <3>1, <3>4 DEF LoaderType
    <3>6. LoadInv'
      BY <3>1, <3>2, <3>3, LoaderConstants DEF LoadInv
    <3> QED
      BY <3>5, <3>6 DEF LoaderInv
  <2> QED
    BY <2>1, <2>2
<1>5. ASSUME L!read_loop
      PROVE  LoaderInv'
  <2>1. stage = "load" /\ sectors_remaining # 0
    BY <1>5 DEF L!read_loop
  <2>2. CASE L!disk_error
    BY <1>3, <2>2
  <2>3. CASE stage' = "fault" /\ UNCHANGED <<geometry, sectors_remaining, memory>>
    BY <1>2, <2>3 DEF LoaderInv, LoaderType, LoadInv
  <2>4. CASE /\ sectors_per_cylinder # 0
             /\ memory' = [memory EXCEPT ![current_segment] = L!Chs(current_lba)]
             /\ sectors_remaining' = L!Remaining
             /\ current_lba' = (current_lba + 1) % LBAS
             /\ current_segment' = (current_segment + 1) % SEGMENTS
             /\ UNCHANGED <<geometry, stage, sectors_per_track, heads_per_cylinder, sectors_per_cylinder>>
    <3> PICK n \in Nat : n = Loaded /\ n < KERNEL_SECTORS /\ sectors_remaining = KERNEL_SECTORS - n
      BY <1>2, <2>1, LoaderConstants DEF Loaded
    <3>1. /\ current_lba = 1 + n /\ current_segment = KERNEL_LOAD_SEGMENT + n
          /\ \A i \in 0 .. n - 1 : memory[KERNEL_LOAD_SEGMENT + i] = 1 + i
      BY <2>1 DEF LoaderInv, LoadInv
    <3>2. L!Chs(current_lba) = 1 + n
      BY <2>1, <2>4, <3>1, ReadsTheSector
    <3>3. memory' = [memory EXCEPT ![KERNEL_LOAD_SEGMENT + n] = 1 + n]
      BY <2>4, <3>1, <3>2, ZenonT(30)
    <3>4. KERNEL_LOAD_SEGMENT + n \in 0 .. SEGMENTS - 1
      BY LoaderConstants
    <3>5. sectors_remaining' = KERNEL_SECTORS - (n + 1) /\ Loaded' = n + 1
      BY <2>4, LoaderConstants DEF L!Remaining, Loaded
    <3>6. \A i \in 0 .. n : memory'[KERNEL_LOAD_SEGMENT + i] = 1 + i
      <4> SUFFICES ASSUME NEW i \in 0 .. n PROVE memory'[KERNEL_LOAD_SEGMENT + i] = 1 + i
        OBVIOUS
      <4>1. KERNEL_LOAD_SEGMENT + i \in 0 .. SEGMENTS - 1
        BY LoaderConstants
      <4>2. CASE i = n
        BY <1>2, <3>3, <4>1, <4>2
      <4>3. CASE i \in 0 .. n - 1
        <5>1. KERNEL_LOAD_SEGMENT + i # KERNEL_LOAD_SEGMENT + n
          BY <4>3, LoaderConstants
        <5> QED
          BY <1>2, <3>1, <3>3, <4>1, <4>3, <5>1
      <4> QED
        BY <4>2, <4>3
    <3>7. current_lba' = 1 + (n + 1)
      <4>1. 1 + n + 1 \in Nat /\ 1 + n + 1 < LBAS
        BY LoaderConstants
      <4> QED
        BY <2>4, <3>1, <4>1, LoaderConstants, SmallRemainder
    <3>8. n + 1 # KERNEL_SECTORS => current_segment' = KERNEL_LOAD_SEGMENT + (n + 1)
      <4> SUFFICES ASSUME n + 1 # KERNEL_SECTORS
                   PROVE  current_segment' = KERNEL_LOAD_SEGMENT + (n + 1)
        OBVIOUS
      <4>1. /\ KERNEL_LOAD_SEGMENT + n + 1 \in Nat /\ KERNEL_LOAD_SEGMENT + n + 1 < SEGMENTS
            /\ KERNEL_LOAD_SEGMENT + n + 1 = KERNEL_LOAD_SEGMENT + (n + 1)
        BY LoaderConstants
      <4> QED
        BY <2>4, <3>1, <4>1, LoaderConstants, SmallRemainder
    <3>9. LoaderType'
      <4>1. memory' \in [0 .. SEGMENTS - 1 -> Int]
        <5> PICK v \in Int, p \in 0 .. SEGMENTS - 1 : v = 1 + n /\ p = KERNEL_LOAD_SEGMENT + n
          BY <3>4
        <5>1. memory' = [memory EXCEPT ![p] = v]
          BY <3>3
        <5> QED
          BY <1>2, <5>1
      <4>2. sectors_remaining' \in 0 .. KERNEL_SECTORS
        BY <3>5, LoaderConstants
      <4> QED
        BY <1>2, <2>1, <2>4, <4>1, <4>2 DEF LoaderType
    <3>10. sectors_remaining' # 0 => n + 1 # KERNEL_SECTORS
      BY <3>5, LoaderConstants
    <3>11. n + 1 - 1 = n
      OBVIOUS
    <3>12. /\ sectors_per_track = geometry.sectors
           /\ heads_per_cylinder = geometry.heads % BYTE
           /\ sectors_per_cylinder = heads_per_cylinder * sectors_per_track
      BY <2>1 DEF LoaderInv, LoadInv
    <3>13. LoadInv'
      BY <2>1, <2>4, <3>5, <3>6, <3>7, <3>8, <3>10, <3>11, <3>12 DEF LoadInv
    <3> QED
      BY <3>9, <3>13 DEF LoaderInv
  <2> QED
    BY <1>5, <2>2, <2>3, <2>4 DEF L!read_loop
<1>6. ASSUME L!enter_kernel
      PROVE  LoaderInv'
  BY <1>6 DEF L!enter_kernel, LoaderInv, LoaderType, LoadInv, Loaded
<1>7. ASSUME UNCHANGED loader_vars
      PROVE  LoaderInv'
  BY <1>7 DEF loader_vars, LoaderInv, LoaderType, LoadInv, Loaded
<1> QED
  BY <1>1, <1>4, <1>5, <1>6, <1>7 DEF L!Loader

(***************************************************************************)
(* For every kernel size and every drive geometry that can address the     *)
(* kernel, whatever reads fail: the boot sector jumps to the kernel only   *)
(* with each of its sectors at its place, the ten-bit cylinder, the head   *)
(* and the sector number all computed through bytes.                       *)
(***************************************************************************)
THEOREM KernelIsComplete == BootSpec => []KernelIsLoaded
<1>1. BootInit => LoaderInv
  <2> SUFFICES ASSUME BootInit PROVE LoaderInv
    OBVIOUS
  <2>1. /\ geometry \in Geometries /\ stage = "geometry" /\ sectors_remaining = 0
        /\ memory = [s \in 0 .. SEGMENTS - 1 |-> -1]
    BY DEF BootInit, L!Init, L!NoSector
  <2> QED
    BY <2>1, LoaderConstants DEF LoaderInv, LoaderType, LoadInv
<1>2. LoaderInv /\ [BootNext]_boot_vars => LoaderInv'
  BY LoaderStep
<1>3. LoaderInv => KernelIsLoaded
  <2> SUFFICES ASSUME LoaderInv, stage = "kernel" PROVE KernelIsLoaded
    BY DEF KernelIsLoaded
  <2>1. Loaded = KERNEL_SECTORS
    BY LoaderConstants DEF LoaderInv, LoadInv, Loaded
  <2> QED
    BY <2>1 DEF LoaderInv, LoadInv, KernelIsLoaded
<1> QED
  BY <1>1, <1>2, <1>3, PTL DEF BootSpec
=============================================================================
