------------------------------- MODULE Paging -------------------------------
(***************************************************************************)
(* memory::paging::init: build an identity map out of frames taken from    *)
(* the pool, record the directory in both TSSes, and turn paging on.  It   *)
(* runs once, with interrupts masked, and may run out of frames anywhere.  *)
(*                                                                         *)
(* Addresses are scaled down: a frame is FRAME_SIZE bytes and holds        *)
(* ENTRIES entries, and the address space is exactly what one directory    *)
(* can map.  The allocator is its specification: any free frame (module    *)
(* FrameAllocator), whose contents are whatever was there.                 *)
(***************************************************************************)
EXTENDS Integers, FiniteSets, FiniteSetsExt

CONSTANTS
  FRAME_SIZE, ENTRIES,
  Machines      \* [usable: ends of the usable regions, pool: free frames, guard: frame]

BYTES_PER_DIRECTORY_ENTRY == FRAME_SIZE * ENTRIES
AddressSpace == BYTES_PER_DIRECTORY_ENTRY * ENTRIES
Indices == 0 .. ENTRIES - 1
Frames == 0 .. ENTRIES * ENTRIES - 1

\* The pool holds frames that lie whole in usable memory (module MemoryMap), and
\* the guard page belongs to the kernel.
ASSUME PagingAssumption ==
  /\ FRAME_SIZE \in Nat \ {0} /\ ENTRIES \in Nat \ {0}
  /\ \A m \in Machines :
       /\ m.usable \subseteq Nat /\ (m.usable # {} => \E last \in m.usable : \A e \in m.usable : e <= last)
       /\ m.pool \subseteq Frames /\ m.guard \in Frames \ m.pool
       /\ \A f \in m.pool : \E e \in m.usable : (f + 1) * FRAME_SIZE <= e

Absent == -1    \* an entry without its present bit; otherwise the frame it names
Garbage == 0    \* what memory nobody cleared decodes to

VARIABLES
  machine,
  step,         \* "start", "directory", "tables", "tss", "enable", "report" or "done"
  mapped_end,
  directory,    \* its frame, or Absent
  table_index,
  free,         \* frames still in the pool
  memory,       \* entries of every frame
  tss_cr3,      \* CR3 in the main and in the double-fault TSS
  cr3, pg,      \* the CPU's registers
  report        \* what init returned

vars == <<machine, step, mapped_end, directory, table_index, free, memory, tss_cr3, cr3, pg, report>>

NoReport == [mapped_end |-> 0, paging_enabled |-> FALSE, guard |-> FALSE]

Init ==
  /\ machine \in Machines
  /\ step = "start" /\ mapped_end = 0 /\ directory = Absent /\ table_index = 0
  /\ free = machine.pool
  /\ memory = [f \in Frames |-> [i \in Indices |-> Garbage]]
  /\ tss_cr3 = [main |-> Absent, double_fault |-> Absent]
  /\ cr3 = Absent /\ pg = FALSE /\ report = NoReport

min(x, y) == IF x < y THEN x ELSE y
div_ceil(x, y) == (x + y - 1) \div y

\* The cap is one directory entry below the top of the address space.
identity_map_end(ends) ==
  IF ends = {} THEN 0
  ELSE min(div_ceil(min(Max(ends), AddressSpace), BYTES_PER_DIRECTORY_ENTRY)
             * BYTES_PER_DIRECTORY_ENTRY,
           AddressSpace - BYTES_PER_DIRECTORY_ENTRY)

Fail == step' = "done" /\ report' = NoReport

start ==
  /\ step = "start"
  /\ mapped_end' = identity_map_end(machine.usable)
  /\ IF mapped_end' = 0 THEN Fail ELSE step' = "directory" /\ UNCHANGED report
  /\ UNCHANGED <<machine, directory, table_index, free, memory, tss_cr3, cr3, pg>>

zeroed == [i \in Indices |-> Absent]

\* Mutant: the frame is not cleared.
fresh_dirty(f) == memory[f]

\* What a page table or directory starts from: allocate_zeroed_frame.
fresh(f) == zeroed

allocate_directory ==
  /\ step = "directory"
  /\ IF free = {} THEN Fail /\ UNCHANGED <<directory, free, memory>>
     ELSE /\ \E f \in free : /\ directory' = f /\ free' = free \ {f}
                             /\ memory' = [memory EXCEPT ![f] = fresh(f)]
          /\ step' = "tables" /\ UNCHANGED report
  /\ UNCHANGED <<machine, mapped_end, table_index, tss_cr3, cr3, pg>>

page_table_count == mapped_end \div BYTES_PER_DIRECTORY_ENTRY

\* Mutant: the guard page is mapped like every other.
table_entries_all(index, f) == [i \in Indices |-> index * ENTRIES + i]

table_entries(index, f) ==
  [i \in Indices |-> LET phys == index * ENTRIES + i
                     IN  IF phys = machine.guard THEN fresh(f)[i] ELSE phys]

allocate_table ==
  /\ step = "tables" /\ table_index < page_table_count
  /\ IF free = {} THEN Fail /\ UNCHANGED <<table_index, free, memory>>
     ELSE /\ \E f \in free :
               /\ free' = free \ {f}
               /\ memory' = [memory EXCEPT ![f] = table_entries(table_index, f),
                                           ![directory][table_index] = f]
          /\ table_index' = table_index + 1
          /\ UNCHANGED <<step, report>>
  /\ UNCHANGED <<machine, mapped_end, directory, tss_cr3, cr3, pg>>

\* Mutant: only the interrupted task's TSS is told.
set_page_directory_main ==
  /\ step = "tables" /\ table_index = page_table_count
  /\ tss_cr3' = [tss_cr3 EXCEPT !.main = directory]
  /\ step' = "enable"
  /\ UNCHANGED <<machine, mapped_end, directory, table_index, free, memory, cr3, pg, report>>

set_page_directory ==
  /\ step = "tables" /\ table_index = page_table_count
  /\ tss_cr3' = [main |-> directory, double_fault |-> directory]
  /\ step' = "enable"
  /\ UNCHANGED <<machine, mapped_end, directory, table_index, free, memory, cr3, pg, report>>

enable ==
  /\ step = "enable"
  /\ cr3' = directory /\ pg' = TRUE
  /\ step' = "report"
  /\ UNCHANGED <<machine, mapped_end, directory, table_index, free, memory, tss_cr3, report>>

\* The frame page v is mapped to, through the directory at frame dir; CR3's.
Translate(dir, v) ==
  LET pde == memory[dir][v \div ENTRIES]
  IN  IF pde = Absent THEN Absent ELSE memory[pde][v % ENTRIES]
Walk(v) == Translate(cr3, v)
is_present(v) == cr3 # Absent /\ Walk(v) # Absent

make_report ==
  /\ step = "report"
  /\ LET guard_unmapped == ~is_present(machine.guard)
     IN  report' = [mapped_end |-> mapped_end,
                    paging_enabled |-> pg /\ cr3 = directory /\ guard_unmapped,
                    guard |-> guard_unmapped]
  /\ step' = "done"
  /\ UNCHANGED <<machine, mapped_end, directory, table_index, free, memory, tss_cr3, cr3, pg>>

Done == step = "done" /\ UNCHANGED vars

Steps == start \/ allocate_directory \/ allocate_table \/ set_page_directory \/ enable
           \/ make_report

Next == Steps \/ Done

Spec == Init /\ [][Next]_vars
-----------------------------------------------------------------------------
(***************************************************************************)
(* With paging on, every page below mapped_end is mapped to itself, the    *)
(* directory and the tables included, except the stack guard page; nothing *)
(* else is mapped, whatever the frames held before.  Below the cap no      *)
(* frame of the pool is left out: whatever it hands out later can be       *)
(* touched.  init reports success exactly then: running out of frames      *)
(* half-way leaves paging off.                                             *)
(***************************************************************************)
MapIsIdentity ==
  /\ pg => /\ \A v \in Frames :
                 Walk(v) = IF v * FRAME_SIZE < mapped_end /\ v # machine.guard THEN v ELSE Absent
           /\ \A f \in machine.pool :
                 f * FRAME_SIZE < AddressSpace - BYTES_PER_DIRECTORY_ENTRY => Walk(f) = f
  /\ step = "done" => report.paging_enabled = pg

(***************************************************************************)
(* Paging is never on with a double-fault task that would switch to        *)
(* another directory: both TSSes carry the directory in CR3.               *)
(***************************************************************************)
TssFollowsCr3 == pg => tss_cr3.main = cr3 /\ tss_cr3.double_fault = cr3
=============================================================================
