---------------------------- MODULE FaultsProofs ----------------------------
(***************************************************************************)
(* Paging and CPU exceptions.  For every size of a frame, every number of  *)
(* entries, every memory map and every pool, paging::init turns paging on  *)
(* only with a finished identity map, in CR3 and in both task state        *)
(* segments; exceptions, at whatever point of the boot they come, leave    *)
(* that map alone, what is reported of them is true, and the guard page    *)
(* stops the stack.                                                        *)
(***************************************************************************)
EXTENDS Faults, TLAPS

\* The provers have half a minute for each leaf that names none itself.
USE SMTT(30), ZenonT(30)

\* Sizes of the tables and of the address space.
LEMMA Constants ==
  /\ FRAME_SIZE \in Nat /\ FRAME_SIZE >= 1 /\ ENTRIES \in Nat /\ ENTRIES >= 1
  /\ Indices = 0 .. ENTRIES - 1 /\ Frames = 0 .. ENTRIES * ENTRIES - 1
  /\ BYTES_PER_DIRECTORY_ENTRY = FRAME_SIZE * ENTRIES
  /\ AddressSpace = BYTES_PER_DIRECTORY_ENTRY * ENTRIES
BY PagingAssumption DEF Indices, Frames, BYTES_PER_DIRECTORY_ENTRY, AddressSpace

\* Products grow with their factors.
LEMMA Monotone ==
  ASSUME NEW a \in Int, NEW b \in Int, NEW c \in Nat, a <= b
  PROVE  a * c <= b * c
OBVIOUS

\* Products of positive numbers are positive.
LEMMA Positive ==
  ASSUME NEW a \in Nat, NEW b \in Nat, a >= 1, b >= 1
  PROVE  a * b \in Nat /\ a * b >= 1
OBVIOUS

\* Quotient and remainder.
LEMMA DivMod ==
  ASSUME NEW v \in Nat, NEW d \in Nat, d >= 1
  PROVE  /\ v \div d \in Nat /\ v % d \in 0 .. d - 1
         /\ v = (v \div d) * d + (v % d)
OBVIOUS

\* A page below n groups of d lies in one of the first n, and no other does.
LEMMA Below ==
  ASSUME NEW v \in Nat, NEW d \in Nat, d >= 1, NEW n \in Nat
  PROVE  v < n * d <=> v \div d < n
<1>1. v \div d \in Nat /\ v % d \in 0 .. d - 1 /\ v = (v \div d) * d + (v % d)
  BY DivMod, ZenonT(30)
<1>2. ASSUME v \div d < n PROVE v < n * d
  <2>1. (v \div d + 1) * d <= n * d
    BY <1>1, <1>2, Monotone
  <2>2. (v \div d + 1) * d = (v \div d) * d + d
    BY <1>1
  <2> QED BY <1>1, <2>1, <2>2
<1>3. ASSUME v \div d >= n PROVE v >= n * d
  BY <1>1, <1>3, Monotone
<1> QED BY <1>1, <1>2, <1>3

\* Page numbers and their entries.
LEMMA PageOf ==
  ASSUME NEW q \in Indices, NEW r \in Indices
  PROVE  q * ENTRIES + r \in Frames
<1> q \in Nat /\ r \in Nat /\ r <= ENTRIES - 1 /\ q + 1 <= ENTRIES
  BY Constants
<1>1. (q + 1) * ENTRIES <= ENTRIES * ENTRIES
  BY Constants, Monotone
<1>2. (q + 1) * ENTRIES = q * ENTRIES + ENTRIES /\ q * ENTRIES \in Nat
  BY Constants
<1> QED BY <1>1, <1>2, Constants

\* A page number is a directory index and a table index.
LEMMA PageSplit ==
  ASSUME NEW v \in Frames
  PROVE  /\ v \div ENTRIES \in Indices /\ v % ENTRIES \in Indices
         /\ v = (v \div ENTRIES) * ENTRIES + (v % ENTRIES)
<1> v \in Nat /\ v < ENTRIES * ENTRIES
  BY Constants
<1>1. v \div ENTRIES \in Nat /\ v % ENTRIES \in 0 .. ENTRIES - 1
      /\ v = (v \div ENTRIES) * ENTRIES + (v % ENTRIES)
  BY Constants, DivMod, ZenonT(30)
<1>2. v \div ENTRIES < ENTRIES
  BY Constants, Below
<1> QED BY <1>1, <1>2, Constants

\* A whole number of directory entries divides back.
LEMMA WholeEntries ==
  ASSUME NEW n \in Nat
  PROVE  (n * BYTES_PER_DIRECTORY_ENTRY) \div BYTES_PER_DIRECTORY_ENTRY = n
<1> DEFINE d == BYTES_PER_DIRECTORY_ENTRY
<1>1. d \in Nat /\ d >= 1
  BY Constants, Positive
<1> HIDE DEF d
<1>2. n * d \in Nat /\ ~(n * d < n * d) /\ n * d < (n + 1) * d
  BY <1>1
<1>3. ~((n * d) \div d < n) /\ (n * d) \div d < n + 1
  BY <1>1, <1>2, Below
<1>4. (n * d) \div d \in Nat
  BY <1>1, <1>2, DivMod
<1> QED BY <1>3, <1>4 DEF d

\* The end of the map is a whole number of directory entries, at most one short
\* of all, and beyond every frame of the pool below the cap.
LEMMA MapEnd ==
  ASSUME NEW m \in Machines
  PROVE  /\ \E k \in 0 .. ENTRIES - 1 :
              identity_map_end(m.usable) = k * BYTES_PER_DIRECTORY_ENTRY
         /\ \A f \in m.pool :
              f * FRAME_SIZE < AddressSpace - BYTES_PER_DIRECTORY_ENTRY
                => f * FRAME_SIZE < identity_map_end(m.usable)
<1> DEFINE d == BYTES_PER_DIRECTORY_ENTRY
           e == identity_map_end(m.usable)
<1>d. d \in Nat /\ d >= 1 /\ d = FRAME_SIZE * ENTRIES
  BY Constants, Positive
<1>cap. AddressSpace - d = (ENTRIES - 1) * d /\ AddressSpace = ENTRIES * d /\ AddressSpace \in Nat
  BY Constants, <1>d
<1>1. CASE m.usable = {}
  <2>1. e = 0 * d
    BY <1>1, <1>d DEF identity_map_end
  <2>2. m.pool = {}
    BY <1>1, PagingAssumption
  <2> QED BY <2>1, <2>2, Constants
<1>2. CASE m.usable # {}
  <2> DEFINE last == Max(m.usable)
             x == min(last, AddressSpace)
             c == div_ceil(x, d)
  <2>1. last \in m.usable /\ \A y \in m.usable : last >= y
    <3>1. \E l \in m.usable : \A y \in m.usable : l >= y
      BY <1>2, PagingAssumption
    <3> QED BY <3>1 DEF Max
  <2>2. last \in Nat
    BY <2>1, PagingAssumption
  <2>3. x \in Nat /\ x <= AddressSpace /\ (x = last \/ x = AddressSpace)
    BY <2>2, <1>cap DEF min
  <2>4. c = (x + d - 1) \div d
    BY DEF div_ceil
  <2> HIDE DEF last, x, c, d
  <2>5. c \in Nat /\ c * d >= x
    <3>1. x + d - 1 \in Nat
      BY <2>3, <1>d
    <3>2. c \in Nat /\ (x + d - 1) % d \in 0 .. d - 1 /\ x + d - 1 = c * d + ((x + d - 1) % d)
      BY <3>1, <2>4, <1>d, DivMod, ZenonT(30)
    <3> QED BY <3>1, <3>2, <1>d, <2>3
  <2>6. e = min(c * d, (ENTRIES - 1) * d)
    BY <1>2, <1>cap DEF identity_map_end, last, x, c, d
  <2>7. \E k \in 0 .. ENTRIES - 1 : e = k * d
    <3>1. CASE c <= ENTRIES - 1
      <4>1. c * d <= (ENTRIES - 1) * d
        BY <3>1, <2>5, <1>d, Constants, Monotone
      <4>2. e = c * d
        BY <4>1, <2>6, <2>5, <1>d, Constants DEF min
      <4> QED BY <3>1, <4>2, <2>5, Constants
    <3>2. CASE c >= ENTRIES - 1
      <4>1. (ENTRIES - 1) * d <= c * d
        BY <3>2, <2>5, <1>d, Constants, Monotone
      <4>2. e = (ENTRIES - 1) * d
        BY <4>1, <2>6, <2>5, <1>d, Constants DEF min
      <4> QED BY <4>2, Constants
    <3> QED BY <3>1, <3>2, <2>5, Constants
  <2>8. ASSUME NEW f \in m.pool, f * FRAME_SIZE < AddressSpace - d
        PROVE  f * FRAME_SIZE < e
    <3>1. f \in Frames /\ \E y \in m.usable : (f + 1) * FRAME_SIZE <= y
      BY PagingAssumption
    <3>2. f \in Nat /\ f + 1 <= ENTRIES * ENTRIES
      BY <3>1, Constants
    <3>3. (f + 1) * FRAME_SIZE <= last
      BY <3>1, <3>2, <2>1, <2>2, Constants, PagingAssumption
    <3>4. (f + 1) * FRAME_SIZE <= AddressSpace
      <4>1. (f + 1) * FRAME_SIZE <= (ENTRIES * ENTRIES) * FRAME_SIZE
        BY <3>2, Constants, Monotone
      <4>2. AddressSpace = (ENTRIES * ENTRIES) * FRAME_SIZE
        BY Constants
      <4> QED BY <4>1, <4>2
    <3>5. (f + 1) * FRAME_SIZE = f * FRAME_SIZE + FRAME_SIZE /\ f * FRAME_SIZE \in Nat
      BY <3>2, Constants
    <3>6. f * FRAME_SIZE < x
      BY <3>3, <3>4, <3>5, <2>3, <2>2, Constants
    <3>7. f * FRAME_SIZE < c * d
      BY <3>5, <3>6, <2>3, <2>5, <1>d
    <3>8. f * FRAME_SIZE < (ENTRIES - 1) * d
      BY <2>8, <1>cap
    <3> QED BY <3>7, <3>8, <2>6 DEF min
  <2> QED BY <2>7, <2>8 DEF d
<1> QED BY <1>1, <1>2
-----------------------------------------------------------------------------
\* Steps at which the directory exists, and at which it is complete.
Building == step \in {"tables", "enable", "report"} \/ pg
Complete == step \in {"enable", "report"} \/ pg

TypeOK ==
  /\ machine \in Machines
  /\ step \in {"start", "directory", "tables", "enable", "report", "done"}
  /\ table_index \in Nat
  /\ free \subseteq machine.pool
  /\ memory \in [Frames -> [Indices -> Frames \cup {Absent}]]
  /\ pg \in BOOLEAN

\* What a finished table for directory entry i holds.
Table(i) == [j \in Indices |-> IF i * ENTRIES + j = machine.guard THEN Absent ELSE i * ENTRIES + j]

(***************************************************************************)
(* The inductive invariant: the first table_index entries of the directory *)
(* name finished tables, none of them free or the directory itself, the    *)
(* others are absent; the TSSes and then CR3 get the directory only after  *)
(* the last table.                                                         *)
(***************************************************************************)
Inv ==
  /\ TypeOK
  /\ step # "start" => mapped_end = identity_map_end(machine.usable)
  /\ Building => /\ directory \in Frames \ free
                 /\ table_index <= page_table_count
                 /\ \A i \in Indices :
                      IF i < table_index
                      THEN /\ memory[directory][i] \in Frames \ (free \cup {directory})
                           /\ memory[memory[directory][i]] = Table(i)
                      ELSE memory[directory][i] = Absent
  /\ Complete => /\ table_index = page_table_count
                 /\ tss_cr3 = [main |-> directory, double_fault |-> directory]
  /\ pg => step \in {"report", "done"} /\ cr3 = directory
  /\ step = "report" => pg
  /\ step = "done" => report.paging_enabled = pg
  /\ step \in {"start", "directory"} => table_index = 0

\* The machine, and the registers once paging is on.
LEMMA Paged ==
  ASSUME Inv
  PROVE  /\ machine \in Machines
         /\ pg => Complete /\ cr3 = directory /\ tss_cr3.double_fault = directory
<1>1. machine \in Machines
  BY DEF Inv, TypeOK
<1>2. pg => cr3 = directory
  BY DEF Inv
<1>3. pg => Complete
  BY DEF Complete
<1>4. Complete => tss_cr3 = [main |-> directory, double_fault |-> directory]
  BY DEF Inv
<1>5. Complete => tss_cr3.double_fault = directory
  BY <1>4
<1> QED BY <1>1, <1>2, <1>3, <1>5

\* page_table_count tables map exactly the bytes below mapped_end.
LEMMA Counted ==
  ASSUME TypeOK, mapped_end = identity_map_end(machine.usable)
  PROVE  page_table_count \in 0 .. ENTRIES - 1
         /\ mapped_end = page_table_count * BYTES_PER_DIRECTORY_ENTRY
<1>1. PICK k \in 0 .. ENTRIES - 1 : mapped_end = k * BYTES_PER_DIRECTORY_ENTRY
  BY MapEnd DEF TypeOK
<1>2. page_table_count = k
  BY <1>1, WholeEntries, Constants DEF page_table_count
<1> QED BY <1>1, <1>2

\* The map a complete directory makes.
LEMMA CompleteMap ==
  ASSUME Inv, Complete
  PROVE  /\ \A v \in Frames :
              Translate(directory, v)
                = IF v * FRAME_SIZE < mapped_end /\ v # machine.guard THEN v ELSE Absent
         /\ \A f \in machine.pool :
              f * FRAME_SIZE < AddressSpace - BYTES_PER_DIRECTORY_ENTRY
                => Translate(directory, f) = f
<1> TypeOK /\ step # "start" /\ Building
  BY DEF Inv, Complete, Building
<1> DEFINE n == page_table_count
<1>1. n \in 0 .. ENTRIES - 1 /\ mapped_end = n * BYTES_PER_DIRECTORY_ENTRY
  BY Counted DEF Inv
<1>2. ASSUME NEW v \in Frames
      PROVE  v * FRAME_SIZE < mapped_end <=> v \div ENTRIES < n
  <2> n \in Nat /\ v \in Nat
    BY <1>1, Constants
  <2> HIDE DEF n
  <2>1. v < n * ENTRIES <=> v \div ENTRIES < n
    BY Constants, Below
  <2>2. mapped_end = (n * ENTRIES) * FRAME_SIZE /\ n * ENTRIES \in Nat
    BY <1>1, Constants
  <2>3. ASSUME v < n * ENTRIES PROVE v * FRAME_SIZE < mapped_end
    <3>1. (v + 1) * FRAME_SIZE <= mapped_end
      BY <2>2, <2>3, Constants, Monotone
    <3>2. (v + 1) * FRAME_SIZE = v * FRAME_SIZE + FRAME_SIZE
      BY Constants
    <3> QED BY <3>1, <3>2, <2>2, Constants
  <2>4. ASSUME n * ENTRIES <= v PROVE mapped_end <= v * FRAME_SIZE
    BY <2>2, <2>4, Constants, Monotone
  <2> QED BY <2>1, <2>2, <2>3, <2>4, Constants
<1>3. ASSUME NEW v \in Frames
      PROVE  Translate(directory, v)
               = IF v \div ENTRIES < n /\ v # machine.guard THEN v ELSE Absent
  <2> DEFINE q == v \div ENTRIES
             r == v % ENTRIES
  <2>1. q \in Indices /\ r \in Indices /\ v = q * ENTRIES + r
    BY PageSplit
  <2>2. table_index = n
    BY DEF Inv
  <2> HIDE DEF q, r, n
  <2>3. CASE q < n
    <3>1. memory[directory][q] \in Frames /\ memory[memory[directory][q]] = Table(q)
      BY <2>1, <2>2, <2>3 DEF Inv
    <3>2. memory[directory][q] # Absent
      BY <3>1, Constants DEF Absent
    <3>3. Translate(directory, v) = Table(q)[r]
      BY <3>1, <3>2 DEF Translate, q, r
    <3> QED BY <3>3, <2>1, <2>3 DEF Table, q
  <2>4. CASE ~(q < n)
    <3>1. memory[directory][q] = Absent
      BY <2>1, <2>2, <2>4 DEF Inv
    <3>2. Translate(directory, v) = Absent
      BY <3>1 DEF Translate, q
    <3> QED BY <3>2, <2>4 DEF q
  <2> QED BY <2>3, <2>4
<1>4. ASSUME NEW f \in machine.pool, f * FRAME_SIZE < AddressSpace - BYTES_PER_DIRECTORY_ENTRY
      PROVE  Translate(directory, f) = f
  <2>1. f \in Frames /\ f # machine.guard
    BY PagingAssumption DEF TypeOK
  <2>2. f * FRAME_SIZE < mapped_end
    BY <1>4, MapEnd DEF Inv, TypeOK
  <2> QED BY <2>1, <2>2, <1>2, <1>3
<1> QED BY <1>2, <1>3, <1>4
-----------------------------------------------------------------------------
\* The invariant holds when init is called.
LEMMA InitInv == Init => Inv
<1> SUFFICES ASSUME Init PROVE Inv
  OBVIOUS
<1>1. memory \in [Frames -> [Indices -> Frames \cup {Absent}]]
  <2>1. Garbage \in Frames
    BY Constants, Positive DEF Garbage
  <2> QED BY <2>1 DEF Init
<1> QED BY <1>1, ZenonT(30) DEF Init, Inv, TypeOK, Building, Complete

\* Giving up before paging is on.
LEMMA FailInv ==
  ASSUME Inv, ~pg, Fail, UNCHANGED <<machine, free, memory, cr3, pg, table_index>>,
         mapped_end' = identity_map_end(machine.usable)
  PROVE  Inv'
<1>1. pg' = FALSE
  BY DEF Inv, TypeOK
<1>2. report'.paging_enabled = FALSE /\ step' = "done"
  BY DEF Fail, NoReport
<1>3. ~Building' /\ ~Complete'
  BY <1>1, <1>2 DEF Building, Complete
<1>4. TypeOK'
  BY <1>2 DEF Inv, TypeOK
<1> QED BY <1>1, <1>2, <1>3, <1>4, ZenonT(30) DEF Inv

\* Every step of init keeps it.
LEMMA NextInv == Inv /\ [Next]_vars => Inv'
<1> SUFFICES ASSUME Inv, [Next]_vars PROVE Inv'
  OBVIOUS
<1>1. CASE start
  <2>1. step = "start" /\ ~pg /\ UNCHANGED <<machine, free, memory, cr3, pg, table_index>>
        /\ mapped_end' = identity_map_end(machine.usable)
    BY <1>1 DEF start, Inv
  <2>2. CASE mapped_end' = 0
    BY <1>1, <2>1, <2>2, FailInv DEF start
  <2>3. CASE mapped_end' # 0
    <3>1. step' = "directory"
      BY <1>1, <2>3 DEF start
    <3>2. ~Building' /\ ~Complete'
      BY <2>1, <3>1 DEF Building, Complete
    <3> QED BY <2>1, <3>1, <3>2 DEF Inv, TypeOK
  <2> QED BY <2>2, <2>3
<1>2. CASE allocate_directory
  <2>1. CASE free = {}
    <3>1. step = "directory" /\ Fail /\ UNCHANGED <<machine, free, memory, cr3, pg, table_index, mapped_end>>
      BY <1>2, <2>1 DEF allocate_directory
    <3> QED BY <3>1, FailInv DEF Inv
  <2>2. CASE free # {}
    <3>1. PICK f \in free : /\ directory' = f /\ free' = free \ {f}
                            /\ memory' = [memory EXCEPT ![f] = zeroed]
      BY <1>2, <2>2 DEF allocate_directory, fresh
    <3>2. f \in Frames
      BY PagingAssumption DEF Inv, TypeOK
    <3>3. memory' \in [Frames -> [Indices -> Frames \cup {Absent}]]
      BY <3>1, <3>2 DEF Inv, TypeOK, zeroed
    <3>4. \A i \in Indices : memory'[directory'][i] = Absent
      BY <3>1, <3>2 DEF Inv, TypeOK, zeroed
    <3>5. step' = "tables" /\ UNCHANGED <<report, machine, mapped_end, table_index, tss_cr3, cr3, pg>>
          /\ step = "directory"
      BY <1>2, <2>2 DEF allocate_directory
    <3>6. page_table_count \in Nat /\ page_table_count' = page_table_count
      BY <3>5, Counted, Constants DEF Inv, page_table_count
    <3>7. table_index' = 0 /\ ~pg
      BY <3>5 DEF Inv
    <3>8. \A i \in Indices : ~(i < table_index')
      BY <3>7, Constants
    <3> QED BY <3>1, <3>2, <3>3, <3>4, <3>5, <3>6, <3>7, <3>8 DEF Inv, TypeOK, Building, Complete
  <2> QED BY <2>1, <2>2
<1>3. CASE allocate_table
  <2>1. CASE free = {}
    <3>1. step = "tables" /\ Fail /\ UNCHANGED <<machine, free, memory, cr3, pg, table_index, mapped_end>>
      BY <1>3, <2>1 DEF allocate_table
    <3> QED BY <3>1, FailInv DEF Inv
  <2>2. CASE free # {}
    <3>1. PICK f \in free : /\ free' = free \ {f}
                            /\ memory' = [memory EXCEPT ![f] = table_entries(table_index, f),
                                                        ![directory][table_index] = f]
      BY <1>3, <2>2 DEF allocate_table
    <3>2. f \in Frames /\ directory \in Frames /\ f # directory
      BY <1>3, PagingAssumption DEF allocate_table, Inv, TypeOK, Building
    <3>3. /\ step = "tables" /\ table_index < page_table_count /\ table_index' = table_index + 1
          /\ UNCHANGED <<step, report, machine, mapped_end, directory, tss_cr3, cr3, pg>>
      BY <1>3, <2>2 DEF allocate_table
    <3>4. /\ page_table_count \in 0 .. ENTRIES - 1 /\ page_table_count' = page_table_count
          /\ table_index \in Indices
      BY <3>3, Counted, Constants DEF Inv, TypeOK, page_table_count
    <3>5. table_entries(table_index, f) = Table(table_index)
      BY DEF table_entries, Table, fresh, zeroed
    <3>6. Table(table_index) \in [Indices -> Frames \cup {Absent}]
      BY <3>4, PageOf DEF Table
    <3>7. memory'[f] = Table(table_index)
      BY <3>1, <3>2, <3>5, <3>6 DEF Inv, TypeOK
    <3>8. memory'[directory] = [memory[directory] EXCEPT ![table_index] = f]
      BY <3>1, <3>2, <3>5 DEF Inv, TypeOK
    <3>9. \A g \in Frames \ {f, directory} : memory'[g] = memory[g]
      BY <3>1, <3>2 DEF Inv, TypeOK
    <3>10. memory' \in [Frames -> [Indices -> Frames \cup {Absent}]]
      <4>1. memory[directory] \in [Indices -> Frames \cup {Absent}]
        BY <3>2 DEF Inv, TypeOK
      <4>2. [memory[directory] EXCEPT ![table_index] = f] \in [Indices -> Frames \cup {Absent}]
        BY <4>1, <3>2, ZenonT(30)
      <4>3. \A g \in Frames : memory'[g] \in [Indices -> Frames \cup {Absent}]
        BY <3>6, <3>7, <3>8, <3>9, <4>2 DEF Inv, TypeOK
      <4>4. DOMAIN memory' = Frames /\ memory' = [g \in Frames |-> memory'[g]]
        BY <3>1, ZenonT(30) DEF Inv, TypeOK
      <4> QED BY <4>3, <4>4
    <3>11. ASSUME NEW i \in Indices
           PROVE  IF i < table_index'
                  THEN /\ memory'[directory'][i] \in Frames \ (free' \cup {directory'})
                       /\ memory'[memory'[directory'][i]] = Table(i)'
                  ELSE memory'[directory'][i] = Absent
      <4>0. Table(i)' = Table(i)
        BY <3>3 DEF Table
      <4>1. CASE i = table_index
        <5>1. memory'[directory'][i] = f
          BY <4>1, <3>2, <3>3, <3>4, <3>8 DEF Inv, TypeOK
        <5> QED BY <5>1, <4>0, <4>1, <3>1, <3>2, <3>3, <3>4, <3>7, Constants
      <4>2. CASE i # table_index
        <5>1. memory'[directory'][i] = memory[directory][i]
          BY <4>2, <3>2, <3>3, <3>8 DEF Inv, TypeOK
        <5>2. i < table_index' <=> i < table_index
          BY <4>2, <3>3, <3>4, Constants
        <5>3. CASE i < table_index
          <6>1. /\ memory[directory][i] \in Frames \ (free \cup {directory})
                /\ memory[memory[directory][i]] = Table(i)
            BY <5>3, <3>3 DEF Inv, Building
          <6>2. memory[directory][i] \in Frames \ {f, directory}
            BY <6>1
          <6>3. memory'[memory'[directory'][i]] = Table(i)'
            BY <6>1, <6>2, <5>1, <4>0, <3>9
          <6>4. memory'[directory'][i] \in Frames \ (free' \cup {directory'})
            BY <6>1, <5>1, <3>1, <3>3
          <6> QED BY <6>3, <6>4, <5>2, <5>3
        <5>4. CASE ~(i < table_index)
          BY <5>1, <5>2, <5>4, <3>3 DEF Inv, Building
        <5> QED BY <5>3, <5>4
      <4> QED BY <4>1, <4>2
    <3>12. table_index' <= page_table_count' /\ table_index' \in Nat
      BY <3>3, <3>4 DEF Inv, TypeOK
    <3>13. ~pg
      BY <3>3 DEF Inv
    <3> QED BY <3>1, <3>2, <3>3, <3>10, <3>11, <3>12, <3>13, ZenonT(30)
               DEF Inv, TypeOK, Building, Complete
  <2> QED BY <2>1, <2>2
<1>4. CASE set_page_directory
  BY <1>4 DEF set_page_directory, Inv, TypeOK, Building, Complete, page_table_count, Table
<1>5. CASE enable
  BY <1>5 DEF enable, Inv, TypeOK, Building, Complete, page_table_count, Table
<1>6. CASE make_report
  <2>1. step = "report" /\ pg /\ cr3 = directory /\ machine.guard \in Frames
    BY <1>6, PagingAssumption DEF make_report, Inv, TypeOK
  <2>2. Walk(machine.guard) = Absent
    BY <2>1, CompleteMap DEF Walk, Complete
  <2>3. report'.paging_enabled
    BY <1>6, <2>1, <2>2, ZenonT(30) DEF make_report, is_present
  <2>4. report'.paging_enabled = pg
    BY <2>1, <2>3 DEF Inv, TypeOK
  <2> QED BY <1>6, <2>1, <2>4, ZenonT(30)
             DEF make_report, Inv, TypeOK, Building, Complete, page_table_count, Table
<1>7. CASE Done
  BY <1>7 DEF Done, vars, Inv, TypeOK, Building, Complete, page_table_count, Table
<1>8. CASE UNCHANGED vars
  BY <1>8 DEF vars, Inv, TypeOK, Building, Complete, page_table_count, Table
<1> QED BY <1>1, <1>2, <1>3, <1>4, <1>5, <1>6, <1>7, <1>8 DEF Next, Steps

\* The invariant holds in every reachable state.
LEMMA AlwaysInv == Spec => []Inv
BY InitInv, NextInv, PTL DEF Spec

\* The invariant makes the map.
LEMMA MapFromInv == Inv => MapIsIdentity
<1> SUFFICES ASSUME Inv PROVE MapIsIdentity
  OBVIOUS
<1>1. pg => Complete /\ cr3 = directory
  BY DEF Inv, Complete
<1> QED BY <1>1, CompleteMap DEF MapIsIdentity, Walk, Inv

(***************************************************************************)
(* The identity map: whatever the machine, if paging::init turned paging   *)
(* on, CR3 maps exactly the pages below mapped_end, each to itself, but    *)
(* the guard page, every frame of the pool below the cap among them; and   *)
(* init reported success exactly if it did.                                *)
(***************************************************************************)
THEOREM PagingIsIdentity == Spec => []MapIsIdentity
BY MapFromInv, AlwaysInv, PTL

(***************************************************************************)
(* Paging is on only with both task state segments carrying its directory: *)
(* no double fault after `enable` can switch to another one.               *)
(***************************************************************************)
THEOREM TaskSegmentsFollow == Spec => []TssFollowsCr3
<1>1. Inv => TssFollowsCr3
  BY DEF Inv, Complete, TssFollowsCr3
<1> QED BY <1>1, AlwaysInv, PTL
-----------------------------------------------------------------------------
\* What the tables, the stacks and the histories hold.
Places == {"main", "double_fault"} \X Nat
Registers == [eip : Places \cup {Nowhere}, esp : Int]
Gates == [kind : {"missing", "report", "catch_all", "task"}, error : BOOLEAN]
Raisings == [vector : Vectors, eip : Places, esp : Int]
Handlings == [vector : Vectors, kind : {"report", "catch_all"}, step : {"entered", "print", "silent"},
            esp : Int, fault : Nat, eip : Places \cup {Nowhere}]
Tasks == {None, "main", "double_fault"}
Reports == [vector : Vectors, eip : Places \cup {Nowhere}, fault : Nat]
             \cup [vector : Vectors, eip : Places \cup {Nowhere}, fault : Nat, esp : Int, link : Tasks]

TableTypes ==
  /\ tss \in [main : Registers, double_fault : Registers] /\ back_link \in Tasks
  /\ gdt \in [main : {None, "available", "busy"}, double_fault : {None, "available", "busy"}]
  /\ tr \in Tasks /\ idt \in [Vectors -> Gates]

CpuTypes ==
  /\ cpu \in {"run", "deliver", "halted", "reset"}
  /\ pending \in [vector : Vectors, software : BOOLEAN]
  /\ task \in {"main", "double_fault"} /\ esp \in Int
  /\ frames \in Seq(Handlings)

OutTypes == screen \in Seq(Reports) /\ raised \in Seq(Raisings)

\* A gate of the shape the CPU pushes for its vector, the double fault's a task's.
Shaped(gate, v) ==
  \/ gate = MISSING
  \/ v = DOUBLE_FAULT /\ gate.kind = "task"
  \/ v # DOUBLE_FAULT /\ gate.kind \in {"report", "catch_all"} /\ gate.error = PushesErrorCode(v)

\* After exceptions::init the double fault has its gate, which interrupts::init
\* then leaves alone; a task register in the double-fault task keeps it busy.
TablesInv ==
  /\ \A v \in Vectors : Shaped(idt[v], v)
  /\ boot \in {"catch_all", "paging", "up"} => idt[DOUBLE_FAULT].kind = "task"
  /\ tr = "double_fault" => task = "double_fault" /\ gdt.double_fault = "busy"

Causes(v) == {v, DOUBLE_FAULT, GENERAL_PROTECTION_FAULT, PAGE_FAULT}

\* Record f, of a handler or a report, names an entry of q, its code and its cause.
Truthful(q, f) ==
  /\ f.fault \in 1 .. Len(q)
  /\ f.eip = q[f.fault].eip
  /\ f.vector \in Causes(q[f.fault].vector)

TruthfulFrame(q, f) == Truthful(q, f) /\ f.vector # DOUBLE_FAULT
TruthfulReport(q, r) ==
  Truthful(q, r) /\ (r.vector = DOUBLE_FAULT => r.esp = q[r.fault].esp /\ r.link = "main")

\* While a vector is delivered, the code and the stack it was raised with are
\* still the CPU's.
DeliverInv ==
  cpu = "deliver" =>
    /\ raised # <<>>
    /\ raised[Len(raised)].eip = Here /\ raised[Len(raised)].esp = esp
    /\ pending.vector \in Causes(raised[Len(raised)].vector)
    /\ pending.software /\ PushesErrorCode(pending.vector) => pending.vector = DOUBLE_FAULT

\* The double-fault task is never resumed, and reports the fault that started it.
TaskInv ==
  task = "double_fault" =>
    /\ cpu = "deliver" => pending.vector < EXCEPTION_VECTOR_COUNT
    /\ \A i \in 1 .. Len(frames) : frames[i].vector < EXCEPTION_VECTOR_COUNT
    /\ cpu = "run" /\ frames = <<>> =>
         /\ raised # <<>> /\ back_link = "main"
         /\ tss.main.eip = raised[Len(raised)].eip /\ tss.main.esp = raised[Len(raised)].esp

FramesInv == \A i \in 1 .. Len(frames) : TruthfulFrame(raised, frames[i])
ScreenInv == \A i \in 1 .. Len(screen) : TruthfulReport(raised, screen[i])

(***************************************************************************)
(* The inductive invariant of the reports.                                 *)
(***************************************************************************)
ReportInv == TableTypes /\ CpuTypes /\ OutTypes
               /\ TablesInv /\ DeliverInv /\ TaskInv /\ FramesInv /\ ScreenInv

(***************************************************************************)
(* The inductive invariant of the stack: the kernel's own code, the        *)
(* software interrupt it raises and the handler that will return to it are *)
(* above the guard page.                                                   *)
(***************************************************************************)
StackInv ==
  pg /\ task = "main" /\ ~deep =>
    /\ cpu = "run" /\ frames = <<>> => esp >= stack_bottom
    /\ cpu = "deliver" /\ pending.vector >= EXCEPTION_VECTOR_COUNT => esp >= stack_bottom
    /\ \A i \in 1 .. Len(frames) :
         frames[i].vector >= EXCEPTION_VECTOR_COUNT => frames[i].esp + 3 >= stack_bottom
-----------------------------------------------------------------------------
\* The vectors the code names, and the other constants.
LEMMA FaultConstants ==
  /\ {DOUBLE_FAULT, GENERAL_PROTECTION_FAULT, PAGE_FAULT, DIVIDE_ERROR, INVALID_OPCODE} \subseteq Vectors
  /\ Vectors \subseteq Nat /\ Calls \subseteq Nat
  /\ DOUBLE_FAULT = 8 /\ GENERAL_PROTECTION_FAULT = 13 /\ PAGE_FAULT = 14
  /\ DIVIDE_ERROR = 0 /\ INVALID_OPCODE = 6 /\ BREAKPOINT = 3 /\ EXCEPTION_VECTOR_COUNT = 32
BY FaultsAssumption
DEF DOUBLE_FAULT, GENERAL_PROTECTION_FAULT, PAGE_FAULT, DIVIDE_ERROR, INVALID_OPCODE, BREAKPOINT,
    EXCEPTION_VECTOR_COUNT

\* The bounds of the stacks are addresses.
LEMMA StackBounds ==
  ASSUME machine \in Machines
  PROVE  double_fault_stack_top \in Nat /\ stack_bottom \in Nat /\ stack_top \in Nat
<1>1. machine.guard \in Nat /\ PAGE_WORDS \in Nat /\ STACK_PAGES \in Nat
  BY FaultsAssumption, PagingAssumption
<1> QED BY <1>1 DEF double_fault_stack_top, stack_bottom, stack_top

\* Running code saves a place.
LEMMA HereIsAPlace == CpuTypes => Here \in Places /\ Len(frames) \in Nat
BY DEF CpuTypes, Here, Places

\* The running handler's record.
LEMMA LastFrame ==
  ASSUME CpuTypes, frames # <<>>
  PROVE  /\ Len(frames) \in 1 .. Len(frames) /\ Len(frames) \in Nat
         /\ Running = frames[Len(frames)] /\ Running \in Handlings
<1>1. frames \in Seq(Handlings)
  BY DEF CpuTypes
<1>2. Len(frames) \in Nat /\ Len(frames) # 0
  BY <1>1
<1> QED BY <1>1, <1>2 DEF Running

\* A sequence without its last element.
LEMMA DropLast ==
  ASSUME NEW S, NEW q \in Seq(S), NEW n \in Nat, n + 1 = Len(q)
  PROVE  /\ SubSeq(q, 1, n) \in Seq(S) /\ Len(SubSeq(q, 1, n)) = n
         /\ \A i \in 1 .. n : SubSeq(q, 1, n)[i] = q[i]
<1>1. SubSeq(q, 1, n) \in Seq(S)
  OBVIOUS
<1>2. Len(SubSeq(q, 1, n)) = n
  OBVIOUS
<1>3. \A i \in 1 .. n : SubSeq(q, 1, n)[i] = q[i]
  OBVIOUS
<1> QED BY <1>1, <1>2, <1>3

\* Returning from a handler leaves the ones below it.
LEMMA FrontFrames ==
  ASSUME CpuTypes, frames # <<>>
  PROVE  /\ SubSeq(frames, 1, Len(frames) - 1) \in Seq(Handlings)
         /\ Len(SubSeq(frames, 1, Len(frames) - 1)) = Len(frames) - 1
         /\ \A i \in 1 .. Len(frames) - 1 : SubSeq(frames, 1, Len(frames) - 1)[i] = frames[i]
<1>1. frames \in Seq(Handlings)
  BY DEF CpuTypes
<1>2. Len(frames) \in Nat /\ Len(frames) # 0
  BY <1>1
<1>3. PICK n \in Nat : n = Len(frames) - 1 /\ n + 1 = Len(frames)
  BY <1>2
<1> QED BY <1>1, <1>3, DropLast

\* Everything but the histories and the outputs of a step of running code: it
\* goes on, or it raises a vector; only an `int n` of the kernel's is software.
CodeGoesOn == esp' \in Int /\ UNCHANGED <<cpu, pending, raised>>
CodeRaises(v, software) ==
  /\ esp' \in Int
  /\ raised' = Append(raised, [vector |-> v, eip |-> Here, esp |-> esp'])
  /\ cpu' = "deliver" /\ pending' = [vector |-> v, software |-> software]
  /\ IF software
     THEN Kernel /\ esp' = esp /\ (v \in {BREAKPOINT, DOUBLE_FAULT} \/ v >= EXCEPTION_VECTOR_COUNT)
     ELSE v < EXCEPTION_VECTOR_COUNT

LEMMA CodeOutcomes ==
  CpuTypes /\ Code =>
    /\ CodeGoesOn \/ \E v \in Vectors, software \in BOOLEAN : CodeRaises(v, software)
    /\ cpu = "run"
    /\ UNCHANGED <<vars, boot, tableVars, task, frames, reported, screen, settled, deep>>
<1> SUFFICES ASSUME CpuTypes, Code
             PROVE  /\ CodeGoesOn \/ \E v \in Vectors, software \in BOOLEAN : CodeRaises(v, software)
                    /\ cpu = "run"
                    /\ UNCHANGED <<vars, boot, tableVars, task, frames, reported, screen, settled, deep>>
  OBVIOUS
<1>t. esp \in Int
  BY DEF CpuTypes
<1>1. CASE call
  <2>1. PICK n \in Calls : /\ esp' = esp - n
                           /\ IF Writable(cr3, esp', esp) THEN UNCHANGED <<cpu, pending, raised>>
                              ELSE Raise(PAGE_FAULT, FALSE, esp')
    BY <1>1, ZenonT(30) DEF call
  <2>2. esp' \in Int
    BY <1>t, <2>1, FaultConstants
  <2>3. CASE UNCHANGED <<cpu, pending, raised>>
    BY <1>1, <2>2, <2>3 DEF call, CodeGoesOn
  <2>4. CASE Raise(PAGE_FAULT, FALSE, esp')
    <3>1. CodeRaises(PAGE_FAULT, FALSE)
      BY <2>2, <2>4, FaultConstants DEF Raise, CodeRaises
    <3> QED BY <1>1, <3>1, FaultConstants, ZenonT(30) DEF call
  <2> QED BY <2>1, <2>3, <2>4, ZenonT(30)
<1>2. CASE ret
  <2>1. esp' \in Int
    BY <1>2, <1>t, FaultConstants DEF ret
  <2> QED BY <1>2, <2>1 DEF ret, CodeGoesOn, outVars
<1>3. CASE fault
  <2>1. PICK v \in Vectors : v < EXCEPTION_VECTOR_COUNT /\ Raise(v, FALSE, esp)
    BY <1>3, ZenonT(30) DEF fault
  <2>2. esp' = esp
    BY <1>3 DEF fault
  <2>3. CodeRaises(v, FALSE)
    BY <1>t, <2>1, <2>2 DEF Raise, CodeRaises
  <2> QED BY <1>3, <2>3, ZenonT(30) DEF fault
<1>4. CASE int_n
  <2>1. PICK v \in Vectors : /\ v \in {BREAKPOINT, DOUBLE_FAULT} \/ v >= EXCEPTION_VECTOR_COUNT
                             /\ Raise(v, TRUE, esp)
    BY <1>4, ZenonT(30) DEF int_n
  <2>2. esp' = esp /\ Kernel
    BY <1>4 DEF int_n
  <2>3. CodeRaises(v, TRUE)
    BY <1>t, <2>1, <2>2 DEF Raise, CodeRaises
  <2> QED BY <1>4, <2>2, <2>3, ZenonT(30) DEF int_n, Kernel
<1> QED BY <1>1, <1>2, <1>3, <1>4 DEF Code

\* A delivery fails and becomes another, or the machine is reset; it enters a
\* handler, whose gate has the shape of what was pushed; or it switches tasks.
Undelivered ==
  /\ \/ cpu' = "reset" /\ UNCHANGED pending
     \/ /\ UNCHANGED cpu
        /\ \E v \in {DOUBLE_FAULT, GENERAL_PROTECTION_FAULT, PAGE_FAULT} :
             pending' = [vector |-> v, software |-> FALSE]
  /\ UNCHANGED <<tss, back_link, gdt, tr, cr3, task, esp, frames>>
EnteredFrame(kind) ==
  [vector |-> pending.vector, kind |-> kind, step |-> "entered", esp |-> esp - (IF Errored THEN 4 ELSE 3),
   fault |-> Len(raised), eip |-> Here]
Entered(kind) ==
  /\ pending.vector # DOUBLE_FAULT
  /\ frames' = Append(frames, EnteredFrame(kind))
  /\ esp' \in Int /\ cpu' = "run" /\ pending' = Idle
  /\ UNCHANGED <<tss, back_link, gdt, tr, cr3, task>>
Switched ==
  /\ tr = "main" /\ tr' = "double_fault" /\ back_link' = "main"
  /\ tss' = [tss EXCEPT !.main = [eip |-> Here, esp |-> esp]]
  /\ gdt' = [gdt EXCEPT !.double_fault = "busy"]
  /\ cr3' = tss_cr3.double_fault
  /\ task' = "double_fault" /\ frames' = <<>> /\ pending' = Idle
  /\ esp' \in Int /\ cpu' \in {"run", "reset"}

LEMMA EscalateOutcome ==
  ASSUME NEW second \in {GENERAL_PROTECTION_FAULT, PAGE_FAULT}
  PROVE  Escalate(second) => Undelivered
BY DEF Escalate, Undelivered

LEMMA DeliverOutcomes ==
  TableTypes /\ CpuTypes /\ TablesInv /\ DeliverInv /\ deliver =>
    /\ cpu = "deliver"
    /\ Undelivered \/ Switched \/ \E kind \in {"report", "catch_all"} : Entered(kind)
    /\ UNCHANGED <<machine, step, mapped_end, directory, table_index, free, memory, tss_cr3, pg, report,
                   boot, idtr, idt, outVars, deep>>
<1> SUFFICES ASSUME TableTypes, CpuTypes, TablesInv, DeliverInv, deliver
             PROVE  Undelivered \/ Switched \/ \E kind \in {"report", "catch_all"} : Entered(kind)
  BY ZenonT(30) DEF deliver
<1> DEFINE v == pending.vector
           gate == idt[v]
<1>1. cpu = "deliver" /\ v \in Vectors /\ pending.software \in BOOLEAN /\ esp \in Int
  BY DEF deliver, CpuTypes
<1>2. gate \in Gates /\ Shaped(gate, v)
  BY <1>1 DEF TableTypes, TablesInv
<1>3. CASE ~idtr
  <2>1. cpu' = "reset" /\ UNCHANGED <<tss, back_link, gdt, tr, cr3, task, esp, frames, pending>>
    BY <1>3, ZenonT(30) DEF deliver
  <2> QED BY <2>1 DEF Undelivered
<1>4. CASE idtr /\ gate = MISSING
  <2>0. gate.kind = "missing"
    BY <1>4 DEF MISSING
  <2>1. Escalate(GENERAL_PROTECTION_FAULT)
    BY <1>4, <2>0 DEF deliver
  <2> QED BY <2>1, EscalateOutcome
<1>5. CASE idtr /\ gate # MISSING /\ v = DOUBLE_FAULT
  <2>0. gate.kind = "task"
    BY <1>2, <1>5 DEF Shaped
  <2>1. SwitchTask
    BY <1>5, <2>0 DEF deliver
  <2>2. CASE tr = None \/ gdt.double_fault # "available"
    BY <2>1, <2>2, EscalateOutcome DEF SwitchTask
  <2>3. CASE ~(tr = None \/ gdt.double_fault # "available")
    <3>1. tr = "main"
      BY <2>3 DEF TableTypes, TablesInv, Tasks
    <3>2. tss.double_fault.esp \in Int
      BY DEF TableTypes, Registers
    <3>3. esp' = tss.double_fault.esp - (IF Errored THEN 1 ELSE 0)
      BY <2>1, <2>3 DEF SwitchTask
    <3>4. esp' \in Int
      BY <3>2, <3>3
    <3>5. cpu' \in {"run", "reset"}
      BY <2>1, <2>3 DEF SwitchTask
    <3>6. /\ tss' = [tss EXCEPT ![tr] = [eip |-> Here, esp |-> esp]]
          /\ gdt' = [gdt EXCEPT !.double_fault = "busy"]
          /\ back_link' = tr /\ tr' = "double_fault"
          /\ cr3' = tss_cr3.double_fault
          /\ task' = "double_fault" /\ frames' = <<>> /\ pending' = Idle
      BY <2>1, <2>3 DEF SwitchTask
    <3> QED BY <3>1, <3>4, <3>5, <3>6, ZenonT(30) DEF Switched
  <2> QED BY <2>2, <2>3
<1>6. CASE idtr /\ gate # MISSING /\ v # DOUBLE_FAULT
  <2>0. gate.kind \in {"report", "catch_all"} /\ gate.error = PushesErrorCode(v)
    BY <1>2, <1>6 DEF Shaped
  <2>1. Enter(gate)
    BY <1>6, <2>0, ZenonT(30) DEF deliver
  <2>2. gate.error = Errored
    <3>1. pending.software => ~PushesErrorCode(v)
      BY <1>1, <1>6 DEF DeliverInv
    <3>2. PushesErrorCode(v) \in BOOLEAN
      BY DEF PushesErrorCode
    <3> QED BY <1>1, <2>0, <3>1, <3>2 DEF Errored
  <2> DEFINE pushed == esp - (IF Errored THEN 4 ELSE 3)
  <2>3. CASE ~Writable(cr3, pushed, esp)
    <3>1. Escalate(PAGE_FAULT)
      BY <2>1, <2>3 DEF Enter
    <3> QED BY <3>1, EscalateOutcome
  <2>4. CASE Writable(cr3, pushed, esp)
    <3>1. /\ esp' = pushed /\ cpu' = "run"
          /\ frames' = Append(frames, [vector |-> pending.vector, kind |-> gate.kind, step |-> "entered",
                                       esp |-> pushed, fault |-> Len(raised),
                                       eip |-> IF gate.error = Errored THEN Here ELSE Nowhere])
          /\ pending' = Idle /\ UNCHANGED <<tss, back_link, gdt, tr, cr3, task>>
      BY <2>1, <2>4 DEF Enter
    <3>2. esp' \in Int
      BY <1>1, <3>1
    <3>3. frames' = Append(frames, EnteredFrame(gate.kind))
      BY <2>2, <3>1 DEF EnteredFrame
    <3>4. Entered(gate.kind)
      BY <1>6, <3>1, <3>2, <3>3 DEF Entered
    <3> QED BY <2>0, <3>4
  <2> QED BY <2>3, <2>4
<1> QED BY <1>3, <1>4, <1>5, <1>6 DEF deliver

\* No exception, whenever it comes, disturbs paging::init or its map: the one
\* step outside it that changes a register of the MMU loads the double-fault
\* task's CR3, and with paging on that is the directory.
LEMMA PagingKept == Inv /\ ReportInv /\ [FaultsNext]_allVars => Inv'
<1> SUFFICES ASSUME Inv, ReportInv, [FaultsNext]_allVars PROVE Inv'
  OBVIOUS
<1>1. CASE UNCHANGED vars
  BY <1>1, NextInv
<1>2. CASE paging_init
  BY <1>2, NextInv DEF paging_init, Next
<1>3. CASE deliver
  <2>1. UNCHANGED <<machine, step, mapped_end, directory, table_index, free, memory, tss_cr3, pg, report>>
    BY <1>3 DEF deliver
  <2>2. cr3' = cr3 \/ cr3' = tss_cr3.double_fault
    BY <1>3, DeliverOutcomes DEF ReportInv, Undelivered, Entered, Switched
  <2>3. pg => cr3 = directory /\ tss_cr3.double_fault = directory
    BY Paged
  <2>4. pg => cr3' = directory
    BY <2>2, <2>3
  <2> QED BY <2>1, <2>4 DEF Inv, TypeOK, Building, Complete, page_table_count, Table
<1>4. CASE Code
  BY <1>1, <1>4, ZenonT(30) DEF Code, call, ret, fault, int_n
<1>5. CASE Handlers
  BY <1>1, <1>5 DEF Handlers, report_exception, mark_reported, dispatch, double_fault_entry, handlerUnchanged
<1>6. CASE KernelMain /\ ~paging_init
  BY <1>1, <1>6 DEF KernelMain, tss_init, gdt_init, load_task_register, idt_init, exceptions_init,
                    interrupts_init, clear_handler
<1>7. CASE stopped \/ UNCHANGED allVars
  BY <1>1, <1>7 DEF stopped, allVars
<1> QED BY <1>2, <1>3, <1>4, <1>5, <1>6, <1>7 DEF FaultsNext

\* The tables, and what is known of them: kernel_main and a task switch change them.
LEMMA TablesStep == Inv /\ ReportInv /\ FaultsNext => TableTypes' /\ TablesInv'
<1> SUFFICES ASSUME Inv, ReportInv, FaultsNext PROVE TableTypes' /\ TablesInv'
  OBVIOUS
<1>t. TableTypes /\ TablesInv /\ CpuTypes
  BY DEF ReportInv
<1>1. CASE UNCHANGED <<boot, tableVars, task>>
  BY <1>1, <1>t DEF tableVars, TableTypes, TablesInv
<1>2. CASE tss_init
  <2>1. double_fault_stack_top \in Int
    BY StackBounds, Paged
  <2>2. <<"double_fault", 0>> \in Places
    BY DEF Places
  <2>3. tss' \in [main : Registers, double_fault : Registers]
    BY <1>2, <2>1, <2>2 DEF tss_init, Registers, EMPTY
  <2> QED BY <1>2, <1>t, <2>3 DEF tss_init, Step, cpuVars, TableTypes, TablesInv
<1>3. CASE gdt_init
  <2>1. tr # "double_fault"
    BY <1>3, <1>t DEF gdt_init, Step, Kernel, TablesInv
  <2> QED BY <1>3, <1>t, <2>1 DEF gdt_init, Step, cpuVars, TableTypes, TablesInv
<1>4. CASE load_task_register
  BY <1>4, <1>t DEF load_task_register, Step, cpuVars, TableTypes, TablesInv, Tasks
<1>5. CASE idt_init
  <2>1. \A v \in Vectors : idt'[v] = MISSING
    BY <1>5 DEF idt_init
  <2>2. idt' \in [Vectors -> Gates]
    BY <1>5 DEF idt_init, MISSING, Gates
  <2> QED BY <1>5, <1>t, <2>1, <2>2 DEF idt_init, Step, cpuVars, TableTypes, TablesInv, Shaped
<1>6. CASE exceptions_init
  <2>0. /\ idt'[DIVIDE_ERROR] = [kind |-> "report", error |-> FALSE]
        /\ idt'[INVALID_OPCODE] = [kind |-> "report", error |-> FALSE]
        /\ idt'[GENERAL_PROTECTION_FAULT] = [kind |-> "report", error |-> TRUE]
    <3> DEFINE a == [kind |-> "report", error |-> FALSE]
               b == [kind |-> "report", error |-> TRUE]
               c == [kind |-> "task", error |-> FALSE]
    <3>1. idt' = [idt EXCEPT ![DIVIDE_ERROR] = a, ![INVALID_OPCODE] = a,
                             ![GENERAL_PROTECTION_FAULT] = b, ![DOUBLE_FAULT] = c]
      BY <1>6 DEF exceptions_init
    <3> HIDE DEF a, b, c
    <3>2. /\ idt'[DIVIDE_ERROR] = a /\ idt'[INVALID_OPCODE] = a
          /\ idt'[GENERAL_PROTECTION_FAULT] = b
      BY <1>t, <3>1, FaultConstants DEF TableTypes
    <3> QED BY <3>2 DEF a, b
  <2>1. idt' \in [Vectors -> Gates] /\ idt'[DOUBLE_FAULT].kind = "task"
    BY <1>6, <1>t, FaultConstants, ZenonT(30) DEF exceptions_init, TableTypes, Gates
  <2>2. ASSUME NEW v \in Vectors PROVE Shaped(idt'[v], v)
    <3>1. CASE v \in {DIVIDE_ERROR, INVALID_OPCODE}
      <4>1. idt'[v].kind = "report" /\ idt'[v].error = FALSE
        BY <2>0, <3>1
      <4>2. v # DOUBLE_FAULT /\ PushesErrorCode(v) = FALSE
        BY <3>1, FaultConstants DEF PushesErrorCode
      <4>3. idt'[v].error = PushesErrorCode(v)
        BY <4>1, <4>2, ZenonT(30)
      <4> QED BY <4>1, <4>2, <4>3 DEF Shaped
    <3>4. CASE v = GENERAL_PROTECTION_FAULT
      <4>1. idt'[v].kind = "report" /\ idt'[v].error = TRUE
        BY <2>0, <3>4
      <4>2. v # DOUBLE_FAULT /\ PushesErrorCode(v)
        BY <3>4, FaultConstants DEF PushesErrorCode
      <4>3. idt'[v].error = PushesErrorCode(v)
        BY <4>1, <4>2, ZenonT(30) DEF PushesErrorCode
      <4> QED BY <4>1, <4>2, <4>3 DEF Shaped
    <3>2. CASE v = DOUBLE_FAULT
      BY <2>1, <3>2 DEF Shaped
    <3>3. CASE v \notin {DIVIDE_ERROR, INVALID_OPCODE, GENERAL_PROTECTION_FAULT, DOUBLE_FAULT}
      <4>1. idt'[v] = idt[v]
        BY <1>6, <1>t, <3>3 DEF exceptions_init, TableTypes
      <4> QED BY <1>t, <4>1 DEF TablesInv
    <3> QED BY <3>1, <3>2, <3>3, <3>4
  <2> QED BY <1>6, <1>t, <2>1, <2>2, ZenonT(30)
             DEF exceptions_init, Step, cpuVars, TableTypes, TablesInv
<1>7. CASE interrupts_init
  <2>1. idt' = [v \in Vectors |-> IF idt[v] # MISSING THEN idt[v]
                                  ELSE [kind |-> "catch_all", error |-> v \in error_code_stub]]
    BY <1>7 DEF interrupts_init
  <2>2. idt' \in [Vectors -> Gates]
    BY <2>1, <1>t DEF TableTypes, Gates
  <2>3. idt[DOUBLE_FAULT].kind = "task"
    BY <1>7, <1>t DEF interrupts_init, Step, TablesInv
  <2>4. idt[DOUBLE_FAULT] # MISSING
    BY <2>3 DEF MISSING
  <2>5. idt'[DOUBLE_FAULT].kind = "task"
    BY <2>1, <2>3, <2>4, FaultConstants
  <2>6. ASSUME NEW v \in Vectors PROVE Shaped(idt'[v], v)
    <3>1. CASE idt[v] # MISSING
      BY <1>t, <2>1, <3>1 DEF TablesInv
    <3>2. CASE idt[v] = MISSING
      <4>1. v # DOUBLE_FAULT
        BY <2>4, <3>2
      <4>2. PICK e : e = (v \in error_code_stub)
        OBVIOUS
      <4>3. e = PushesErrorCode(v)
        BY <4>2 DEF error_code_stub, PushesErrorCode
      <4>4. idt'[v] = [kind |-> "catch_all", error |-> e]
        BY <2>1, <3>2, <4>2
      <4>5. idt'[v].kind = "catch_all" /\ idt'[v].error = PushesErrorCode(v)
        BY <4>3, <4>4
      <4> QED BY <4>1, <4>5 DEF Shaped
    <3> QED BY <3>1, <3>2
  <2> QED BY <1>7, <1>t, <2>2, <2>5, <2>6 DEF interrupts_init, Step, cpuVars, TableTypes, TablesInv
<1>8. CASE paging_init
  <2>1. boot = "paging" /\ UNCHANGED <<tableVars, task>>
    BY <1>8 DEF paging_init, cpuVars
  <2> QED BY <2>1, <1>t DEF tableVars, TableTypes, TablesInv
<1>9. CASE clear_handler
  <2>1. idt' \in [Vectors -> Gates] /\ idt'[DIVIDE_ERROR] = MISSING
    BY <1>9, <1>t, FaultConstants DEF clear_handler, TableTypes, Gates, MISSING
  <2>2. \A v \in Vectors \ {DIVIDE_ERROR} : idt'[v] = idt[v]
    BY <1>9, <1>t DEF clear_handler, TableTypes
  <2>3. DOUBLE_FAULT \in Vectors \ {DIVIDE_ERROR}
    BY FaultConstants
  <2>4. \A v \in Vectors : Shaped(idt'[v], v)
    BY <1>t, <2>1, <2>2 DEF TablesInv, Shaped
  <2> QED BY <1>9, <1>t, <2>1, <2>2, <2>3, <2>4 DEF clear_handler, cpuVars, TableTypes, TablesInv
<1>10. CASE Code
  BY <1>1, <1>10, ZenonT(30) DEF Code, call, ret, fault, int_n
<1>11. CASE deliver
  <2>1. UNCHANGED <<boot, idt>>
    BY <1>11 DEF deliver
  <2>2. CASE UNCHANGED <<tss, back_link, gdt, tr, task>>
    BY <1>t, <2>1, <2>2 DEF TableTypes, TablesInv
  <2>3. CASE Switched
    <3>1. [eip |-> Here, esp |-> esp] \in Registers
      BY <1>t, HereIsAPlace DEF Registers, CpuTypes
    <3>2. tss' \in [main : Registers, double_fault : Registers]
      BY <1>t, <2>3, <3>1 DEF Switched, TableTypes
    <3>3. gdt' \in [main : {None, "available", "busy"}, double_fault : {None, "available", "busy"}]
          /\ gdt'.double_fault = "busy"
      BY <1>t, <2>3 DEF Switched, TableTypes
    <3>4. tr' \in Tasks /\ back_link' \in Tasks /\ task' = "double_fault"
      BY <2>3 DEF Switched, Tasks
    <3> QED BY <1>t, <2>1, <3>2, <3>3, <3>4 DEF TableTypes, TablesInv
  <2> QED BY <1>11, <2>2, <2>3, DeliverOutcomes DEF ReportInv, Undelivered, Entered
<1>12. CASE Handlers
  BY <1>1, <1>12 DEF Handlers, report_exception, mark_reported, dispatch, double_fault_entry, handlerUnchanged
<1>13. CASE stopped
  BY <1>1, <1>13 DEF stopped, allVars, cpuVars
<1> QED BY <1>2, <1>3, <1>4, <1>5, <1>6, <1>7, <1>8, <1>9, <1>10, <1>11, <1>12, <1>13 DEF FaultsNext, KernelMain

\* kernel_main runs in none of the states the reports depend on.
LEMMA KernelOutcome ==
  KernelMain => Kernel /\ UNCHANGED <<cpuVars, screen, raised>>
BY DEF KernelMain, tss_init, gdt_init, load_task_register, idt_init, exceptions_init, interrupts_init,
       paging_init, clear_handler, Step, outVars

\* dispatch's claim changes the step of the running handler, and nothing else of it.
LEMMA MarkOutcome ==
  CpuTypes /\ mark_reported =>
    /\ frames' \in Seq(Handlings) /\ Len(frames') = Len(frames) /\ frames # <<>>
    /\ \A i \in 1 .. Len(frames) :
         /\ frames'[i].vector = frames[i].vector /\ frames'[i].esp = frames[i].esp
         /\ frames'[i].fault = frames[i].fault /\ frames'[i].eip = frames[i].eip
    /\ UNCHANGED <<cpu, pending, task, esp, screen, raised>>
<1> SUFFICES ASSUME CpuTypes, mark_reported
             PROVE  /\ frames' \in Seq(Handlings) /\ Len(frames') = Len(frames) /\ frames # <<>>
                    /\ \A i \in 1 .. Len(frames) :
                         /\ frames'[i].vector = frames[i].vector /\ frames'[i].esp = frames[i].esp
                         /\ frames'[i].fault = frames[i].fault /\ frames'[i].eip = frames[i].eip
  BY DEF mark_reported, handlerUnchanged
<1>1. frames # <<>> /\ frames \in Seq(Handlings)
  BY DEF mark_reported, Handling, CpuTypes
<1>2. PICK n \in Nat : n = Len(frames) /\ n \in 1 .. Len(frames)
  BY <1>1, LastFrame
<1>3. PICK st \in {"silent", "print"} : frames' = [frames EXCEPT ![n].step = st]
  BY <1>2, ZenonT(30) DEF mark_reported
<1>4. frames[n] \in Handlings /\ frames' = [frames EXCEPT ![n] = [frames[n] EXCEPT !.step = st]]
  BY <1>1, <1>2, <1>3
<1>5. PICK f : f = [frames[n] EXCEPT !.step = st]
  BY ZenonT(30)
<1>6. /\ f \in Handlings /\ f.vector = frames[n].vector /\ f.esp = frames[n].esp
      /\ f.fault = frames[n].fault /\ f.eip = frames[n].eip
  BY <1>4, <1>5 DEF Handlings
<1>7. frames' = [frames EXCEPT ![n] = f]
  BY <1>4, <1>5
<1>8. frames' \in Seq(Handlings) /\ Len(frames') = Len(frames)
  BY <1>1, <1>2, <1>6, <1>7
<1>9. \A i \in 1 .. Len(frames) : frames'[i] = IF i = n THEN f ELSE frames[i]
  BY <1>1, <1>2, <1>7
<1> QED BY <1>1, <1>6, <1>8, <1>9

\* dispatch's second half shows the running handler's vector or shows nothing, and
\* halts or returns.
LEMMA DispatchOutcome ==
  CpuTypes /\ dispatch =>
    /\ cpu = "run" /\ frames # <<>>
    /\ \/ UNCHANGED screen
       \/ screen' = Append(screen, [vector |-> Running.vector, eip |-> Running.eip,
                                    fault |-> Running.fault])
    /\ \/ cpu' = "halted" /\ UNCHANGED <<esp, frames>>
       \/ /\ Running.vector >= EXCEPTION_VECTOR_COUNT
          /\ esp' = Running.esp + 3 /\ frames' = SubSeq(frames, 1, Len(frames) - 1) /\ UNCHANGED cpu
    /\ UNCHANGED <<vars, pending, task, raised, deep>>
<1> SUFFICES ASSUME CpuTypes, dispatch
             PROVE  /\ \/ UNCHANGED screen
                       \/ screen' = Append(screen, [vector |-> Running.vector, eip |-> Running.eip,
                                                    fault |-> Running.fault])
                    /\ \/ cpu' = "halted" /\ UNCHANGED <<esp, frames>>
                       \/ /\ Running.vector >= EXCEPTION_VECTOR_COUNT
                          /\ esp' = Running.esp + 3 /\ frames' = SubSeq(frames, 1, Len(frames) - 1) /\ UNCHANGED cpu
  BY DEF dispatch, Handling, handlerUnchanged
<1> QED BY DEF dispatch, Show

\* The registers, the handlers and the histories have their types.
LEMMA CpuStep == ReportInv /\ FaultsNext => CpuTypes' /\ OutTypes'
<1> SUFFICES ASSUME ReportInv, FaultsNext PROVE CpuTypes' /\ OutTypes'
  OBVIOUS
<1>t. CpuTypes /\ OutTypes /\ TableTypes
  BY DEF ReportInv
<1>1. CASE UNCHANGED <<cpuVars, screen, raised>>
  BY <1>1, <1>t DEF cpuVars, CpuTypes, OutTypes
<1>2. CASE KernelMain
  BY <1>1, <1>2, KernelOutcome
<1>3. CASE Code
  <2>1. CASE CodeGoesOn
    BY <1>3, <1>t, <2>1, CodeOutcomes DEF CodeGoesOn, CpuTypes, OutTypes
  <2>2. ASSUME NEW v \in Vectors, NEW software \in BOOLEAN, CodeRaises(v, software)
        PROVE  CpuTypes' /\ OutTypes'
    <3>1. [vector |-> v, eip |-> Here, esp |-> esp'] \in Raisings
      BY <1>t, <2>2, HereIsAPlace DEF CodeRaises, Raisings
    <3>2. raised' \in Seq(Raisings)
      BY <1>t, <2>2, <3>1 DEF CodeRaises, OutTypes
    <3>3. UNCHANGED <<task, frames, screen>>
      BY <1>3, <1>t, CodeOutcomes
    <3> QED BY <1>t, <2>2, <3>2, <3>3 DEF CodeRaises, CpuTypes, OutTypes
  <2> QED BY <1>3, <1>t, <2>1, <2>2, CodeOutcomes
<1>4. CASE deliver
  <2>0. cpu = "deliver" /\ UNCHANGED <<screen, raised>>
    BY <1>4 DEF deliver, outVars
  <2>i. Idle \in [vector : Vectors, software : BOOLEAN]
    BY FaultConstants DEF Idle
  <2>1. CASE Undelivered
    <3>1. pending' \in [vector : Vectors, software : BOOLEAN]
      <4>1. CASE UNCHANGED pending
        BY <1>t, <4>1 DEF CpuTypes
      <4>2. CASE \E v \in {DOUBLE_FAULT, GENERAL_PROTECTION_FAULT, PAGE_FAULT} :
                   pending' = [vector |-> v, software |-> FALSE]
        <5>1. PICK v \in Vectors : pending' = [vector |-> v, software |-> FALSE]
          BY <4>2, FaultConstants, ZenonT(30)
        <5> QED BY <5>1
      <4> QED BY <2>1, <4>1, <4>2 DEF Undelivered
    <3> QED BY <1>t, <2>0, <2>1, <3>1 DEF Undelivered, CpuTypes, OutTypes
  <2>2. CASE Switched
    BY <1>t, <2>0, <2>2, <2>i DEF Switched, CpuTypes, OutTypes
  <2>3. ASSUME NEW kind \in {"report", "catch_all"}, Entered(kind) PROVE CpuTypes' /\ OutTypes'
    <3>1. Len(raised) \in Nat /\ Here \in Places
      BY <1>t, HereIsAPlace DEF OutTypes
    <3>2. esp - (IF Errored THEN 4 ELSE 3) \in Int
      BY <1>t DEF CpuTypes
    <3>3. EnteredFrame(kind) \in Handlings
      BY <1>t, <3>1, <3>2 DEF EnteredFrame, Handlings, CpuTypes
    <3>4. frames' \in Seq(Handlings)
      BY <1>t, <2>3, <3>3 DEF Entered, CpuTypes
    <3> QED BY <1>t, <2>0, <2>3, <2>i, <3>4 DEF Entered, CpuTypes, OutTypes
  <2> QED BY <1>4, <2>1, <2>2, <2>3, DeliverOutcomes DEF ReportInv
<1>5. CASE report_exception
  <2>1. Running \in Handlings
    BY <1>5, <1>t, LastFrame DEF report_exception, Handling
  <2>2. [vector |-> Running.vector, eip |-> Running.eip, fault |-> Running.fault] \in Reports
    BY <2>1 DEF Handlings, Reports
  <2>3. screen' \in Seq(Reports)
    BY <1>5, <1>t, <2>2 DEF report_exception, Show, OutTypes
  <2> QED BY <1>5, <1>t, <2>3 DEF report_exception, handlerUnchanged, CpuTypes, OutTypes
<1>6. CASE mark_reported
  BY <1>6, <1>t, MarkOutcome DEF CpuTypes, OutTypes
<1>7. CASE dispatch
  <2>1. frames # <<>> /\ UNCHANGED <<pending, task, raised>> /\ cpu = "run"
    BY <1>7, <1>t, DispatchOutcome
  <2>2. Running \in Handlings
    BY <1>t, <2>1, LastFrame
  <2>3. [vector |-> Running.vector, eip |-> Running.eip, fault |-> Running.fault] \in Reports
    BY <2>2 DEF Handlings, Reports
  <2>4. screen' \in Seq(Reports)
    BY <1>7, <1>t, <2>3, DispatchOutcome DEF OutTypes
  <2>5. frames' \in Seq(Handlings)
    BY <1>7, <1>t, <2>1, DispatchOutcome, FrontFrames DEF CpuTypes
  <2>6. esp' \in Int
    <3>1. Running.esp \in Int
      BY <2>2 DEF Handlings
    <3> QED BY <1>7, <1>t, <3>1, DispatchOutcome DEF CpuTypes
  <2>7. cpu' \in {"run", "halted"}
    BY <1>7, <1>t, <2>1, DispatchOutcome
  <2> QED BY <1>t, <2>1, <2>4, <2>5, <2>6, <2>7 DEF CpuTypes, OutTypes
<1>8. CASE double_fault_entry
  <2>1. tss.main \in Registers /\ back_link \in Tasks /\ Len(raised) \in Nat /\ DOUBLE_FAULT \in Vectors
    BY <1>t, FaultConstants DEF TableTypes, OutTypes
  <2>2. [vector |-> DOUBLE_FAULT, fault |-> Len(raised), eip |-> interrupted_state.eip,
         esp |-> interrupted_state.esp, link |-> interrupted_state.link] \in Reports
    BY <2>1 DEF interrupted_state, Registers, Reports
  <2>3. screen' \in Seq(Reports)
    BY <1>8, <1>t, <2>2 DEF double_fault_entry, Show, OutTypes
  <2> QED BY <1>8, <1>t, <2>3 DEF double_fault_entry, handlerUnchanged, CpuTypes, OutTypes
<1>9. CASE stopped
  BY <1>1, <1>9 DEF stopped, allVars, outVars
<1> QED BY <1>2, <1>3, <1>4, <1>5, <1>6, <1>7, <1>8, <1>9 DEF FaultsNext, Handlers

\* What is true of an entry of the history stays true when another is added.
LEMMA HistoryGrows ==
  ASSUME NEW q \in Seq(Raisings), NEW e \in Raisings
  PROVE  /\ \A f \in Handlings : TruthfulFrame(q, f) => TruthfulFrame(Append(q, e), f)
         /\ \A r \in Reports : TruthfulReport(q, r) => TruthfulReport(Append(q, e), r)
         /\ Append(q, e) # <<>> /\ Append(q, e)[Len(Append(q, e))] = e
<1>1. PICK n \in Nat : n = Len(q)
  OBVIOUS
<1>2. PICK p : p = Append(q, e)
  BY ZenonT(30)
<1>3. Len(p) = n + 1 /\ p[n + 1] = e /\ p # <<>> /\ \A i \in 1 .. n : p[i] = q[i]
  BY <1>1, <1>2
<1>4. \A i \in 1 .. n : i \in 1 .. n + 1
  BY <1>1
<1>5. ASSUME NEW f, Truthful(q, f) PROVE Truthful(p, f) /\ p[f.fault] = q[f.fault]
  <2>1. f.fault \in 1 .. n
    BY <1>5, <1>1 DEF Truthful
  <2>2. f.fault \in 1 .. Len(p) /\ p[f.fault] = q[f.fault]
    BY <2>1, <1>3, <1>4
  <2> QED BY <2>2, <1>5 DEF Truthful
<1>6. \A f \in Handlings : TruthfulFrame(q, f) => TruthfulFrame(p, f)
  BY <1>5 DEF TruthfulFrame
<1>7. \A r \in Reports : TruthfulReport(q, r) => TruthfulReport(p, r)
  BY <1>5 DEF TruthfulReport
<1> QED BY <1>2, <1>3, <1>6, <1>7

\* Delivery keeps to the code and the stack the vector was raised with.
LEMMA DeliverStep == ReportInv /\ FaultsNext => DeliverInv'
<1> SUFFICES ASSUME ReportInv, FaultsNext, cpu' = "deliver" PROVE DeliverInv'
  BY DEF DeliverInv
<1>t. CpuTypes /\ OutTypes /\ DeliverInv
  BY DEF ReportInv
<1>1. CASE UNCHANGED <<cpuVars, raised>>
  BY <1>1, <1>t DEF cpuVars, DeliverInv, Here
<1>2. CASE KernelMain
  BY <1>1, <1>2, KernelOutcome
<1>3. CASE Code
  <2>1. UNCHANGED <<task, frames>> /\ cpu = "run"
    BY <1>3, <1>t, CodeOutcomes
  <2>2. PICK v \in Vectors, software \in BOOLEAN : CodeRaises(v, software)
    BY <1>3, <1>t, <2>1, CodeOutcomes DEF CodeGoesOn
  <2>3. PICK e : e = [vector |-> v, eip |-> Here, esp |-> esp']
    BY ZenonT(30)
  <2>4. e \in Raisings /\ e.vector = v /\ e.eip = Here /\ e.esp = esp'
    BY <1>t, <2>2, <2>3, HereIsAPlace DEF CodeRaises, Raisings
  <2>5. raised' = Append(raised, e)
    BY <2>2, <2>3 DEF CodeRaises
  <2>6. raised' # <<>> /\ raised'[Len(raised')] = e
    BY <1>t, <2>4, <2>5, HistoryGrows DEF OutTypes
  <2>7. pending'.vector = v /\ pending'.software = software
    BY <2>2 DEF CodeRaises
  <2>8. software /\ PushesErrorCode(v) => v = DOUBLE_FAULT
    BY <2>2, FaultConstants DEF CodeRaises, PushesErrorCode
  <2>9. Here' = Here
    BY <2>1 DEF Here
  <2> QED BY <2>4, <2>6, <2>7, <2>8, <2>9 DEF DeliverInv, Causes
<1>4. CASE deliver
  <2>0. cpu = "deliver" /\ UNCHANGED raised
    BY <1>4 DEF deliver, outVars
  <2>1. Undelivered
    BY <1>4, DeliverOutcomes DEF ReportInv, Switched, Entered
  <2>2. PICK v \in {DOUBLE_FAULT, GENERAL_PROTECTION_FAULT, PAGE_FAULT} :
               pending' = [vector |-> v, software |-> FALSE]
    BY <2>1 DEF Undelivered
  <2>3. Here' = Here /\ esp' = esp
    BY <2>1 DEF Undelivered, Here
  <2> QED BY <1>t, <2>0, <2>2, <2>3 DEF DeliverInv, Causes
<1>5. CASE report_exception \/ dispatch \/ double_fault_entry
  <2>1. cpu' # "deliver"
    BY <1>5, <1>t, DispatchOutcome DEF report_exception, double_fault_entry
  <2> QED BY <2>1
<1>6. CASE mark_reported
  <2>1. cpu' = cpu /\ cpu = "run"
    BY <1>6, <1>t, MarkOutcome DEF mark_reported, Handling
  <2> QED BY <2>1
<1>7. CASE stopped
  BY <1>1, <1>7 DEF stopped, allVars, outVars
<1> QED BY <1>2, <1>3, <1>4, <1>5, <1>6, <1>7 DEF FaultsNext, Handlers

\* The handlers entered know the code they interrupted.
LEMMA FramesStep == ReportInv /\ FaultsNext => FramesInv'
<1> SUFFICES ASSUME ReportInv, FaultsNext PROVE FramesInv'
  OBVIOUS
<1>t. CpuTypes /\ OutTypes /\ FramesInv
  BY DEF ReportInv
<1>f. frames \in Seq(Handlings) /\ raised \in Seq(Raisings)
  BY <1>t DEF CpuTypes, OutTypes
<1>1. CASE UNCHANGED <<frames, raised>>
  BY <1>1, <1>t DEF FramesInv
<1>2. CASE KernelMain
  BY <1>1, <1>2, KernelOutcome DEF cpuVars
<1>3. CASE Code
  <2>1. UNCHANGED frames
    BY <1>3, <1>t, CodeOutcomes
  <2>2. CASE CodeGoesOn
    BY <1>1, <2>1, <2>2 DEF CodeGoesOn
  <2>3. ASSUME NEW v \in Vectors, NEW software \in BOOLEAN, CodeRaises(v, software) PROVE FramesInv'
    <3>1. [vector |-> v, eip |-> Here, esp |-> esp'] \in Raisings
      BY <1>t, <2>3, HereIsAPlace DEF CodeRaises, Raisings
    <3>2. \A f \in Handlings : TruthfulFrame(raised, f) => TruthfulFrame(raised', f)
      BY <1>f, <2>3, <3>1, HistoryGrows DEF CodeRaises
    <3>3. \A i \in 1 .. Len(frames) : frames[i] \in Handlings
      BY <1>f
    <3> QED BY <1>t, <2>1, <3>2, <3>3 DEF FramesInv
  <2> QED BY <1>3, <1>t, <2>2, <2>3, CodeOutcomes
<1>4. CASE deliver
  <2>0. cpu = "deliver" /\ UNCHANGED raised
    BY <1>4 DEF deliver, outVars
  <2>1. CASE Undelivered
    BY <1>1, <2>0, <2>1 DEF Undelivered
  <2>2. CASE Switched
    <3>1. frames' = <<>>
      BY <2>2 DEF Switched
    <3>2. Len(frames') = 0
      BY <3>1
    <3> QED BY <3>2 DEF FramesInv
  <2>3. ASSUME NEW kind \in {"report", "catch_all"}, Entered(kind) PROVE FramesInv'
    <3>1. PICK n \in Nat : n = Len(frames)
      BY <1>f
    <3>2. PICK f : f = EnteredFrame(kind)
      OBVIOUS
    <3>3. f.vector = pending.vector /\ f.fault = Len(raised) /\ f.eip = Here
      BY <3>2 DEF EnteredFrame
    <3>4. raised # <<>> /\ raised[Len(raised)].eip = Here
          /\ pending.vector \in Causes(raised[Len(raised)].vector)
      BY <2>0 DEF ReportInv, DeliverInv
    <3>5. Len(raised) \in 1 .. Len(raised)
      BY <1>f, <3>4
    <3>6. TruthfulFrame(raised, f)
      BY <2>3, <3>3, <3>4, <3>5 DEF TruthfulFrame, Truthful, Entered
    <3>7. frames' = Append(frames, f)
      BY <2>3, <3>2 DEF Entered
    <3>8. Len(frames') = n + 1 /\ frames'[n + 1] = f /\ \A i \in 1 .. n : frames'[i] = frames[i]
      BY <1>f, <3>1, <3>7
    <3>9. \A i \in 1 .. n + 1 : i = n + 1 \/ i \in 1 .. n
      BY <3>1
    <3> QED BY <1>t, <2>0, <3>1, <3>6, <3>8, <3>9 DEF FramesInv
  <2> QED BY <1>4, <2>1, <2>2, <2>3, DeliverOutcomes DEF ReportInv
<1>5. CASE report_exception \/ double_fault_entry \/ stopped
  BY <1>1, <1>5 DEF report_exception, double_fault_entry, stopped, handlerUnchanged, allVars, cpuVars, outVars
<1>6. CASE mark_reported
  BY <1>6, <1>t, MarkOutcome DEF FramesInv, TruthfulFrame, Truthful
<1>7. CASE dispatch
  <2>1. UNCHANGED raised /\ frames # <<>>
    BY <1>7, <1>t, DispatchOutcome
  <2>2. CASE UNCHANGED frames
    BY <1>1, <2>1, <2>2
  <2>3. CASE frames' = SubSeq(frames, 1, Len(frames) - 1)
    <3>1. Len(frames') = Len(frames) - 1 /\ \A i \in 1 .. Len(frames) - 1 : frames'[i] = frames[i]
      BY <1>t, <2>1, <2>3, FrontFrames
    <3>2. \A i \in 1 .. Len(frames) - 1 : i \in 1 .. Len(frames)
      BY <1>f
    <3> QED BY <1>t, <2>1, <3>1, <3>2 DEF FramesInv
  <2> QED BY <1>7, <1>t, <2>2, <2>3, DispatchOutcome
<1> QED BY <1>2, <1>3, <1>4, <1>5, <1>6, <1>7 DEF FaultsNext, Handlers

\* The double-fault task runs once, over the registers of the fault that started it.
LEMMA TaskStep == ReportInv /\ FaultsNext => TaskInv'
<1> SUFFICES ASSUME ReportInv, FaultsNext, task' = "double_fault" PROVE TaskInv'
  BY DEF TaskInv
<1>t. CpuTypes /\ OutTypes /\ TableTypes /\ TaskInv
  BY DEF ReportInv
<1>f. frames \in Seq(Handlings) /\ raised \in Seq(Raisings) /\ tss \in [main : Registers, double_fault : Registers]
  BY <1>t DEF CpuTypes, OutTypes, TableTypes
<1>1. CASE UNCHANGED <<cpuVars, tss, back_link, raised>>
  BY <1>1, <1>t DEF cpuVars, TaskInv
<1>2. CASE KernelMain
  <2>1. task' = "main"
    BY <1>2, KernelOutcome DEF Kernel, cpuVars
  <2> QED BY <2>1
<1>3. CASE Code
  <2>1. UNCHANGED <<task, frames, tss, back_link>> /\ cpu = "run" /\ task = "double_fault"
    BY <1>3, <1>t, CodeOutcomes DEF tableVars
  <2>2. CASE CodeGoesOn
    BY <1>t, <2>1, <2>2 DEF CodeGoesOn, TaskInv
  <2>3. ASSUME NEW v \in Vectors, NEW software \in BOOLEAN, CodeRaises(v, software) PROVE TaskInv'
    <3>1. ~software
      BY <2>1, <2>3 DEF CodeRaises, Kernel
    <3>2. pending'.vector < EXCEPTION_VECTOR_COUNT /\ cpu' = "deliver"
      BY <2>3, <3>1 DEF CodeRaises
    <3> QED BY <1>t, <2>1, <3>2 DEF TaskInv
  <2> QED BY <1>3, <1>t, <2>2, <2>3, CodeOutcomes
<1>4. CASE deliver
  <2>0. cpu = "deliver" /\ UNCHANGED raised
    BY <1>4 DEF deliver, outVars
  <2>1. CASE Undelivered
    <3>1. UNCHANGED <<task, frames>> /\ cpu' # "run" /\ task = "double_fault"
      BY <2>0, <2>1 DEF Undelivered
    <3>2. cpu' = "deliver" => pending'.vector < EXCEPTION_VECTOR_COUNT
      <4>1. SUFFICES ASSUME cpu' = "deliver" PROVE pending'.vector < EXCEPTION_VECTOR_COUNT
        OBVIOUS
      <4>2. PICK v \in {DOUBLE_FAULT, GENERAL_PROTECTION_FAULT, PAGE_FAULT} :
                   pending' = [vector |-> v, software |-> FALSE]
        BY <2>1, <4>1 DEF Undelivered
      <4>3. pending'.vector = v
        BY <4>2
      <4> QED BY <4>2, <4>3, FaultConstants
    <3> QED BY <1>t, <3>1, <3>2 DEF TaskInv
  <2>2. CASE Switched
    <3>1. frames' = <<>> /\ Len(frames') = 0 /\ cpu' # "deliver" /\ back_link' = "main"
      BY <2>2 DEF Switched
    <3>2. tss'.main = [eip |-> Here, esp |-> esp]
      BY <1>f, <2>2 DEF Switched
    <3>3. raised # <<>> /\ raised[Len(raised)].eip = Here /\ raised[Len(raised)].esp = esp
      BY <2>0 DEF ReportInv, DeliverInv
    <3>4. /\ raised' # <<>> /\ tss'.main.eip = raised'[Len(raised')].eip
          /\ tss'.main.esp = raised'[Len(raised')].esp
      BY <2>0, <3>2, <3>3
    <3> QED BY <3>1, <3>4 DEF TaskInv
  <2>3. ASSUME NEW kind \in {"report", "catch_all"}, Entered(kind) PROVE TaskInv'
    <3>1. PICK n \in Nat : n = Len(frames)
      BY <1>f
    <3>2. PICK f : f = EnteredFrame(kind)
      OBVIOUS
    <3>3. f.vector = pending.vector /\ task = "double_fault" /\ cpu' = "run" /\ frames' = Append(frames, f)
      BY <2>3, <3>2 DEF EnteredFrame, Entered
    <3>4. f.vector < EXCEPTION_VECTOR_COUNT
      BY <1>t, <2>0, <3>3 DEF TaskInv
    <3>5. /\ Len(frames') = n + 1 /\ frames'[n + 1] = f /\ frames' # <<>>
          /\ \A i \in 1 .. n : frames'[i] = frames[i]
      BY <1>f, <3>1, <3>3
    <3>6. \A i \in 1 .. n + 1 : i = n + 1 \/ i \in 1 .. n
      BY <3>1
    <3>7. \A i \in 1 .. n : frames[i].vector < EXCEPTION_VECTOR_COUNT
      BY <1>t, <3>1, <3>3 DEF TaskInv
    <3> QED BY <3>3, <3>4, <3>5, <3>6, <3>7 DEF TaskInv
  <2> QED BY <1>4, <2>1, <2>2, <2>3, DeliverOutcomes DEF ReportInv
<1>5. CASE report_exception \/ double_fault_entry
  <2>1. UNCHANGED <<task, frames>> /\ cpu' = "halted"
    BY <1>5 DEF report_exception, double_fault_entry, handlerUnchanged
  <2> QED BY <1>t, <2>1 DEF TaskInv
<1>6. CASE mark_reported
  <2>1. UNCHANGED <<task, pending, cpu>> /\ cpu = "run" /\ Len(frames') = Len(frames) /\ frames # <<>>
        /\ \A i \in 1 .. Len(frames) : frames'[i].vector = frames[i].vector
    BY <1>6, <1>t, MarkOutcome DEF mark_reported, Handling
  <2>2. frames' # <<>>
    <3>1. Len(frames) # 0
      BY <1>f, <2>1
    <3> QED BY <2>1, <3>1
  <2> QED BY <1>t, <2>1, <2>2 DEF TaskInv
<1>7. CASE dispatch
  <2>1. frames # <<>> /\ task = "double_fault"
    BY <1>7, <1>t, DispatchOutcome
  <2>2. Running.vector < EXCEPTION_VECTOR_COUNT /\ Running.vector \in Nat
    BY <1>t, <2>1, LastFrame, FaultConstants, ZenonT(30) DEF TaskInv, Handlings
  <2>3. cpu' = "halted" /\ UNCHANGED frames
    BY <1>7, <1>t, <2>2, DispatchOutcome, FaultConstants
  <2> QED BY <1>t, <2>1, <2>3 DEF TaskInv
<1>8. CASE stopped
  BY <1>1, <1>8 DEF stopped, allVars, tableVars, outVars
<1> QED BY <1>2, <1>3, <1>4, <1>5, <1>6, <1>7, <1>8 DEF FaultsNext, Handlers

\* A report is what its handler knows.
LEMMA ScreenStep == ReportInv /\ FaultsNext => ScreenInv'
<1> SUFFICES ASSUME ReportInv, FaultsNext PROVE ScreenInv'
  OBVIOUS
<1>t. CpuTypes /\ OutTypes /\ TableTypes /\ ScreenInv
  BY DEF ReportInv
<1>f. screen \in Seq(Reports) /\ raised \in Seq(Raisings)
  BY <1>t DEF OutTypes
<1>1. CASE UNCHANGED <<screen, raised>>
  BY <1>1, <1>t DEF ScreenInv
<1>2. ASSUME NEW r \in Reports, TruthfulReport(raised, r), UNCHANGED raised, screen' = Append(screen, r)
      PROVE  ScreenInv'
  <2>1. PICK n \in Nat : n = Len(screen)
    BY <1>f
  <2>2. Len(screen') = n + 1 /\ screen'[n + 1] = r /\ \A i \in 1 .. n : screen'[i] = screen[i]
    BY <1>f, <1>2, <2>1
  <2>3. \A i \in 1 .. n + 1 : i = n + 1 \/ i \in 1 .. n
    BY <2>1
  <2> QED BY <1>t, <1>2, <2>1, <2>2, <2>3 DEF ScreenInv
<1>3. ASSUME frames # <<>>, UNCHANGED raised,
             screen' = Append(screen, [vector |-> Running.vector, eip |-> Running.eip,
                                       fault |-> Running.fault])
      PROVE  ScreenInv'
  <2>1. Running \in Handlings /\ TruthfulFrame(raised, Running)
    BY <1>t, <1>3, LastFrame DEF ReportInv, FramesInv
  <2>2. PICK r : r = [vector |-> Running.vector, eip |-> Running.eip, fault |-> Running.fault]
    BY ZenonT(30)
  <2>3. r.vector = Running.vector /\ r.eip = Running.eip /\ r.fault = Running.fault
    BY <2>2
  <2>4. r \in Reports
    BY <2>1, <2>2 DEF Handlings, Reports
  <2>5. TruthfulReport(raised, r)
    BY <2>1, <2>3 DEF TruthfulFrame, TruthfulReport, Truthful
  <2> QED BY <1>2, <1>3, <2>2, <2>4, <2>5
<1>4. CASE KernelMain
  BY <1>1, <1>4, KernelOutcome
<1>5. CASE Code
  <2>1. UNCHANGED screen
    BY <1>5, <1>t, CodeOutcomes
  <2>2. CASE CodeGoesOn
    BY <1>1, <2>1, <2>2 DEF CodeGoesOn
  <2>3. ASSUME NEW v \in Vectors, NEW software \in BOOLEAN, CodeRaises(v, software) PROVE ScreenInv'
    <3>1. [vector |-> v, eip |-> Here, esp |-> esp'] \in Raisings
      BY <1>t, <2>3, HereIsAPlace DEF CodeRaises, Raisings
    <3>2. \A r \in Reports : TruthfulReport(raised, r) => TruthfulReport(raised', r)
      BY <1>f, <2>3, <3>1, HistoryGrows DEF CodeRaises
    <3>3. \A i \in 1 .. Len(screen) : screen[i] \in Reports
      BY <1>f
    <3> QED BY <1>t, <2>1, <3>2, <3>3 DEF ScreenInv
  <2> QED BY <1>5, <1>t, <2>2, <2>3, CodeOutcomes
<1>6. CASE deliver \/ mark_reported \/ stopped
  BY <1>1, <1>6, <1>t, MarkOutcome, ZenonT(30) DEF deliver, stopped, allVars, outVars
<1>7. CASE report_exception
  BY <1>3, <1>7 DEF report_exception, Handling, Show, handlerUnchanged
<1>8. CASE dispatch
  BY <1>1, <1>3, <1>8, <1>t, DispatchOutcome
<1>9. CASE double_fault_entry
  <2>1. cpu = "run" /\ task = "double_fault" /\ frames = <<>> /\ UNCHANGED raised
    BY <1>9 DEF double_fault_entry, handlerUnchanged
  <2>2. PICK r : r = [vector |-> DOUBLE_FAULT, fault |-> Len(raised), eip |-> interrupted_state.eip,
                      esp |-> interrupted_state.esp, link |-> interrupted_state.link]
    BY ZenonT(30)
  <2>3. screen' = Append(screen, r)
    BY <1>9, <2>2 DEF double_fault_entry, Show
  <2>4. r.vector = DOUBLE_FAULT /\ r.fault = Len(raised) /\ r.eip = tss.main.eip /\ r.esp = tss.main.esp
        /\ r.link = back_link
    BY <2>2 DEF interrupted_state
  <2>5. tss.main \in Registers /\ back_link \in Tasks /\ Len(raised) \in Nat /\ DOUBLE_FAULT \in Vectors
    BY <1>t, FaultConstants DEF TableTypes, OutTypes
  <2>6. r \in Reports
    BY <2>2, <2>5 DEF interrupted_state, Registers, Reports
  <2>7. /\ raised # <<>> /\ back_link = "main"
        /\ tss.main.eip = raised[Len(raised)].eip /\ tss.main.esp = raised[Len(raised)].esp
    BY <2>1 DEF ReportInv, TaskInv
  <2>8. Len(raised) \in 1 .. Len(raised)
    BY <1>f, <2>7
  <2>9. TruthfulReport(raised, r)
    BY <2>4, <2>7, <2>8 DEF TruthfulReport, Truthful, Causes
  <2> QED BY <1>2, <2>1, <2>3, <2>6, <2>9
<1> QED BY <1>4, <1>5, <1>6, <1>7, <1>8, <1>9 DEF FaultsNext, Handlers
-----------------------------------------------------------------------------
\* Words that reach from the stack to below its bottom include one of the guard page.
LEMMA GuardStops ==
  ASSUME Inv, pg, NEW lo \in Nat, NEW hi \in Nat, lo < stack_bottom, stack_bottom <= hi
  PROVE  ~Writable(cr3, lo, hi)
<1>1. PICK g \in Nat : g = machine.guard /\ g \in Frames
  BY PagingAssumption, Constants, Paged
<1>2. PICK w \in Nat : w = PAGE_WORDS /\ w >= 1
  BY FaultsAssumption
<1>3. stack_bottom = (g + 1) * w /\ (g + 1) * w = g * w + w /\ g * w \in Nat
  BY <1>1, <1>2 DEF stack_bottom
<1>4. PICK h \in Nat : h = hi - 1
  BY <1>2, <1>3
<1>5. lo \div w < g + 1 /\ lo \div w \in Nat
  <2>1. PICK k \in Nat : k = g + 1
    BY <1>1
  <2>2. lo < k * w
    BY <1>3, <2>1
  <2> QED BY <1>2, <2>1, <2>2, Below, DivMod, ZenonT(30)
<1>6. ~(h < g * w)
  BY <1>2, <1>3, <1>4
<1>7. ~(h \div w < g) /\ h \div w \in Nat
  BY <1>1, <1>2, <1>6, Below, DivMod
<1>8. g \in lo \div w .. h \div w
  BY <1>1, <1>5, <1>7
<1>9. Translate(cr3, g) = Absent
  BY <1>1, CompleteMap, Paged
<1> QED BY <1>1, <1>2, <1>4, <1>8, <1>9 DEF Writable

\* Every step keeps the kernel's own code above the guard page.
LEMMA StackStep == Inv /\ ReportInv /\ StackInv /\ FaultsNext => StackInv'
<1> SUFFICES ASSUME Inv, ReportInv, StackInv, FaultsNext, pg', task' = "main", ~deep' PROVE StackInv'
  BY DEF StackInv
<1>t. CpuTypes /\ OutTypes
  BY DEF ReportInv
<1>f. frames \in Seq(Handlings) /\ esp \in Int
  BY <1>t DEF CpuTypes
<1>b. PICK b \in Nat : b = stack_bottom
  BY StackBounds, Paged
<1>1. CASE UNCHANGED <<machine, pg, deep, cpuVars>>
  BY <1>1 DEF cpuVars, StackInv, stack_bottom
<1>2. CASE paging_init
  <2>1. Kernel /\ UNCHANGED <<machine, cpuVars>>
    BY <1>2 DEF paging_init, Steps, start, allocate_directory, allocate_table, set_page_directory, enable,
                make_report
  <2>2. CASE pg' = pg
    BY <1>1, <1>2, <2>1, <2>2, ZenonT(30) DEF paging_init
  <2>3. CASE pg' # pg
    <3>1. ~(esp < stack_bottom)
      BY <1>2, <2>3, ZenonT(30) DEF paging_init
    <3>2. esp >= b
      BY <1>b, <1>f, <3>1
    <3>3. stack_bottom' = b
      BY <1>b, <2>1 DEF stack_bottom
    <3>4. Len(frames) = 0
      BY <2>1 DEF Kernel
    <3> QED BY <2>1, <3>2, <3>3, <3>4 DEF StackInv, Kernel, cpuVars
  <2> QED BY <2>2, <2>3, ZenonT(30)
<1>3. CASE KernelMain /\ ~paging_init
  BY <1>1, <1>3 DEF KernelMain, tss_init, gdt_init, load_task_register, idt_init, exceptions_init,
                    interrupts_init, clear_handler, vars
<1>4. CASE call \/ ret \/ fault \/ int_n
  <2>1. UNCHANGED <<machine, pg, cr3, deep, task, frames>> /\ cpu = "run"
    BY <1>4, <1>t, CodeOutcomes, ZenonT(30) DEF Code, vars
  <2>2. stack_bottom' = b
    BY <1>b, <2>1 DEF stack_bottom
  <2>3. \A i \in 1 .. Len(frames) :
          frames[i].vector >= EXCEPTION_VECTOR_COUNT => frames[i].esp + 3 >= b
    BY <1>b, <2>1 DEF StackInv
  <2>4. frames = <<>> => esp >= b
    BY <1>b, <2>1 DEF StackInv
  <2>5. ASSUME cpu' = "run", frames = <<>> PROVE esp' >= b
    <3>1. CASE call
      <4>1. PICK n \in Calls : /\ n <= esp /\ esp' = esp - n
                               /\ IF Writable(cr3, esp', esp) THEN UNCHANGED <<cpu, pending, raised>>
                                  ELSE Raise(PAGE_FAULT, FALSE, esp')
        BY <3>1, ZenonT(30) DEF call
      <4>2. Writable(cr3, esp', esp)
        BY <2>5, <4>1 DEF Raise
      <4>3. PICK lo \in Nat : lo = esp'
        BY <1>f, <4>1, FaultConstants
      <4>4. PICK hi \in Nat : hi = esp
        BY <1>b, <1>f, <2>4, <2>5
      <4>5. ~(lo < b)
        BY <1>b, <2>1, <2>4, <2>5, <4>2, <4>3, <4>4, GuardStops
      <4> QED BY <1>b, <4>3, <4>5
    <3>2. CASE ret
      BY <1>b, <1>f, <2>4, <2>5, <3>2, FaultConstants DEF ret
    <3>3. CASE fault \/ int_n
      BY <2>5, <3>3 DEF fault, int_n, Raise
    <3> QED BY <1>4, <3>1, <3>2, <3>3
  <2>6. ASSUME cpu' = "deliver", pending'.vector >= EXCEPTION_VECTOR_COUNT PROVE esp' >= b
    <3>1. PICK v \in Vectors, software \in BOOLEAN : CodeRaises(v, software)
      BY <1>4, <1>t, <2>1, <2>6, CodeOutcomes DEF Code, CodeGoesOn
    <3>2. pending'.vector = v /\ v \in Nat
      BY <3>1, FaultConstants DEF CodeRaises
    <3>3. software
      <4>1. ~software => v < EXCEPTION_VECTOR_COUNT
        BY <3>1 DEF CodeRaises
      <4> QED BY <2>6, <3>2, <4>1, FaultConstants
    <3> QED BY <2>4, <3>1, <3>3 DEF CodeRaises, Kernel
  <2> QED BY <2>1, <2>2, <2>3, <2>5, <2>6 DEF StackInv
<1>5. CASE deliver
  <2>0. cpu = "deliver" /\ UNCHANGED <<machine, pg, deep>>
    BY <1>5, ZenonT(30) DEF deliver
  <2>1. stack_bottom' = b
    BY <1>b, <2>0 DEF stack_bottom
  <2>2. CASE Undelivered
    <3>1. UNCHANGED <<task, frames, esp>> /\ cpu' # "run"
      BY <2>0, <2>2 DEF Undelivered
    <3>2. cpu' = "deliver" => ~(pending'.vector >= EXCEPTION_VECTOR_COUNT)
      <4>1. SUFFICES ASSUME cpu' = "deliver" PROVE ~(pending'.vector >= EXCEPTION_VECTOR_COUNT)
        OBVIOUS
      <4>2. PICK v \in {DOUBLE_FAULT, GENERAL_PROTECTION_FAULT, PAGE_FAULT} :
                   pending' = [vector |-> v, software |-> FALSE]
        BY <2>2, <4>1 DEF Undelivered
      <4>3. pending'.vector = v
        BY <4>2
      <4> QED BY <4>2, <4>3, FaultConstants
    <3> QED BY <1>b, <2>0, <2>1, <3>1, <3>2 DEF StackInv
  <2>3. CASE Switched
    BY <2>3 DEF Switched
  <2>4. ASSUME NEW kind \in {"report", "catch_all"}, Entered(kind) PROVE StackInv'
    <3>1. PICK n \in Nat : n = Len(frames)
      BY <1>f
    <3>2. PICK f : f = EnteredFrame(kind)
      OBVIOUS
    <3>3. /\ f.vector = pending.vector /\ f.esp = esp - (IF Errored THEN 4 ELSE 3)
          /\ task = "main" /\ cpu' = "run" /\ frames' = Append(frames, f)
      BY <2>4, <3>2 DEF EnteredFrame, Entered
    <3>4. /\ Len(frames') = n + 1 /\ frames'[n + 1] = f /\ frames' # <<>>
          /\ \A i \in 1 .. n : frames'[i] = frames[i]
      BY <1>f, <3>1, <3>3
    <3>5. \A i \in 1 .. n + 1 : i = n + 1 \/ i \in 1 .. n
      BY <3>1
    <3>6. \A i \in 1 .. n :
            frames[i].vector >= EXCEPTION_VECTOR_COUNT => frames[i].esp + 3 >= b
      BY <1>b, <2>0, <3>1, <3>3 DEF StackInv
    <3>7. ASSUME f.vector >= EXCEPTION_VECTOR_COUNT PROVE f.esp + 3 >= b
      <4>1. pending.vector \in Nat /\ pending.vector >= 32
        BY <1>t, <3>3, <3>7, FaultConstants, ZenonT(30) DEF CpuTypes
      <4>2. ~Errored
        BY <4>1 DEF Errored, PushesErrorCode
      <4>3. esp >= b
        BY <1>b, <2>0, <3>3, <3>7 DEF StackInv
      <4> QED BY <1>b, <1>f, <3>3, <4>2, <4>3
    <3> QED BY <2>1, <3>3, <3>4, <3>5, <3>6, <3>7 DEF StackInv
  <2> QED BY <1>5, <2>2, <2>3, <2>4, DeliverOutcomes DEF ReportInv
<1>6. CASE report_exception \/ double_fault_entry
  <2>1. UNCHANGED <<machine, pg, deep, task, frames>> /\ cpu' = "halted"
    BY <1>6 DEF report_exception, double_fault_entry, handlerUnchanged, vars
  <2> QED BY <2>1 DEF StackInv, stack_bottom
<1>7. CASE mark_reported
  <2>1. UNCHANGED <<machine, pg, deep>> /\ cpu = "run"
    BY <1>7, ZenonT(30) DEF mark_reported, Handling, handlerUnchanged, vars
  <2>2. UNCHANGED <<task, cpu>> /\ Len(frames') = Len(frames) /\ frames # <<>>
        /\ \A i \in 1 .. Len(frames) : frames'[i].vector = frames[i].vector /\ frames'[i].esp = frames[i].esp
    BY <1>7, <1>t, MarkOutcome
  <2>3. Len(frames) # 0
    BY <1>f, <2>2
  <2>4. frames' # <<>>
    BY <2>2, <2>3
  <2> QED BY <2>1, <2>2, <2>4 DEF StackInv, stack_bottom
<1>8. CASE dispatch
  <2>1. frames # <<>> /\ UNCHANGED <<machine, pg, deep, task>> /\ cpu = "run"
    BY <1>8, <1>t, DispatchOutcome DEF vars
  <2>2. stack_bottom' = b
    BY <1>b, <2>1 DEF stack_bottom
  <2>3. \A i \in 1 .. Len(frames) :
          frames[i].vector >= EXCEPTION_VECTOR_COUNT => frames[i].esp + 3 >= b
    BY <1>b, <2>1 DEF StackInv
  <2>4. CASE cpu' = "halted" /\ UNCHANGED <<esp, frames>>
    BY <2>2, <2>3, <2>4 DEF StackInv
  <2>5. CASE /\ Running.vector >= EXCEPTION_VECTOR_COUNT
             /\ esp' = Running.esp + 3 /\ frames' = SubSeq(frames, 1, Len(frames) - 1) /\ UNCHANGED cpu
    <3>1. esp' >= b
      BY <1>t, <2>1, <2>3, <2>5, LastFrame
    <3>2. Len(frames') = Len(frames) - 1 /\ \A i \in 1 .. Len(frames) - 1 : frames'[i] = frames[i]
      BY <1>t, <2>1, <2>5, FrontFrames
    <3>3. \A i \in 1 .. Len(frames) - 1 : i \in 1 .. Len(frames)
      BY <1>f
    <3> QED BY <2>1, <2>2, <2>3, <2>5, <3>1, <3>2, <3>3 DEF StackInv
  <2> QED BY <1>8, <1>t, <2>4, <2>5, DispatchOutcome
<1>9. CASE stopped
  BY <1>1, <1>9, ZenonT(30) DEF stopped, allVars, vars
<1> QED BY <1>2, <1>3, <1>4, <1>5, <1>6, <1>7, <1>8, <1>9 DEF FaultsNext, KernelMain, Code, Handlers
-----------------------------------------------------------------------------
\* The machine starts with everything in order.
LEMMA FaultsStart == FaultsInit => Inv /\ ReportInv /\ StackInv
<1> SUFFICES ASSUME FaultsInit PROVE Inv /\ ReportInv /\ StackInv
  OBVIOUS
<1>1. Inv /\ ~pg
  BY InitInv DEF FaultsInit, Init
<1>2. stack_top \in Int
  BY <1>1, StackBounds, Paged
<1>3. EMPTY \in Registers
  BY DEF EMPTY, Registers
<1>4. TableTypes
  BY <1>3 DEF FaultsInit, TableTypes, Tasks, Gates, MISSING
<1>5. CpuTypes /\ OutTypes
  <2>1. Idle \in [vector : Vectors, software : BOOLEAN]
    BY FaultConstants DEF Idle
  <2>2. CpuTypes
    BY <1>2, <2>1 DEF FaultsInit, CpuTypes
  <2>3. OutTypes
    BY DEF FaultsInit, OutTypes
  <2> QED BY <2>2, <2>3
<1>6. TablesInv
  BY FaultConstants DEF FaultsInit, TablesInv, Shaped, None
<1>7. DeliverInv /\ TaskInv
  BY DEF FaultsInit, DeliverInv, TaskInv
<1>8. FramesInv /\ ScreenInv
  <2>1. Len(frames) = 0 /\ Len(screen) = 0
    BY DEF FaultsInit
  <2> QED BY <2>1 DEF FramesInv, ScreenInv
<1>9. StackInv
  BY <1>1 DEF StackInv
<1> QED BY <1>1, <1>4, <1>5, <1>6, <1>7, <1>8, <1>9 DEF ReportInv

\* Stuttering changes nothing.
LEMMA FaultsStutter == ReportInv /\ StackInv /\ UNCHANGED allVars => ReportInv' /\ StackInv'
<1> SUFFICES ASSUME ReportInv, StackInv, UNCHANGED allVars PROVE ReportInv' /\ StackInv'
  OBVIOUS
<1>1. TableTypes' /\ CpuTypes' /\ OutTypes' /\ TablesInv'
  BY DEF ReportInv, allVars, tableVars, cpuVars, outVars, TableTypes, CpuTypes, OutTypes, TablesInv
<1>2. DeliverInv' /\ TaskInv' /\ FramesInv' /\ ScreenInv'
  BY DEF ReportInv, allVars, tableVars, cpuVars, outVars, DeliverInv, TaskInv, FramesInv, ScreenInv, Here
<1>3. StackInv'
  BY DEF allVars, vars, cpuVars, StackInv, stack_bottom
<1> QED BY <1>1, <1>2, <1>3 DEF ReportInv

\* The invariants hold in every reachable state.
LEMMA AlwaysFaults == FaultsSpec => [](Inv /\ ReportInv /\ StackInv)
<1>1. Inv /\ ReportInv /\ StackInv /\ [FaultsNext]_allVars => (Inv /\ ReportInv /\ StackInv)'
  <2> SUFFICES ASSUME Inv, ReportInv, StackInv, [FaultsNext]_allVars
               PROVE  Inv' /\ ReportInv' /\ StackInv'
    OBVIOUS
  <2>1. Inv'
    BY PagingKept
  <2>2. CASE FaultsNext
    BY <2>1, <2>2, TablesStep, CpuStep, DeliverStep, TaskStep, FramesStep, ScreenStep, StackStep DEF ReportInv
  <2>3. CASE UNCHANGED allVars
    BY <2>1, <2>3, FaultsStutter
  <2> QED BY <2>2, <2>3
<1> QED BY <1>1, FaultsStart, PTL DEF FaultsSpec

(***************************************************************************)
(* Every report on the screen is true, for every set of vectors, any       *)
(* number of faults, nested in any way and raised at any point of the      *)
(* boot, and any depth of the stack.                                       *)
(***************************************************************************)
THEOREM ReportsTellTheTruth == FaultsSpec => []ReportsAreTrue
<1>1. ScreenInv => ReportsAreTrue
  BY DEF ScreenInv, ReportsAreTrue, TruthfulReport, Truthful, Causes
<1>2. ReportInv => ReportsAreTrue
  BY <1>1 DEF ReportInv
<1> QED BY <1>2, AlwaysFaults, PTL

(***************************************************************************)
(* With paging on, a call that overruns the kernel stack stops at the      *)
(* guard page, whatever the size of a page, of the stack and of the call's *)
(* frame, and also after a handler has returned.                           *)
(***************************************************************************)
THEOREM GuardPageHolds == FaultsSpec => []OverflowStopsAtGuard
<1>1. StackInv => OverflowStopsAtGuard
  BY DEF StackInv, OverflowStopsAtGuard, Kernel
<1> QED BY <1>1, AlwaysFaults, PTL

(***************************************************************************)
(* Faults in the middle of paging::init, and the task switch of a double   *)
(* fault, leave the identity map, and what init reports of it, as they are.*)
(***************************************************************************)
THEOREM FaultsKeepTheMap == FaultsSpec => []MapIsIdentity
BY MapFromInv, AlwaysFaults, PTL
=============================================================================
