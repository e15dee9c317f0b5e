------------------------------- MODULE MCBoot -------------------------------
(***************************************************************************)
(* Machines to boot: frames of four bytes, a CPU that addresses            *)
(* twenty-four bytes and a firmware that addresses forty; drives so small  *)
(* that the kernel's sectors cross tracks, heads and cylinders, and need   *)
(* the cylinder's top bits.                                                *)
(***************************************************************************)
EXTENDS Boot

Entry(base, length, kind, attributes) ==
  [base |-> base, length |-> length, kind |-> kind, attributes |-> attributes]

\* Low memory, and a kernel image that covers parts of two frames.
MCReserved == {[start |-> 0, end |-> 1], [start |-> 11, end |-> 13]}

\* Aligned and ragged ends, neighbours that share a frame, empty, ignorable,
\* reserved, across the 32-bit limit, beyond it, and past the top of the
\* address space.
MCEntries ==
  {Entry(0, 16, 1, Unwritten), Entry(3, 15, 1, 1), Entry(4, 2, 1, 1), Entry(6, 3, 1, 1),
   Entry(16, 4, 1, 1), Entry(20, 8, 1, Unwritten), Entry(24, 8, 1, 1), Entry(17, 39, 1, 1),
   Entry(4, 4, 2, 1), Entry(16, 4, 1, 0), Entry(4, 0, 1, 1), Entry(18, 6, 3, Unwritten)}

\* Every map of up to three entries, one more than the block holds.
MCSequences == {<<>>} \cup {<<a>> : a \in MCEntries} \cup {<<a, b>> : a, b \in MCEntries}
                 \cup {<<a, b, c>> : a, b, c \in MCEntries}

\* One usable region, at every base and of every length.
MCSingle == {<<Entry(base, length, 1, 1)>> : base \in 0 .. U64_MAX, length \in 0 .. U64_MAX}

MCBiosMaps == MCSequences \cup MCSingle

MCGeometries == [heads : 1 .. BYTE, sectors : 1 .. BYTE - 1]

\* Every map boots from the smallest drive, and one map from every drive: the
\* loader and the map do not meet.
MCBootInit ==
  /\ BootInit
  /\ geometry = [heads |-> 1, sectors |-> 1] \/ bios = <<Entry(0, 16, 1, Unwritten)>>

MCBootSpec == MCBootInit /\ [][BootNext]_boot_vars /\ WF_boot_vars(Step)
=============================================================================
