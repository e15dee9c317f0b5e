----------------------------- MODULE Bootloader -----------------------------
(***************************************************************************)
(* The boot sector's loader: the drive's geometry from the BIOS, then the  *)
(* kernel one sector at a time through cylinder/head/sector addresses held *)
(* in bytes and words.  Module Boot puts it in its place, between the walk *)
(* of the memory map and the kernel.  The drive and its BIOS are external. *)
(***************************************************************************)
EXTENDS Integers

CONSTANTS
  BYTE,                  \* values of an 8-bit register
  CYLINDER_HIGH,         \* values of the cylinder bits that CL holds
  SEGMENTS,              \* values of a segment register, in steps of one sector
  LBAS,                  \* values of the doubleword that holds an address
  KERNEL_LOAD_SEGMENT,
  KERNEL_SECTORS,
  Geometries             \* [heads, sectors] of the drives the loader may meet

VARIABLES
  geometry,                 \* the geometry of the boot drive
  step,                     \* "geometry", "load", "kernel", "disk_error" or "fault"
  sectors_per_track, heads_per_cylinder, sectors_per_cylinder,
  sectors_remaining, current_lba, current_segment,
  memory                    \* the sector each segment holds

NoSector == -1

Init ==
  /\ geometry \in Geometries /\ step = "geometry"
  /\ sectors_per_track = 0 /\ heads_per_cylinder = 0 /\ sectors_per_cylinder = 0
  /\ sectors_remaining = 0 /\ current_lba = 0 /\ current_segment = 0
  /\ memory = [s \in 0 .. SEGMENTS - 1 |-> NoSector]
-----------------------------------------------------------------------------
\* Where the drive finds an address: CH, the top bits of CL, DH and the rest of CL.
Bios(ch, cl_high, dh, cl_low) ==
  ((ch + cl_high * BYTE) * geometry.heads + dh) * geometry.sectors + cl_low - 1

disk_error ==
  /\ step' = "disk_error"
  /\ UNCHANGED <<geometry, sectors_per_track, heads_per_cylinder, sectors_per_cylinder,
                 sectors_remaining, current_lba, current_segment, memory>>

\* The drive reports its highest head; the count of heads is kept in a byte.
Heads(dh) == (dh + 1) % BYTE

\* get_disk_geometry, and load_kernel up to its loop.
get_disk_geometry ==
  /\ step = "geometry"
  /\ \/ disk_error
     \/ /\ step' = "load"
        /\ sectors_per_track' = geometry.sectors
        /\ heads_per_cylinder' = Heads(geometry.heads - 1)
        /\ sectors_per_cylinder' = heads_per_cylinder' * sectors_per_track'
        /\ sectors_remaining' = KERNEL_SECTORS /\ current_lba' = 1
        /\ current_segment' = KERNEL_LOAD_SEGMENT
        /\ UNCHANGED <<geometry, memory>>

\* Mutant: the cylinder's top bits are dropped.
Chs_low(lba) ==
  LET cylinder == lba \div sectors_per_cylinder
      rest == lba % sectors_per_cylinder
  IN  Bios(cylinder % BYTE, 0,
           (rest \div sectors_per_track) % BYTE, (rest % sectors_per_track) + 1)

\* read_one_sector_chs: the sector that the registers it fills in address.
Chs(lba) ==
  LET cylinder == lba \div sectors_per_cylinder
      rest == lba % sectors_per_cylinder
  IN  Bios(cylinder % BYTE, (cylinder \div BYTE) % CYLINDER_HIGH,
           (rest \div sectors_per_track) % BYTE, (rest % sectors_per_track) + 1)

\* Mutant: the count of sectors left is never lowered.
Remaining_kept == sectors_remaining

Remaining == sectors_remaining - 1

\* One turn of load_kernel's loop; a cylinder of no sectors is a division by zero.
read_loop ==
  /\ step = "load" /\ sectors_remaining # 0
  /\ \/ sectors_per_cylinder # 0 /\ disk_error
     \/ /\ sectors_per_cylinder # 0
        /\ memory' = [memory EXCEPT ![current_segment] = Chs(current_lba)]
        /\ sectors_remaining' = Remaining
        /\ current_lba' = (current_lba + 1) % LBAS
        /\ current_segment' = (current_segment + 1) % SEGMENTS
        /\ UNCHANGED <<geometry, step, sectors_per_track, heads_per_cylinder, sectors_per_cylinder>>
     \/ /\ sectors_per_cylinder = 0
        /\ step' = "fault"
        /\ UNCHANGED <<geometry, sectors_per_track, heads_per_cylinder, sectors_per_cylinder,
                       sectors_remaining, current_lba, current_segment, memory>>

\* A20, the video mode, protected mode, and the jump to the kernel.
enter_kernel ==
  /\ step = "load" /\ sectors_remaining = 0
  /\ step' = "kernel"
  /\ UNCHANGED <<geometry, sectors_per_track, heads_per_cylinder, sectors_per_cylinder,
                 sectors_remaining, current_lba, current_segment, memory>>

Loader == get_disk_geometry \/ read_loop \/ enter_kernel
=============================================================================
