-------------------------------- MODULE Boot --------------------------------
(***************************************************************************)
(* The boot, from the first instruction of the boot sector to the pool of  *)
(* frames: `start` in boot.asm calls detect_memory, get_disk_geometry and  *)
(* load_kernel, and the kernel it enters reads the map and builds the      *)
(* allocator.  MemoryMap has the two halves of the map's way, Bootloader   *)
(* the loader between them.                                                *)
(***************************************************************************)
EXTENDS MemoryMap

CONSTANTS BYTE, CYLINDER_HIGH, SEGMENTS, LBAS, KERNEL_LOAD_SEGMENT, KERNEL_SECTORS, Geometries

VARIABLES geometry, stage, sectors_per_track, heads_per_cylinder, sectors_per_cylinder,
          sectors_remaining, current_lba, current_segment, memory

L == INSTANCE Bootloader WITH step <- stage

ASSUME BootloaderAssumption ==
  /\ BYTE \in Nat \ {0} /\ CYLINDER_HIGH \in Nat \ {0} /\ SEGMENTS \in Nat
  /\ KERNEL_LOAD_SEGMENT \in Nat /\ KERNEL_SECTORS \in Nat
  /\ KERNEL_LOAD_SEGMENT + KERNEL_SECTORS <= SEGMENTS
  /\ LBAS \in Nat /\ KERNEL_SECTORS + 1 < LBAS
  /\ \A g \in Geometries : /\ g.heads \in 1 .. BYTE /\ g.sectors \in 1 .. BYTE - 1
                            /\ KERNEL_SECTORS < BYTE * CYLINDER_HIGH * (g.heads * g.sectors)

BootInit == Init /\ L!Init

loader_vars == <<geometry, stage, sectors_per_track, heads_per_cylinder, sectors_per_cylinder,
                 sectors_remaining, current_lba, current_segment, memory>>
boot_vars == <<vars, loader_vars>>

\* start, up to its first call's return.
DetectMemory == (detect_entry \/ detect_carry) /\ UNCHANGED loader_vars

\* The calls that follow, which leave the handoff block alone.
LoadKernel == step = "load" /\ L!Loader /\ UNCHANGED vars

\* kernel_main: memory::map::load and memory::frame::init.
KernelMain == stage = "kernel" /\ (load \/ new) /\ UNCHANGED loader_vars

Halted == stage \in {"disk_error", "fault"}

\* The kernel goes on with its pool, or the loader has hung.
Rest == (step = "done" \/ Halted) /\ UNCHANGED boot_vars

Step == DetectMemory \/ LoadKernel \/ KernelMain

BootNext == Step \/ Rest

\* The processor keeps executing.
BootSpec == BootInit /\ [][BootNext]_boot_vars /\ WF_boot_vars(Step)
-----------------------------------------------------------------------------
(***************************************************************************)
(* load_kernel "Loads KERNEL_SECTORS sectors (starting right after this    *)
(* boot sector, i.e. LBA 1)" in order from the load segment: the kernel is *)
(* entered only with every sector of it in its place, on every drive       *)
(* geometry, and never after a read that failed.                           *)
(***************************************************************************)
KernelIsLoaded ==
  stage = "kernel" =>
    \A i \in 0 .. KERNEL_SECTORS - 1 : memory[KERNEL_LOAD_SEGMENT + i] = 1 + i

(***************************************************************************)
(* The boot ends, whatever map the firmware tells and whatever the drive   *)
(* does: with a pool, at the disk error message, or (a drive whose count   *)
(* of heads does not fit its byte) at a division fault.                    *)
(***************************************************************************)
BootEnds == <>(step = "done" \/ Halted)
=============================================================================
