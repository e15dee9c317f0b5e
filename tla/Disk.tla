-------------------------------- MODULE Disk --------------------------------
(***************************************************************************)
(* The ATA PIO driver and GOATFS on top of it: the probe, the mount at     *)
(* boot, and the reads of the shell's cat, against a drive that may be     *)
(* slow, fail, wedge or disappear between any two reads of its status.     *)
(* Module Cat runs it under the shell.                                     *)
(*                                                                         *)
(* A sector in the kernel's memory is its address.  The drive is external: *)
(* a command restarts it whatever it was doing.                            *)
(***************************************************************************)
EXTENDS Goatfs

CONSTANTS
  SPIN_LIMIT,      \* status polls before a wait gives up
  FS_BASE_LBA,
  LBA_LIMIT,       \* first address 28 bits cannot hold
  U32_MAX

ASSUME DiskAssumption ==
  /\ SPIN_LIMIT \in Nat \ {0} /\ MAX_FILE_SIZE % SECTOR_SIZE = 0
  /\ FS_BASE_LBA \in Nat /\ LBA_LIMIT \in Nat /\ U32_MAX \in Nat
  /\ FS_BASE_LBA + 1 < LBA_LIMIT /\ LBA_LIMIT <= U32_MAX

Garbage == -1    \* what the data port gives when no sector is ready

VARIABLES
  drive,       \* "absent" (reads 0xff), "busy", "ready", "drq" or "err"
  todo,        \* sectors the drive has still to deliver
  present,     \* AtaController::present
  MOUNTED, files,
  call,        \* what the kernel is doing: "probe", "superblock", "directory", "file", "none"
  pc,          \* where in the driver: "idle", "wait_bsy", "wait_drq", "transfer"; or "panicked"
  spins, lba, count, data,
  entry,       \* the directory entry being read
  result

drive_vars == <<image_vars, drive, todo>>
fs_vars == <<MOUNTED, files>>
io_vars == <<spins, lba, count, data>>
disk_vars == <<drive_vars, present, fs_vars, call, pc, io_vars, entry, result>>

NoEntry == [name |-> "", size |-> 0, lba_off |-> 0]

DiskInit ==
  /\ PackInit
  /\ drive \in {"absent", "busy", "ready"} /\ todo = << >>
  /\ present = FALSE /\ MOUNTED = FALSE /\ files = << >>
  /\ call = "probe" /\ pc = "wait_bsy" /\ spins = 0 /\ lba = 0 /\ count = 0 /\ data = << >>
  /\ entry = NoEntry /\ result = "none"
-----------------------------------------------------------------------------
\* The drive.
drive_answers ==
  /\ drive = "busy"
  /\ drive' \in {"err", IF todo = << >> THEN "ready" ELSE "drq"}
  /\ UNCHANGED <<image_vars, todo, present, fs_vars, call, pc, io_vars, entry, result>>

drive_fails ==
  /\ drive # "absent"
  /\ drive' \in {"err", "absent"}
  /\ UNCHANGED <<image_vars, todo, present, fs_vars, call, pc, io_vars, entry, result>>
-----------------------------------------------------------------------------
\* A call returns to the kernel.
Return(r) == pc' = "idle" /\ result' = r /\ UNCHANGED <<spins, lba, count, data>>

\* Mutant: the wait has no limit.
Spin_forever(error) == UNCHANGED <<pc, result, spins, lba, count, data>>

\* One more poll, or the end of a bounded wait.
Spin(error) ==
  IF spins + 1 < SPIN_LIMIT
  THEN spins' = spins + 1 /\ UNCHANGED <<pc, result, lba, count, data>>
  ELSE Return(error)

\* wait_while(BSY), from ata::init and from read_pio, which then writes the command.
poll_bsy ==
  /\ pc = "wait_bsy"
  /\ \/ drive = "absent" /\ Return("Timeout") /\ UNCHANGED <<drive, todo, present>>
     \/ drive = "busy" /\ Spin("Timeout") /\ UNCHANGED <<drive, todo, present>>
     \/ /\ drive \notin {"absent", "busy"}
        /\ IF call = "probe"
           THEN Return("Ok") /\ present' = TRUE /\ UNCHANGED <<drive, todo>>
           ELSE /\ drive' = "busy" /\ todo' = [i \in 1 .. count |-> lba + i - 1]
                /\ pc' = "wait_drq" /\ spins' = 0
                /\ UNCHANGED <<present, result, lba, count, data>>
  /\ UNCHANGED <<image_vars, fs_vars, call, entry>>

\* wait_for_drq, whose every error read_pio turns into Timeout.
poll_drq ==
  /\ pc = "wait_drq"
  /\ \/ drive \in {"absent", "err"} /\ Return("Timeout")
     \/ drive \in {"busy", "ready"} /\ Spin("Timeout")
     \/ drive = "drq" /\ pc' = "transfer" /\ UNCHANGED <<result, io_vars>>
  /\ UNCHANGED <<drive_vars, present, fs_vars, call, entry>>

\* Mutant: the drive is waited for only before the first sector.
NextSector_unwaited == IF Len(data') = count THEN "idle" ELSE "transfer"

NextSector == IF Len(data') = count THEN "idle" ELSE "wait_drq"

\* The second look at the status (0xff has ERR set), and the words of a sector.
transfer ==
  /\ pc = "transfer"
  /\ IF drive \in {"absent", "err"}
     THEN Return("DriveError") /\ UNCHANGED <<drive, todo>>
     ELSE /\ IF drive = "drq"
             THEN /\ data' = Append(data, Head(todo))
                  /\ todo' = Tail(todo)
                  /\ drive' = IF todo' = << >> THEN "ready" ELSE "busy"
             ELSE data' = Append(data, Garbage) /\ UNCHANGED <<todo, drive>>
          /\ pc' = NextSector
          /\ result' = IF pc' = "idle" THEN "Ok" ELSE result
          /\ spins' = 0
          /\ UNCHANGED <<lba, count>>
  /\ UNCHANGED <<image_vars, present, fs_vars, call, entry>>
-----------------------------------------------------------------------------
\* ata::read_lba, up to the start of read_pio.
read_lba(address, sectors) ==
  /\ lba' = address /\ count' = sectors /\ data' = << >> /\ spins' = 0
  /\ IF address >= LBA_LIMIT THEN pc' = "idle" /\ result' = "BadArgument"
     ELSE IF ~present THEN pc' = "idle" /\ result' = "NotPresent"
     ELSE pc' = "wait_bsy" /\ UNCHANGED result

Idle(from) == pc = "idle" /\ call = from

\* fs::init, after ata::init.
mount ==
  /\ Idle("probe")
  /\ call' = "superblock"
  /\ read_lba(FS_BASE_LBA, 1)
  /\ UNCHANGED <<drive_vars, present, fs_vars, entry>>

Superblock == result = "Ok" /\ image.superblock /\ Len(image.entries) <= MAX_FILES

MountFailed(why) == result' = IF result = "Ok" THEN why ELSE result

\* Mutant: the mount counts as done once the superblock is good.
mount_superblock_early ==
  /\ Idle("superblock")
  /\ IF Superblock
     THEN call' = "directory" /\ read_lba(FS_BASE_LBA + 1, 1) /\ MOUNTED' = TRUE
     ELSE call' = "none" /\ UNCHANGED <<pc, io_vars, MOUNTED>> /\ MountFailed("BadSuperblock")
  /\ UNCHANGED <<drive_vars, present, files, entry>>

mount_superblock ==
  /\ Idle("superblock")
  /\ IF Superblock
     THEN call' = "directory" /\ read_lba(FS_BASE_LBA + 1, 1)
     ELSE call' = "none" /\ UNCHANGED <<pc, io_vars>> /\ MountFailed("BadSuperblock")
  /\ UNCHANGED <<drive_vars, present, fs_vars, entry>>

Printable(name) == name # " "

ValidEntry(e) == e.name # "" /\ Printable(e.name) /\ e.size <= MAX_FILE_SIZE /\ e.lba_off >= 2

\* The loop over the directory: n entries are good, and it stops at a bad one.
mount_directory ==
  /\ Idle("directory")
  /\ call' = "none"
  /\ IF result = "Ok"
     THEN \E n \in 0 .. Len(image.entries) :
            /\ \A i \in 1 .. n : ValidEntry(image.entries[i])
            /\ n < Len(image.entries) => ~ValidEntry(image.entries[n + 1])
            /\ files' = SubSeq(image.entries, 1, n)
            /\ MOUNTED' = (n = Len(image.entries))
            /\ result' = IF MOUNTED' THEN "Ok" ELSE "BadDirectory"
     ELSE UNCHANGED <<fs_vars, result>>
  /\ UNCHANGED <<drive_vars, present, pc, io_vars, entry>>

\* The file a name finds: the first entry that has it.
Found(name) == {i \in 1 .. Len(files) : files[i].name = name}

read_file(name) ==
  /\ pc = "idle" /\ call \in {"none", "file"}
  /\ call' = "file"
  /\ IF ~MOUNTED \/ Found(name) = {}
     THEN /\ result' = IF ~MOUNTED THEN "NotMounted" ELSE "NotFound"
          /\ entry' = NoEntry
          /\ UNCHANGED <<pc, io_vars>>
     ELSE \E i \in Found(name) :
            /\ \A j \in Found(name) : i <= j
            /\ entry' = files[i]
            /\ IF files[i].size = 0
               THEN result' = "Ok" /\ data' = << >> /\ UNCHANGED <<pc, spins, lba, count>>
               ELSE IF FS_BASE_LBA + files[i].lba_off > U32_MAX   \* overflow checks are on
               THEN pc' = "panicked" /\ UNCHANGED <<result, io_vars>>
               ELSE read_lba(FS_BASE_LBA + files[i].lba_off, Sectors(files[i].size))
  /\ UNCHANGED <<drive_vars, present, fs_vars>>

Kernel == poll_bsy \/ poll_drq \/ transfer \/ mount \/ mount_superblock \/ mount_directory

Drive == drive_answers \/ drive_fails
-----------------------------------------------------------------------------
\* What sectors at these addresses hold, where the image says it.
Contents(addresses) ==
  [i \in 1 .. Len(addresses) |->
     LET k == addresses[i] - FS_BASE_LBA - 1
     IN  IF k \in 1 .. Len(image.data) THEN image.data[k] ELSE <<"", 0>>]

(***************************************************************************)
(* A read that succeeds returns the file's own sectors, in order and all   *)
(* of them, whatever earlier reads timed out or failed half-way; and from  *)
(* an image that build-goatfs.py packed it returns the text of the first   *)
(* file that was given that name.                                          *)
(***************************************************************************)
ReadsAreExact ==
  pc = "idle" /\ call = "file" /\ result = "Ok" =>
    /\ data = [i \in 1 .. Sectors(entry.size) |-> FS_BASE_LBA + entry.lba_off + i - 1]
    /\ packed =>
         \E i \in 1 .. Len(FILES) :
           /\ FILES[i].name = entry.name /\ \A j \in 1 .. i - 1 : FILES[j].name # entry.name
           /\ Contents(data) = blob(FILES[i].text, FILES[i].size)

(***************************************************************************)
(* The mount is all or nothing: a directory found bad half-way, or a drive *)
(* that fails under it, never leaves some of its files readable.  And it   *)
(* finds nothing wrong with what build-goatfs.py packs, up to names that   *)
(* the script takes and the kernel does not.                               *)
(***************************************************************************)
MountIsAllOrNothing ==
  /\ MOUNTED => /\ image.superblock /\ files = image.entries /\ Len(files) <= MAX_FILES
                /\ \A i \in 1 .. Len(files) : ValidEntry(files[i])
  /\ packed /\ (\A i \in 1 .. Len(FILES) : Printable(FILES[i].name)) =>
       result \notin {"BadSuperblock", "BadDirectory"}
=============================================================================
