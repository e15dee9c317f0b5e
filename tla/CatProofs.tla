----------------------------- MODULE CatProofs ------------------------------
(***************************************************************************)
(* The file system and the serial port, for every image, drive and UART: a *)
(* mount is all or nothing, a read returns the file, what is printed goes  *)
(* out in order, and neither device can keep the kernel busy for good.     *)
(***************************************************************************)
EXTENDS Cat, WellFoundedInduction, TLAPS

\* The provers have half a minute for each leaf that names none itself.
USE SMTT(30), ZenonT(30)

-----------------------------------------------------------------------------
(***************************************************************************)
(* The image.                                                              *)
(***************************************************************************)

\* The sectors of a file: none for an empty one only.
LEMMA SectorCount ==
  ASSUME NEW size \in Nat
  PROVE  /\ Sectors(size) \in Nat
         /\ size = 0 => Sectors(size) = 0
         /\ size # 0 => Sectors(size) >= 1
<1> PICK d \in Nat : d = SECTOR_SIZE /\ d > 0
  BY GoatfsAssumption
<1> PICK n \in Nat : n = size + d - 1
  OBVIOUS
<1>1. Sectors(size) = n \div d
  BY DEF Sectors
<1>2. n \div d \in Nat /\ n % d \in Nat /\ n % d < d /\ n = (n \div d) * d + (n % d)
  OBVIOUS
<1> PICK q \in Nat, r \in Nat : q = n \div d /\ r = n % d
  BY <1>2
<1>3. n = q * d + r /\ r < d
  BY <1>2
<1>4. q >= 1 => q * d >= d
  OBVIOUS
<1>5. size = 0 => q = 0
  BY <1>3, <1>4
<1>6. size # 0 => q # 0
  BY <1>3
<1> QED
  BY <1>1, <1>5, <1>6

\* An entry is that of its file, and the file's blob is where the entry says,
\* before a limit.
Placed(e, file, sectors, limit) ==
  /\ e.name = file.name /\ e.size = file.size
  /\ e.lba_off >= 2 /\ e.lba_off + Sectors(e.size) <= limit
  /\ \A k \in 1 .. Sectors(e.size) : sectors[e.lba_off - 2 + k] = <<file.text, k>>

\* Each entry packed so far is Placed, and data_lba is the first sector behind them.
PackInv ==
  /\ image \in ImageType /\ packed \in BOOLEAN /\ FILES \in Seq(TextFiles)
  /\ packed =>
       /\ accepts(FILES) /\ image.superblock
       /\ Len(image.entries) <= Len(FILES)
       /\ data_lba = 2 + Len(image.data)
       /\ \A i \in 1 .. Len(image.entries) :
            Placed(image.entries[i], FILES[i], image.data, data_lba)

\* pack's first step, or an image that is none of the script's.
LEMMA PackStart ==
  ASSUME PackInit
  PROVE  PackInv
<1>1. CASE packed = TRUE /\ FILES \in Packable
           /\ image = [superblock |-> TRUE, entries |-> << >>, data |-> << >>]
  <2>1. accepts(FILES) /\ FILES \in Seq(TextFiles) /\ Len(FILES) \in Nat
    BY <1>1, GoatfsAssumption DEF Packable
  <2>2. image \in ImageType /\ Len(image.entries) = 0 /\ Len(image.data) = 0 /\ image.superblock
    BY <1>1 DEF ImageType
  <2> QED
    BY <1>1, <2>1, <2>2 DEF PackInv, PackInit
<1>2. CASE packed = FALSE /\ FILES = << >> /\ image \in Images
  <2>1. image \in ImageType
    BY <1>2, GoatfsAssumption
  <2>2. packed \in BOOLEAN /\ ~packed
    BY <1>2, ZenonT(30)
  <2>3. FILES \in Seq(TextFiles)
    BY <1>2
  <2> QED
    BY <2>1, <2>2, <2>3, ZenonT(30) DEF PackInv
<1> QED
  BY <1>1, <1>2, ZenonT(30) DEF PackInit

\* A file stays placed when more sectors follow.
LEMMA PlacedKept ==
  ASSUME NEW e \in DirEntries, NEW file, NEW m \in Nat, NEW b \in Nat,
         NEW old, NEW joined, \A k \in 1 .. m : joined[k] = old[k],
         Placed(e, file, old, 2 + m)
  PROVE  Placed(e, file, joined, 2 + m + b)
<1> PICK s \in Nat, a \in Nat : s = Sectors(e.size) /\ a = e.lba_off
  BY SectorCount DEF DirEntries
<1>1. /\ e.name = file.name /\ e.size = file.size /\ a >= 2 /\ a + s <= 2 + m
      /\ \A k \in 1 .. s : old[a - 2 + k] = <<file.text, k>>
  BY DEF Placed
<1>2. ASSUME NEW k \in 1 .. s PROVE joined[a - 2 + k] = <<file.text, k>>
  <2>1. k \in Nat /\ k >= 1 /\ k <= s
    OBVIOUS
  <2>2. a - 2 + k \in 1 .. m
    BY <1>1, <2>1
  <2> QED
    BY <1>1, <2>2, ZenonT(30)
<1>3. a + s <= 2 + m + b
  BY <1>1
<1> QED
  BY <1>1, <1>2, <1>3 DEF Placed

\* A turn of pack's loop.
LEMMA PackStep ==
  ASSUME PackInv, pack_file
  PROVE  PackInv'
<1>1. /\ packed /\ packed' = packed /\ FILES' = FILES
      /\ image.entries \in Seq(DirEntries) /\ image.data \in Seq(STRING \X Nat)
      /\ image.superblock \in BOOLEAN /\ FILES \in Seq(TextFiles)
  BY DEF pack_file, Packing, PackInv, ImageType
<1> PICK n \in Nat, m \in Nat : n = Len(image.entries) /\ m = Len(image.data)
  BY <1>1
<1>2. n + 1 \in 1 .. Len(FILES) /\ data_lba = 2 + m
  BY <1>1 DEF pack_file, Packing, PackInv
<1> PICK f \in TextFiles : f = FILES[n + 1]
  BY <1>1, <1>2
<1> PICK b \in Nat : b = Sectors(f.size)
  BY SectorCount DEF TextFiles
<1> DEFINE e == [name |-> f.name, size |-> f.size, lba_off |-> data_lba]
           entries == Append(image.entries, e)
           bytes == blob(f.text, f.size)
           sectors == image.data \o bytes
<1>3. e \in DirEntries /\ e.name = f.name /\ e.size = f.size /\ e.lba_off = 2 + m
  BY <1>2 DEF DirEntries, TextFiles
<1>4. /\ image' = [image EXCEPT !.entries = entries, !.data = sectors]
      /\ data_lba' = 2 + m + b
  BY <1>2 DEF pack_file
<1>5. /\ bytes \in Seq(STRING \X Nat) /\ Len(bytes) = b
      /\ \A k \in 1 .. b : bytes[k] = <<f.text, k>>
  <2>1. f.text \in STRING
    BY DEF TextFiles
  <2>2. bytes = [k \in 1 .. b |-> <<f.text, k>>]
    BY DEF blob
  <2>3. \A k \in 1 .. b : <<f.text, k>> \in STRING \X Nat
    BY <2>1
  <2> QED BY <2>2, <2>3
<1> HIDE DEF e, bytes
<1>6. /\ entries \in Seq(DirEntries) /\ Len(entries) = n + 1 /\ entries[n + 1] = e
      /\ \A i \in 1 .. n : entries[i] = image.entries[i]
  BY <1>1, <1>3
<1>7. /\ sectors \in Seq(STRING \X Nat) /\ Len(sectors) = m + b
      /\ \A k \in 1 .. m : sectors[k] = image.data[k]
      /\ \A k \in 1 .. b : sectors[m + k] = bytes[k]
  <2> PICK d \in Seq(STRING \X Nat), w \in Seq(STRING \X Nat) : d = image.data /\ w = bytes
    BY <1>1, <1>5
  <2>1. d \o w \in Seq(STRING \X Nat) /\ Len(d \o w) = m + b
    BY <1>5
  <2>2. \A k \in 1 .. m : (d \o w)[k] = d[k]
    BY <1>5
  <2>3. \A k \in 1 .. b : (d \o w)[m + k] = w[k]
    BY <1>5
  <2> QED
    BY <2>1, <2>2, <2>3, ZenonT(30)
<1> HIDE DEF entries, sectors
<1>8. /\ image'.entries = entries /\ image'.data = sectors
      /\ image'.superblock = image.superblock /\ image' \in ImageType
  BY <1>1, <1>4, <1>6, <1>7, ZenonT(30) DEF PackInv, ImageType
<1>9. ASSUME NEW i \in 1 .. n
      PROVE  Placed(entries[i], FILES[i], sectors, 2 + m + b)
  <2>1. Placed(image.entries[i], FILES[i], image.data, 2 + m)
    BY <1>1, <1>2 DEF PackInv
  <2>2. image.entries[i] \in DirEntries
    BY <1>1
  <2>3. Placed(image.entries[i], FILES[i], sectors, 2 + m + b)
    BY <1>7, <2>1, <2>2, PlacedKept, ZenonT(30)
  <2> QED
    BY <1>6, <2>3
<1>10. Placed(e, FILES[n + 1], sectors, 2 + m + b)
  <2>1. \A k \in 1 .. b : sectors[2 + m - 2 + k] = <<f.text, k>>
    <3> SUFFICES ASSUME NEW k \in 1 .. b PROVE sectors[2 + m - 2 + k] = <<f.text, k>>
      BY ZenonT(30)
    <3>1. 2 + m - 2 + k = m + k
      OBVIOUS
    <3> QED
      BY <1>5, <1>7, <3>1, ZenonT(30)
  <2> QED
    BY <1>3, <2>1 DEF Placed
<1>11. \A i \in 1 .. n + 1 : Placed(entries[i], FILES[i], sectors, 2 + m + b)
  <2> SUFFICES ASSUME NEW i \in 1 .. n + 1 PROVE Placed(entries[i], FILES[i], sectors, 2 + m + b)
    OBVIOUS
  <2>1. CASE i \in 1 .. n
    BY <1>9, <2>1
  <2>2. CASE i = n + 1
    BY <1>6, <1>10, <2>2
  <2> QED
    BY <2>1, <2>2
<1>12. accepts(FILES)' /\ image'.superblock
  BY <1>1, <1>8, ZenonT(30) DEF PackInv, accepts
<1>13. data_lba' = 2 + Len(image'.data)
  <2>1. 2 + m + b = 2 + Len(sectors)
    BY <1>7
  <2> QED
    BY <1>4, <1>8, <2>1
<1>14. Len(image'.entries) <= Len(FILES)
  BY <1>2, <1>6, <1>8
<1>15. \A i \in 1 .. Len(image'.entries) : Placed(image'.entries[i], FILES'[i], image'.data, data_lba')
  BY <1>1, <1>4, <1>6, <1>8, <1>11
<1> QED
  BY <1>1, <1>8, <1>12, <1>13, <1>14, <1>15 DEF PackInv
-----------------------------------------------------------------------------
(***************************************************************************)
(* The driver and the file system.                                         *)
(***************************************************************************)

Busy == pc \in {"wait_bsy", "wait_drq", "transfer"}

\* Sectors in order, from an address on.
From(s, first) == \A i \in 1 .. Len(s) : s[i] = first + i - 1

EntryType == DirEntries \cup {NoEntry}

IoType ==
  /\ drive \in {"absent", "busy", "ready", "drq", "err"} /\ todo \in Seq(Int)
  /\ present \in BOOLEAN /\ MOUNTED \in BOOLEAN /\ files \in Seq(DirEntries)
  /\ call \in {"probe", "superblock", "directory", "file", "none"}
  /\ Busy \/ pc \in {"idle", "panicked"}
  /\ lba \in Nat /\ count \in Nat /\ data \in Seq(Int) /\ entry \in EntryType

\* Until the image is there nothing runs.
BuildInv == command = "build" => call = "probe" /\ pc = "wait_bsy" /\ serial_pc = "init"

\* What the driver has and what the drive will deliver make up the command.
TransferInv ==
  /\ pc = "wait_bsy" => data = << >> /\ (call = "probe" \/ count >= 1)
  /\ pc \in {"wait_drq", "transfer"} =>
       /\ call # "probe"
       /\ Len(data) < count /\ From(data, lba)
       /\ Len(todo) = count - Len(data) /\ From(todo, lba + Len(data))
  /\ pc = "transfer" => drive \in {"drq", "err", "absent"}

\* The file being read, or that was read.
First(e) ==
  \E i \in 1 .. Len(files) : e = files[i] /\ \A j \in 1 .. i - 1 : files[j].name # e.name

FileInv ==
  call = "file" =>
    /\ Busy => lba = FS_BASE_LBA + entry.lba_off /\ count = Sectors(entry.size)
    /\ pc = "idle" /\ result = "Ok" =>
         Len(data) = Sectors(entry.size) /\ From(data, FS_BASE_LBA + entry.lba_off)
    /\ Busy \/ (pc = "idle" /\ result = "Ok") => MOUNTED /\ First(entry)

MountInv ==
  /\ call = "directory" => image.superblock /\ Len(image.entries) <= MAX_FILES
  /\ call \in {"probe", "superblock", "directory"} => ~MOUNTED
  /\ MountIsAllOrNothing

DiskInv == PackInv /\ IoType /\ BuildInv /\ TransferInv /\ FileInv /\ MountInv

\* The drive moves, or the driver, or a read of a file starts; or they rest.
DiskMoves == Kernel \/ Drive \/ (\E name : read_file(name)) \/ UNCHANGED device_vars

\* Every step is the script's, or leaves the image alone and is one of those.
LEMMA CatMoves ==
  ASSUME BuildInv, [CatNext]_cat_vars
  PROVE  \/ build /\ Packing
         \/ DiskMoves /\ UNCHANGED image_vars /\ (call = "probe" \/ command # "build")
<1>1. CASE UNCHANGED cat_vars
  BY <1>1 DEF cat_vars, disk_vars, drive_vars, DiskMoves, device_vars, BuildInv
<1>2. CASE build
  BY <1>2 DEF build, DiskMoves, BuildInv, device_vars
<1>3. ASSUME UNCHANGED disk_vars PROVE DiskMoves /\ UNCHANGED image_vars
  BY <1>3 DEF disk_vars, drive_vars, DiskMoves, device_vars
<1>4. CASE serial_init \/ echo \/ cat_prints \/ SerialStep \/ cat_returns
  BY <1>3, <1>4 DEF serial_init, echo, cat_prints, SerialStep, cat_returns, BuildInv
<1>5. ASSUME NEW name, read_file(name) PROVE DiskMoves /\ UNCHANGED image_vars
  BY <1>5 DEF read_file, DiskMoves, drive_vars
<1>6. CASE self_test \/ self_tested \/ \E name \in Names : cmd_cat(name)
  BY <1>3, <1>5, <1>6 DEF self_test, self_tested, cmd_cat, BuildInv
<1>7. CASE DiskStep
  <2>1. UNCHANGED image_vars
    BY <1>7 DEF DiskStep, Kernel, poll_bsy, poll_drq, transfer, mount, mount_superblock,
                mount_directory, drive_vars
  <2> QED
    BY <1>7, <2>1 DEF DiskStep, DiskMoves, BuildInv
<1>8. CASE DriveStep
  BY <1>8 DEF DriveStep, Drive, drive_answers, drive_fails, DiskMoves
<1>9. CASE Panicked
  BY <1>1, <1>9 DEF Panicked
<1> QED
  BY <1>1, <1>2, <1>4, <1>6, <1>7, <1>8, <1>9 DEF CatNext, Running, BootStep

\* The kernel's start.
LEMMA DiskStart ==
  ASSUME CatInit
  PROVE  DiskInv
<1>1. PackInv
  BY PackStart DEF CatInit, DiskInit
<1>2. IoType
  <2>1. NoEntry \in EntryType
    BY ZenonT(30) DEF EntryType
  <2>2. << >> \in Seq(Int) /\ << >> \in Seq(DirEntries)
    OBVIOUS
  <2> QED
    BY <2>1, <2>2, ZenonT(30) DEF CatInit, DiskInit, IoType, Busy
<1>3. BuildInv
  BY DEF CatInit, DiskInit, BuildInv, S!Init
<1>4. TransferInv
  BY DEF CatInit, DiskInit, TransferInv
<1>5. FileInv
  BY DEF CatInit, DiskInit, FileInv
<1>6. MountInv
  BY DEF CatInit, DiskInit, MountInv, MountIsAllOrNothing
<1> QED
  BY <1>1, <1>2, <1>3, <1>4, <1>5, <1>6 DEF DiskInv

\* Once switched on, the machine does not go back to the script.
LEMMA BuildStep ==
  ASSUME BuildInv, [CatNext]_cat_vars
  PROVE  BuildInv'
<1>1. CASE UNCHANGED cat_vars
  BY <1>1 DEF cat_vars, disk_vars, serial_vars, BuildInv
<1>2. CASE build
  BY <1>2 DEF build, device_vars, serial_vars, BuildInv
<1>3. ASSUME command # "build", command' = command PROVE BuildInv'
  BY <1>3 DEF BuildInv
<1>4. CASE DiskStep \/ DriveStep \/ SerialStep \/ serial_init
  BY <1>3, <1>4 DEF DiskStep, DriveStep, SerialStep, serial_init, BuildInv, S!Sending, S!next_piece, S!send
<1>5. CASE self_test \/ self_tested \/ echo \/ cat_prints \/ cat_returns \/ \E name \in Names : cmd_cat(name)
  BY <1>5 DEF self_test, self_tested, echo, cat_prints, cat_returns, cmd_cat, BuildInv
<1>6. CASE Panicked
  BY <1>1, <1>6 DEF Panicked
<1> QED
  BY <1>1, <1>2, <1>4, <1>5, <1>6 DEF CatNext, Running, BootStep

\* The sector a transfer appends is the next of the command.
LEMMA TransferOutcome ==
  ASSUME IoType, TransferInv, transfer
  PROVE  /\ pc = "transfer" /\ UNCHANGED <<present, fs_vars, call, entry, lba, count>>
         /\ \/ /\ pc' = "idle" /\ result' = "DriveError" /\ UNCHANGED <<drive, todo, data>>
            \/ /\ data' \in Seq(Int) /\ Len(data') = Len(data) + 1 /\ From(data', lba)
               /\ todo' \in Seq(Int) /\ Len(todo') = Len(todo) - 1
               /\ From(todo', lba + (Len(data) + 1))
               /\ drive' \in {"ready", "busy"}
               /\ \/ Len(data') = count /\ pc' = "idle" /\ result' = "Ok"
                  \/ Len(data') # count /\ pc' = "wait_drq" /\ result' = result
<1>1. pc = "transfer" /\ UNCHANGED <<present, fs_vars, call, entry>>
  BY DEF transfer
<1>2. CASE drive \in {"absent", "err"}
  BY <1>1, <1>2 DEF transfer, Return
<1>3. CASE drive \notin {"absent", "err"}
  <2>1. drive = "drq"
    BY <1>1, <1>3 DEF TransferInv
  <2>2. /\ data' = Append(data, Head(todo)) /\ todo' = Tail(todo)
        /\ drive' = IF todo' = << >> THEN "ready" ELSE "busy"
        /\ pc' = IF Len(data') = count THEN "idle" ELSE "wait_drq"
        /\ result' = IF pc' = "idle" THEN "Ok" ELSE result
        /\ UNCHANGED <<lba, count>>
    BY <1>3, <2>1 DEF transfer, NextSector
  <2>3. data \in Seq(Int) /\ todo \in Seq(Int) /\ lba \in Nat /\ count \in Nat
    BY DEF IoType
  <2> PICK n \in Nat, m \in Nat : n = Len(data) /\ m = Len(todo)
    BY <2>3
  <2>4. n < count /\ m = count - n /\ From(data, lba) /\ From(todo, lba + n)
    BY <1>1 DEF TransferInv
  <2>5. m > 0
    BY <2>3, <2>4
  <2>6. Head(todo) = lba + n
    BY <2>3, <2>4, <2>5 DEF From
  <2>7. data' \in Seq(Int) /\ Len(data') = n + 1 /\ data'[n + 1] = lba + n
        /\ \A i \in 1 .. n : data'[i] = data[i]
    BY <2>2, <2>3, <2>6
  <2>8. From(data', lba)
    <3> SUFFICES ASSUME NEW i \in 1 .. n + 1 PROVE data'[i] = lba + i - 1
      BY <2>7 DEF From
    <3>1. CASE i \in 1 .. n
      BY <2>4, <2>7, <3>1 DEF From
    <3>2. CASE i = n + 1
      BY <2>3, <2>7, <3>2
    <3> QED
      BY <3>1, <3>2
  <2>9. /\ todo' \in Seq(Int) /\ Len(todo') = m - 1
        /\ \A i \in 1 .. m - 1 : todo'[i] = todo[i + 1]
    BY <2>2, <2>3, <2>5
  <2>10. From(todo', lba + (n + 1))
    <3> SUFFICES ASSUME NEW i \in 1 .. m - 1 PROVE todo'[i] = lba + (n + 1) + i - 1
      BY <2>9 DEF From
    <3>1. todo'[i] = todo[i + 1] /\ i + 1 \in 1 .. m
      BY <2>9
    <3>2. todo[i + 1] = lba + n + (i + 1) - 1
      BY <2>4, <3>1 DEF From
    <3> QED
      BY <2>3, <3>1, <3>2
  <2>11. drive' \in {"ready", "busy"}
    BY <2>2
  <2>12. \/ Len(data') = count /\ pc' = "idle" /\ result' = "Ok"
         \/ Len(data') # count /\ pc' = "wait_drq" /\ result' = result
    BY <2>2
  <2>13. UNCHANGED <<lba, count>>
    BY <2>2
  <2> QED
    BY <1>1, <2>7, <2>8, <2>9, <2>10, <2>11, <2>12, <2>13
<1> QED
  BY <1>2, <1>3

\* The waits: a return, another poll, or the next part of the driver.
LEMMA PollOutcome ==
  ASSUME IoType, TransferInv, poll_bsy \/ poll_drq
  PROVE  /\ pc \in {"wait_bsy", "wait_drq"} /\ UNCHANGED <<fs_vars, call, entry, lba, count, data>>
         /\ present' \in BOOLEAN
         /\ \/ pc' = "idle" /\ result' = "Timeout" /\ UNCHANGED <<drive, todo>>
            \/ pc' = pc /\ result' = result /\ UNCHANGED <<drive, todo>>
            \/ pc = "wait_bsy" /\ call = "probe" /\ pc' = "idle" /\ result' = "Ok" /\ UNCHANGED <<drive, todo>>
            \/ /\ pc = "wait_bsy" /\ call # "probe" /\ pc' = "wait_drq" /\ result' = result
               /\ todo' \in Seq(Int) /\ Len(todo') = count /\ From(todo', lba) /\ drive' = "busy"
            \/ /\ pc = "wait_drq" /\ pc' = "transfer" /\ result' = result
               /\ drive = "drq" /\ UNCHANGED <<drive, todo>>
<1>1. CASE poll_drq
  <2>1. pc = "wait_drq" /\ UNCHANGED <<drive, todo, present, fs_vars, call, entry>>
    BY <1>1 DEF poll_drq, drive_vars
  <2>2. CASE drive \in {"absent", "err"} /\ Return("Timeout")
    BY <2>1, <2>2 DEF Return, IoType
  <2>3. CASE Spin("Timeout")
    BY <2>1, <2>3 DEF Spin, Return, IoType
  <2>4. CASE drive = "drq" /\ pc' = "transfer" /\ UNCHANGED <<result, io_vars>>
    BY <2>1, <2>4 DEF io_vars, IoType
  <2> QED
    BY <1>1, <2>2, <2>3, <2>4 DEF poll_drq
<1>2. CASE poll_bsy
  <2>1. pc = "wait_bsy" /\ UNCHANGED <<fs_vars, call, entry>>
    BY <1>2 DEF poll_bsy
  <2>2. CASE drive = "absent" /\ Return("Timeout") /\ UNCHANGED <<drive, todo, present>>
    BY <2>1, <2>2 DEF Return, IoType
  <2>3. CASE drive = "busy" /\ Spin("Timeout") /\ UNCHANGED <<drive, todo, present>>
    BY <2>1, <2>3 DEF Spin, Return, IoType
  <2>4. CASE call = "probe" /\ Return("Ok") /\ present' = TRUE /\ UNCHANGED <<drive, todo>>
    BY <2>1, <2>4 DEF Return
  <2>5. CASE /\ call # "probe" /\ drive' = "busy" /\ todo' = [i \in 1 .. count |-> lba + i - 1]
             /\ pc' = "wait_drq" /\ spins' = 0
             /\ UNCHANGED <<present, result, lba, count, data>>
    <3>1. lba \in Nat /\ count \in Nat
      BY DEF IoType
    <3>2. \A i \in 1 .. count : lba + i - 1 \in Int
      BY <3>1
    <3>3. todo' \in Seq(Int) /\ Len(todo') = count /\ \A i \in 1 .. count : todo'[i] = lba + i - 1
      BY <2>5, <3>1, <3>2
    <3>4. From(todo', lba)
      BY <3>3 DEF From
    <3> QED
      BY <2>1, <2>5, <3>3, <3>4 DEF IoType
  <2> QED
    BY <1>2, <2>2, <2>3, <2>4, <2>5 DEF poll_bsy
<1> QED
  BY <1>1, <1>2

\* A read starts with nothing read yet, or is refused.
LEMMA ReadOutcome ==
  ASSUME NEW address \in Nat, NEW sectors \in Nat, read_lba(address, sectors)
  PROVE  /\ lba' = address /\ count' = sectors /\ data' = << >>
         /\ \/ pc' = "idle" /\ result' \in {"BadArgument", "NotPresent"}
            \/ pc' = "wait_bsy" /\ result' = result
BY DEF read_lba

\* read_file: refused, a panic, an empty file, or the first file of that name
\* is being read.
LEMMA FileOutcome ==
  ASSUME IoType, NEW name, read_file(name)
  PROVE  /\ pc = "idle" /\ call' = "file" /\ UNCHANGED <<drive, todo, present, fs_vars>>
         /\ call \in {"none", "file"}
         /\ entry' \in EntryType /\ lba' \in Nat /\ count' \in Nat /\ data' \in Seq(Int)
         /\ \/ pc' = "idle" /\ result' \in {"NotMounted", "NotFound", "BadArgument", "NotPresent"}
            \/ pc' = "panicked" /\ result' = result
            \/ /\ pc' = "idle" /\ result' = "Ok" /\ MOUNTED /\ First(entry')
               /\ Sectors(entry'.size) = 0 /\ data' = << >>
            \/ /\ pc' = "wait_bsy" /\ result' = result /\ MOUNTED /\ First(entry') /\ data' = << >>
               /\ lba' = FS_BASE_LBA + entry'.lba_off /\ count' = Sectors(entry'.size) /\ count' >= 1
<1>1. /\ pc = "idle" /\ call' = "file" /\ UNCHANGED <<drive, todo, present, fs_vars>>
      /\ call \in {"none", "file"}
  BY DEF read_file, drive_vars
<1>2. lba \in Nat /\ count \in Nat /\ data \in Seq(Int) /\ files \in Seq(DirEntries)
  BY DEF IoType
<1>3. CASE ~MOUNTED \/ Found(name) = {}
  <2>1. entry' = NoEntry /\ UNCHANGED <<pc, io_vars>> /\ result' \in {"NotMounted", "NotFound"}
    BY <1>3 DEF read_file
  <2>2. NoEntry \in EntryType
    BY ZenonT(30) DEF EntryType
  <2> QED
    BY <1>1, <1>2, <2>1, <2>2 DEF io_vars
<1>4. CASE MOUNTED /\ Found(name) # {}
  <2>1. PICK i \in Found(name) :
          /\ \A j \in Found(name) : i <= j
          /\ entry' = files[i]
          /\ IF files[i].size = 0
             THEN result' = "Ok" /\ data' = << >> /\ UNCHANGED <<pc, spins, lba, count>>
             ELSE IF FS_BASE_LBA + files[i].lba_off > U32_MAX
             THEN pc' = "panicked" /\ UNCHANGED <<result, io_vars>>
             ELSE read_lba(FS_BASE_LBA + files[i].lba_off, Sectors(files[i].size))
    BY <1>4 DEF read_file
  <2>2. i \in 1 .. Len(files) /\ files[i].name = name
    BY DEF Found
  <2>3. entry' \in DirEntries /\ entry'.name = name
    BY <1>2, <2>1, <2>2
  <2>10. entry' \in EntryType
    BY <2>3, ZenonT(30) DEF EntryType
  <2>4. First(entry')
    <3>1. ASSUME NEW j \in 1 .. i - 1 PROVE files[j].name # entry'.name
      <4>1. j \in 1 .. Len(files) /\ ~(i <= j)
        BY <1>2, <2>2
      <4>2. j \notin Found(name)
        BY <2>1, <4>1
      <4> QED
        BY <2>3, <4>1, <4>2 DEF Found
    <3> QED
      BY <2>1, <2>2, <3>1 DEF First
  <2> PICK e \in DirEntries : e = entry'
    BY <2>3
  <2>5. e.size \in Nat /\ e.lba_off \in Nat
    BY DEF DirEntries
  <2>6. /\ Sectors(e.size) \in Nat /\ (e.size = 0 => Sectors(e.size) = 0)
        /\ (e.size # 0 => Sectors(e.size) >= 1)
    BY <2>5, SectorCount
  <2>7. CASE e.size = 0
    BY <1>1, <1>2, <1>4, <2>1, <2>4, <2>6, <2>7, <2>10
  <2>8. CASE e.size # 0 /\ FS_BASE_LBA + e.lba_off > U32_MAX
    BY <1>1, <1>2, <2>1, <2>8, <2>10 DEF io_vars
  <2>9. CASE e.size # 0 /\ ~(FS_BASE_LBA + e.lba_off > U32_MAX)
    <3>1. read_lba(FS_BASE_LBA + e.lba_off, Sectors(e.size))
      BY <2>1, <2>9
    <3>2. FS_BASE_LBA + e.lba_off \in Nat
      BY <2>5, DiskAssumption
    <3>3. /\ lba' = FS_BASE_LBA + e.lba_off /\ count' = Sectors(e.size) /\ data' = << >>
          /\ \/ pc' = "idle" /\ result' \in {"BadArgument", "NotPresent"}
             \/ pc' = "wait_bsy" /\ result' = result
      BY <2>6, <3>1, <3>2, ReadOutcome
    <3>4. lba' \in Nat /\ count' \in Nat /\ data' \in Seq(Int) /\ count' >= 1
      BY <2>6, <2>9, <3>2, <3>3
    <3> QED
      BY <1>1, <1>4, <2>4, <2>10, <3>3, <3>4
  <2> QED
    BY <2>7, <2>8, <2>9
<1> QED
  BY <1>3, <1>4

\* The mount's steps start a read of one sector, or end the mount.
LEMMA MountOutcome ==
  ASSUME IoType, image \in ImageType, mount \/ mount_superblock \/ mount_directory
  PROVE  /\ pc = "idle" /\ call' \in {"superblock", "directory", "none"}
         /\ UNCHANGED <<drive, todo, present, entry>>
         /\ MOUNTED' \in BOOLEAN /\ files' \in Seq(DirEntries)
         /\ lba' \in Nat /\ count' \in Nat /\ data' \in Seq(Int)
         /\ \/ pc' = "idle"
            \/ pc' = "wait_bsy" /\ data' = << >> /\ count' = 1
<1>1. lba \in Nat /\ count \in Nat /\ data \in Seq(Int) /\ files \in Seq(DirEntries) /\ MOUNTED \in BOOLEAN
  BY DEF IoType
<1>2. ASSUME NEW address \in Nat, read_lba(address, 1)
      PROVE  /\ lba' \in Nat /\ count' \in Nat /\ data' \in Seq(Int)
             /\ pc' = "idle" \/ (pc' = "wait_bsy" /\ data' = << >> /\ count' = 1)
  <2>1. 1 \in Nat
    OBVIOUS
  <2>2. /\ lba' = address /\ count' = 1 /\ data' = << >>
        /\ pc' = "idle" \/ pc' = "wait_bsy"
    BY <1>2, <2>1, ReadOutcome, ZenonT(30)
  <2> QED
    BY <2>2
<1>3. CASE mount
  <2>1. FS_BASE_LBA \in Nat
    BY DiskAssumption
  <2> QED
    BY <1>1, <1>2, <1>3, <2>1 DEF mount, Idle, drive_vars, fs_vars
<1>4. CASE mount_superblock
  <2>1. FS_BASE_LBA + 1 \in Nat
    BY DiskAssumption
  <2>2. pc = "idle" /\ UNCHANGED <<drive, todo, present, entry, MOUNTED, files>>
    BY <1>4 DEF mount_superblock, Idle, drive_vars, fs_vars
  <2>3. CASE call' = "directory" /\ read_lba(FS_BASE_LBA + 1, 1)
    BY <1>1, <1>2, <2>1, <2>2, <2>3
  <2>4. CASE call' = "none" /\ UNCHANGED <<pc, io_vars>>
    BY <1>1, <2>2, <2>4 DEF io_vars
  <2> QED
    BY <1>4, <2>3, <2>4 DEF mount_superblock
<1>5. CASE mount_directory
  <2>1. pc = "idle" /\ call' = "none" /\ UNCHANGED <<drive, todo, present, entry, pc, io_vars>>
    BY <1>5 DEF mount_directory, Idle, drive_vars
  <2>2. CASE result = "Ok"
    <3>1. image.entries \in Seq(DirEntries)
      BY DEF ImageType
    <3>2. PICK n \in 0 .. Len(image.entries) :
            files' = SubSeq(image.entries, 1, n) /\ MOUNTED' = (n = Len(image.entries))
      BY <1>5, <2>2 DEF mount_directory
    <3>3. files' \in Seq(DirEntries)
      BY <3>1, <3>2
    <3>4. MOUNTED' \in BOOLEAN
      BY <3>2
    <3> QED
      BY <1>1, <2>1, <3>3, <3>4 DEF io_vars
  <2>3. CASE result # "Ok"
    BY <1>1, <1>5, <2>1, <2>3 DEF mount_directory, io_vars, fs_vars
  <2> QED
    BY <2>2, <2>3
<1> QED
  BY <1>3, <1>4, <1>5

\* The drive's own steps: it leaves "drq" only for an error.
LEMMA DriveOutcome ==
  ASSUME IoType, Drive
  PROVE  /\ UNCHANGED <<todo, present, fs_vars, call, pc, io_vars, entry, result>>
         /\ drive' \in {"absent", "ready", "drq", "err"}
         /\ drive \in {"drq", "err", "absent"} => drive' \in {"err", "absent"}
BY DEF Drive, drive_answers, drive_fails

\* Steps of the driver, of the drive and of read_file keep the types.
LEMMA IoTypeStep ==
  ASSUME IoType, TransferInv, image \in ImageType, DiskMoves
  PROVE  IoType'
<1>1. /\ drive \in {"absent", "busy", "ready", "drq", "err"} /\ todo \in Seq(Int)
      /\ present \in BOOLEAN /\ MOUNTED \in BOOLEAN /\ files \in Seq(DirEntries)
      /\ call \in {"probe", "superblock", "directory", "file", "none"}
      /\ lba \in Nat /\ count \in Nat /\ data \in Seq(Int) /\ entry \in EntryType
      /\ pc \in {"wait_bsy", "wait_drq", "transfer", "idle", "panicked"}
  BY DEF IoType, Busy
<1>2. CASE poll_bsy \/ poll_drq
  BY <1>1, <1>2, PollOutcome DEF IoType, Busy, fs_vars
<1>3. CASE transfer
  BY <1>1, <1>3, TransferOutcome DEF IoType, Busy, fs_vars
<1>4. CASE mount \/ mount_superblock \/ mount_directory
  BY <1>1, <1>4, MountOutcome DEF IoType, Busy
<1>5. CASE Drive
  BY <1>1, <1>5, DriveOutcome DEF IoType, Busy, fs_vars, io_vars
<1>6. ASSUME NEW name, read_file(name) PROVE IoType'
  BY <1>1, <1>6, FileOutcome DEF IoType, Busy, fs_vars
<1>7. CASE UNCHANGED device_vars
  BY <1>1, <1>7 DEF IoType, Busy, device_vars, fs_vars, io_vars
<1> QED
  BY <1>2, <1>3, <1>4, <1>5, <1>6, <1>7 DEF DiskMoves, Kernel

\* They keep what was read and what is to come one run of sectors.
LEMMA TransferStep ==
  ASSUME IoType, TransferInv, image \in ImageType, DiskMoves
  PROVE  TransferInv'
<1>1. lba \in Nat /\ count \in Nat /\ data \in Seq(Int)
  BY DEF IoType
<1>2. CASE poll_bsy \/ poll_drq
  <2>1. UNCHANGED <<call, lba, count, data>>
    BY <1>2, PollOutcome
  <2>2. CASE pc' = "idle"
    BY <2>2 DEF TransferInv
  <2>3. CASE pc' = pc /\ UNCHANGED <<drive, todo>> /\ pc \in {"wait_bsy", "wait_drq"}
    BY <2>1, <2>3 DEF TransferInv, From
  <2>4. CASE /\ pc = "wait_bsy" /\ call # "probe" /\ pc' = "wait_drq"
             /\ todo' \in Seq(Int) /\ Len(todo') = count /\ From(todo', lba)
    <3>1. data = << >> /\ count >= 1 /\ Len(data) = 0
      BY <2>4 DEF TransferInv
    <3>2. Len(data') = 0 /\ From(data', lba')
      BY <2>1, <3>1 DEF From
    <3>3. From(todo', lba' + Len(data'))
      <4>1. lba' + Len(data') = lba
        BY <1>1, <2>1, <3>2
      <4> QED
        BY <2>4, <4>1
    <3>4. Len(todo') = count' - Len(data') /\ Len(data') < count'
      BY <1>1, <2>1, <2>4, <3>1, <3>2
    <3>5. From(data, lba)' /\ From(todo, lba + Len(data))'
      BY <3>2, <3>3 DEF From
    <3> QED
      BY <2>1, <2>4, <3>4, <3>5 DEF TransferInv
  <2>5. CASE pc = "wait_drq" /\ pc' = "transfer" /\ drive = "drq" /\ UNCHANGED <<drive, todo>>
    BY <2>1, <2>5 DEF TransferInv, From
  <2> QED
    BY <1>2, <2>2, <2>3, <2>4, <2>5, PollOutcome
<1>3. CASE transfer
  <2>1. pc = "transfer" /\ UNCHANGED <<call, lba, count>>
    BY <1>3, TransferOutcome
  <2>2. CASE pc' = "idle"
    BY <2>2 DEF TransferInv
  <2>3. CASE /\ Len(data') = Len(data) + 1 /\ From(data', lba)
             /\ Len(todo') = Len(todo) - 1 /\ From(todo', lba + (Len(data) + 1))
             /\ Len(data') # count /\ pc' = "wait_drq"
    <3> PICK n \in Nat, m \in Nat : n = Len(data) /\ m = Len(todo)
      BY DEF IoType
    <3>1. call # "probe" /\ n < count /\ m = count - n
      BY <2>1 DEF TransferInv
    <3>2. Len(data') < count' /\ Len(todo') = count' - Len(data')
      BY <1>1, <2>1, <2>3, <3>1
    <3>3. From(data, lba)' /\ From(todo, lba + Len(data))'
      BY <2>1, <2>3 DEF From
    <3> QED
      BY <2>1, <2>3, <3>1, <3>2, <3>3 DEF TransferInv
  <2> QED
    BY <1>3, <2>2, <2>3, TransferOutcome
<1>4. CASE mount \/ mount_superblock \/ mount_directory
  BY <1>4, MountOutcome DEF TransferInv
<1>5. CASE Drive
  <2>1. UNCHANGED <<todo, call, pc, lba, count, data>>
    BY <1>5, DriveOutcome DEF io_vars
  <2>2. pc' = "transfer" => drive' \in {"drq", "err", "absent"}
    BY <1>5, <2>1, DriveOutcome DEF TransferInv
  <2> QED
    BY <2>1, <2>2 DEF TransferInv, From
<1>6. ASSUME NEW name, read_file(name) PROVE TransferInv'
  BY <1>6, FileOutcome DEF TransferInv
<1>7. CASE UNCHANGED device_vars
  BY <1>7 DEF TransferInv, From, device_vars, io_vars
<1> QED
  BY <1>2, <1>3, <1>4, <1>5, <1>6, <1>7 DEF DiskMoves, Kernel

\* They keep the sectors of a file its entry's, from the call to the return.
LEMMA FileStep ==
  ASSUME IoType, TransferInv, FileInv, image \in ImageType, DiskMoves
  PROVE  FileInv'
<1>1. lba \in Nat /\ count \in Nat /\ data \in Seq(Int)
  BY DEF IoType
<1>2. CASE poll_bsy \/ poll_drq
  <2>1. Busy /\ UNCHANGED <<MOUNTED, files, call, entry, lba, count, data>>
    BY <1>2, PollOutcome DEF Busy, fs_vars
  <2>2. (Busy' \/ (pc' = "idle" /\ result' = "Timeout")) \/ call = "probe"
    BY <1>2, PollOutcome DEF Busy
  <2> QED
    BY <2>1, <2>2 DEF FileInv, First, Busy
<1>3. CASE transfer
  <2>1. Busy /\ UNCHANGED <<MOUNTED, files, call, entry, lba, count>>
    BY <1>3, TransferOutcome DEF Busy, fs_vars
  <2>2. CASE pc' = "idle" /\ result' = "DriveError"
    BY <2>2 DEF FileInv, Busy
  <2>3. CASE pc' = "wait_drq"
    BY <2>1, <2>3 DEF FileInv, First, Busy
  <2>4. CASE pc' = "idle" /\ Len(data') = count /\ From(data', lba)
    <3>1. ASSUME call = "file"
          PROVE  /\ lba = FS_BASE_LBA + entry.lba_off /\ count = Sectors(entry.size)
                 /\ MOUNTED /\ First(entry)
      BY <2>1, <3>1 DEF FileInv
    <3>2. ASSUME call = "file"
          PROVE  /\ Len(data') = Sectors(entry'.size) /\ From(data', FS_BASE_LBA + entry'.lba_off)
                 /\ MOUNTED' /\ First(entry)'
      BY <2>1, <2>4, <3>1, <3>2 DEF First
    <3>3. call' = "file" => /\ Len(data') = Sectors(entry'.size)
                            /\ From(data, FS_BASE_LBA + entry.lba_off)'
                            /\ MOUNTED' /\ First(entry)'
      BY <2>1, <3>2 DEF From
    <3> QED
      BY <2>4, <3>3 DEF FileInv, Busy
  <2> QED
    BY <1>3, <2>2, <2>3, <2>4, TransferOutcome
<1>4. CASE mount \/ mount_superblock \/ mount_directory
  BY <1>4, MountOutcome DEF FileInv
<1>5. CASE Drive
  BY <1>5, DriveOutcome DEF io_vars, fs_vars, FileInv, Busy, From, First
<1>6. ASSUME NEW name, read_file(name) PROVE FileInv'
  <2>1. CASE (pc' = "idle" /\ result' # "Ok") \/ pc' = "panicked"
    BY <2>1 DEF FileInv, Busy
  <2>2. CASE /\ pc' = "idle" /\ MOUNTED /\ First(entry')
             /\ Sectors(entry'.size) = 0 /\ data' = << >>
    <3>1. UNCHANGED <<MOUNTED, files>>
      BY <1>6, FileOutcome DEF fs_vars
    <3>2. Len(data') = 0
      BY <2>2
    <3> QED
      BY <2>2, <3>1, <3>2 DEF FileInv, Busy, From, First
  <2>3. CASE /\ pc' = "wait_bsy" /\ MOUNTED /\ First(entry')
             /\ lba' = FS_BASE_LBA + entry'.lba_off /\ count' = Sectors(entry'.size)
    <3>1. UNCHANGED <<MOUNTED, files>>
      BY <1>6, FileOutcome DEF fs_vars
    <3> QED
      BY <2>3, <3>1 DEF FileInv, Busy, First
  <2> QED
    BY <1>6, <2>1, <2>2, <2>3, FileOutcome
<1>7. CASE UNCHANGED device_vars
  BY <1>7 DEF FileInv, Busy, From, First, device_vars, io_vars, fs_vars
<1> QED
  BY <1>2, <1>3, <1>4, <1>5, <1>6, <1>7 DEF DiskMoves, Kernel

\* A step that leaves the mount's results alone keeps its invariant.
LEMMA MountKept ==
  ASSUME MountInv, UNCHANGED <<image_vars, fs_vars>>,
         result' = result \/ result' \notin {"BadSuperblock", "BadDirectory"},
         call' \in {"probe", "superblock", "directory"} => ~MOUNTED,
         call' = "directory" => image.superblock /\ Len(image.entries) <= MAX_FILES
  PROVE  MountInv'
<1>1. /\ image' = image /\ FILES' = FILES /\ packed' = packed /\ MOUNTED' = MOUNTED /\ files' = files
  BY DEF image_vars, fs_vars
<1>2. MountIsAllOrNothing'
  BY <1>1, ZenonT(30) DEF MountInv, MountIsAllOrNothing, ValidEntry
<1> QED
  BY <1>1, <1>2 DEF MountInv

\* The script's images have a superblock and, up to the names, a directory that
\* the kernel accepts.
LEMMA PackedIsGood ==
  ASSUME PackInv, packed
  PROVE  /\ image.superblock /\ Len(image.entries) <= MAX_FILES
         /\ (\A i \in 1 .. Len(FILES) : Printable(FILES[i].name)) =>
              \A i \in 1 .. Len(image.entries) : ValidEntry(image.entries[i])
<1> PICK n \in Nat, f \in Nat : n = Len(image.entries) /\ f = Len(FILES)
  BY DEF PackInv, ImageType
<1> PICK most \in Nat : most = MAX_FILES
  BY GoatfsAssumption
<1>0. n <= f /\ f <= most
  BY ZenonT(30) DEF PackInv, accepts
<1>1. /\ image.superblock
      /\ \A i \in 1 .. f : FILES[i].name # "" /\ FILES[i].size <= MAX_FILE_SIZE
      /\ \A i \in 1 .. n : Placed(image.entries[i], FILES[i], image.data, data_lba)
  BY ZenonT(30) DEF PackInv, accepts
<1>2. ASSUME NEW i \in 1 .. n, \A k \in 1 .. f : Printable(FILES[k].name)
      PROVE  ValidEntry(image.entries[i])
  <2>1. i \in 1 .. f
    BY <1>0
  <2> QED
    BY <1>1, <1>2, <2>1 DEF Placed, ValidEntry
<1>3. n <= MAX_FILES
  BY <1>0
<1> QED
  BY <1>1, <1>2, <1>3, ZenonT(30)

\* The mount ends with all of the directory or with nothing.
LEMMA MountStep ==
  ASSUME PackInv, IoType, TransferInv, MountInv, DiskMoves, UNCHANGED image_vars
  PROVE  MountInv'
<1>1. image \in ImageType /\ packed \in BOOLEAN
  BY DEF PackInv
<1>2. /\ call = "directory" => image.superblock /\ Len(image.entries) <= MAX_FILES
      /\ call \in {"probe", "superblock", "directory"} => ~MOUNTED
  BY DEF MountInv
<1>3. CASE poll_bsy \/ poll_drq
  <2>1. UNCHANGED <<fs_vars, call>> /\ (result' = result \/ result' \notin {"BadSuperblock", "BadDirectory"})
    BY <1>3, PollOutcome
  <2> QED
    BY <1>2, <2>1, MountKept DEF fs_vars, image_vars
<1>4. CASE transfer
  <2>1. UNCHANGED <<fs_vars, call>> /\ (result' = result \/ result' \notin {"BadSuperblock", "BadDirectory"})
    BY <1>4, TransferOutcome
  <2> QED
    BY <1>2, <2>1, MountKept DEF fs_vars, image_vars
<1>5. CASE Drive
  <2>1. UNCHANGED <<fs_vars, call, result>>
    BY <1>5, DriveOutcome
  <2> QED
    BY <1>2, <2>1, MountKept DEF fs_vars, image_vars
<1>6. ASSUME NEW name, read_file(name) PROVE MountInv'
  <2>1. /\ UNCHANGED fs_vars /\ call' = "file"
        /\ result' = result \/ result' \notin {"BadSuperblock", "BadDirectory"}
    BY <1>6, FileOutcome
  <2> QED
    BY <2>1, MountKept DEF fs_vars, image_vars
<1>7. CASE mount
  <2>1. /\ UNCHANGED fs_vars /\ call = "probe" /\ call' = "superblock"
        /\ result' = result \/ result' \notin {"BadSuperblock", "BadDirectory"}
    BY <1>7 DEF mount, Idle, read_lba
  <2> QED
    BY <1>2, <2>1, MountKept DEF fs_vars, image_vars
<1>8. CASE mount_superblock
  <2>1. UNCHANGED fs_vars /\ call = "superblock"
    BY <1>8 DEF mount_superblock, Idle
  <2>2. CASE Superblock
    <3>1. /\ call' = "directory" /\ (result' = result \/ result' \notin {"BadSuperblock", "BadDirectory"})
          /\ image.superblock /\ Len(image.entries) <= MAX_FILES
      BY <1>8, <2>2 DEF mount_superblock, read_lba, Superblock
    <3> QED
      BY <1>2, <2>1, <3>1, MountKept DEF fs_vars, image_vars
  <2>3. CASE ~Superblock
    <3>1. call' = "none" /\ MOUNTED' = MOUNTED /\ files' = files /\ ~MOUNTED
      BY <1>2, <1>8, <2>1, <2>3 DEF mount_superblock, fs_vars
    <3>2. packed => result' = result
      BY <1>8, <2>3, PackedIsGood DEF mount_superblock, Superblock, MountFailed
    <3>3. packed' = packed /\ FILES' = FILES
      BY DEF image_vars
    <3>4. packed' /\ (\A i \in 1 .. Len(FILES') : Printable(FILES'[i].name)) =>
            result' \notin {"BadSuperblock", "BadDirectory"}
      BY <3>2, <3>3 DEF MountInv, MountIsAllOrNothing
    <3>5. MountIsAllOrNothing'
      BY <3>1, <3>4 DEF MountIsAllOrNothing
    <3> QED
      BY <3>1, <3>5 DEF MountInv
  <2> QED
    BY <2>2, <2>3
<1>9. CASE mount_directory
  <2>1. call' = "none" /\ call = "directory"
    BY <1>9 DEF mount_directory, Idle
  <2>2. CASE result # "Ok"
    <3>1. UNCHANGED fs_vars /\ result' = result
      BY <1>9, <2>2 DEF mount_directory
    <3> QED
      BY <2>1, <3>1, MountKept DEF fs_vars, image_vars
  <2>3. CASE result = "Ok"
    <3>1. image.entries \in Seq(DirEntries)
      BY <1>1 DEF ImageType
    <3> PICK l \in Nat : l = Len(image.entries)
      BY <3>1
    <3>2. PICK n \in 0 .. l :
            /\ \A i \in 1 .. n : ValidEntry(image.entries[i])
            /\ n < l => ~ValidEntry(image.entries[n + 1])
            /\ files' = SubSeq(image.entries, 1, n)
            /\ MOUNTED' = (n = l)
            /\ result' = IF MOUNTED' THEN "Ok" ELSE "BadDirectory"
      BY <1>9, <2>3 DEF mount_directory
    <3>3. image' = image /\ packed' = packed /\ FILES' = FILES
      BY DEF image_vars
    <3>4. ASSUME n = l
          PROVE  files' = image.entries
      <4>1. SubSeq(image.entries, 1, l) = image.entries
        BY <3>1
      <4> QED
        BY <3>2, <3>4, <4>1
    <3>5. MOUNTED' => /\ image'.superblock /\ files' = image'.entries /\ Len(files') <= MAX_FILES
                      /\ \A i \in 1 .. Len(files') : ValidEntry(files'[i])
      BY <1>2, <2>1, <3>2, <3>3, <3>4, ZenonT(30)
    <3>6. ASSUME packed, \A i \in 1 .. Len(FILES) : Printable(FILES[i].name)
          PROVE  result' = "Ok"
      <4>1. \A i \in 1 .. l : ValidEntry(image.entries[i])
        BY <3>6, PackedIsGood
      <4>2. ~(n < l)
        <5>1. n < l => n + 1 \in 1 .. l
          OBVIOUS
        <5> QED
          BY <3>2, <4>1, <5>1
      <4>3. n = l
        BY <4>2
      <4> QED
        BY <3>2, <4>3, ZenonT(30)
    <3>7. packed' /\ (\A i \in 1 .. Len(FILES') : Printable(FILES'[i].name)) =>
            result' \notin {"BadSuperblock", "BadDirectory"}
      BY <3>3, <3>6
    <3>8. MountIsAllOrNothing'
      BY <3>5, <3>7, ZenonT(30) DEF MountIsAllOrNothing, ValidEntry
    <3> QED
      BY <2>1, <3>8 DEF MountInv
  <2> QED
    BY <2>2, <2>3
<1>10. CASE UNCHANGED device_vars
  <2>1. UNCHANGED <<fs_vars, call, result>>
    BY <1>10 DEF device_vars
  <2> QED
    BY <1>2, <2>1, MountKept DEF fs_vars, image_vars
<1> QED
  BY <1>3, <1>4, <1>5, <1>6, <1>7, <1>8, <1>9, <1>10 DEF DiskMoves, Kernel

\* Every step keeps the invariant of the disk.
LEMMA DiskStepKept ==
  ASSUME DiskInv, [CatNext]_cat_vars
  PROVE  DiskInv'
<1>1. BuildInv'
  BY BuildStep DEF DiskInv
<1>2. CASE build /\ Packing
  <2>1. pack_file /\ UNCHANGED device_vars /\ call = "probe"
    BY <1>2 DEF build, DiskInv, BuildInv
  <2>2. PackInv'
    BY <2>1, PackStep DEF DiskInv
  <2>3. IoType' /\ TransferInv' /\ FileInv'
    <3>1. image \in ImageType /\ DiskMoves
      BY <2>1 DEF DiskInv, PackInv, DiskMoves
    <3> QED
      BY <3>1, IoTypeStep, TransferStep, FileStep DEF DiskInv
  <2>4. MountInv'
    <3>1. ~MOUNTED /\ MOUNTED' = MOUNTED /\ result' = result /\ call' = call
      BY <2>1 DEF DiskInv, MountInv, device_vars, fs_vars
    <3>2. FILES' = FILES /\ packed' = packed
      BY <2>1 DEF pack_file
    <3> QED
      BY <2>1, <3>1, <3>2 DEF DiskInv, MountInv, MountIsAllOrNothing
  <2> QED
    BY <1>1, <2>2, <2>3, <2>4 DEF DiskInv
<1>3. CASE DiskMoves /\ UNCHANGED image_vars
  <2>1. image \in ImageType
    BY DEF DiskInv, PackInv
  <2>2. IoType' /\ TransferInv' /\ FileInv' /\ MountInv'
    BY <1>3, <2>1, IoTypeStep, TransferStep, FileStep, MountStep DEF DiskInv
  <2>3. PackInv'
    BY <1>3 DEF DiskInv, PackInv, image_vars, accepts, Placed
  <2> QED
    BY <1>1, <2>2, <2>3 DEF DiskInv
<1> QED
  BY <1>2, <1>3, CatMoves DEF DiskInv

\* Where the k-th sector of a file is in the image's data.
LEMMA SectorIndex ==
  ASSUME NEW a \in Nat, NEW b \in Nat, NEW s \in Nat, NEW m \in Nat, NEW k \in 1 .. s,
         a >= 2, a + s <= 2 + m
  PROVE  b + a + k - 1 - b - 1 = a - 2 + k /\ a - 2 + k \in 1 .. m
OBVIOUS

\* The sectors of a packed file hold its text.
LEMMA PackedContents ==
  ASSUME PackInv, packed, NEW i \in 1 .. Len(image.entries),
         data \in Seq(Int), Len(data) = Sectors(image.entries[i].size),
         From(data, FS_BASE_LBA + image.entries[i].lba_off)
  PROVE  Contents(data) = blob(FILES[i].text, FILES[i].size)
<1>1. image.entries \in Seq(DirEntries) /\ image.data \in Seq(STRING \X Nat)
  BY DEF PackInv, ImageType
<1> PICK e \in DirEntries : e = image.entries[i]
  BY <1>1
<1> PICK s \in Nat, a \in Nat : s = Sectors(e.size) /\ a = e.lba_off
  BY SectorCount, ZenonT(30) DEF DirEntries
<1> PICK b \in Nat : b = FS_BASE_LBA
  BY DiskAssumption
<1> PICK m \in Nat : m = Len(image.data)
  BY <1>1
<1>2. Placed(e, FILES[i], image.data, 2 + m)
  BY DEF PackInv
<1>3. e.size = FILES[i].size /\ \A k \in 1 .. s : image.data[a - 2 + k] = <<FILES[i].text, k>>
  BY <1>2 DEF Placed
<1>4. a >= 2 /\ a + s <= 2 + m
  BY <1>2 DEF Placed
<1>5. ASSUME NEW k \in 1 .. s
      PROVE  Contents(data)[k] = <<FILES[i].text, k>>
  <2>1. k \in 1 .. Len(data) /\ k \in Nat /\ k >= 1 /\ k <= s
    OBVIOUS
  <2>2. data[k] = b + a + k - 1
    BY <2>1 DEF From
  <2>3. data[k] - b - 1 = a - 2 + k
    <3>1. b + a + k - 1 - b - 1 = a - 2 + k
      BY ONLY <2>1, SMTT(30)
    <3> QED
      BY ONLY <2>2, <3>1, SMTT(30)
  <2>4. a - 2 + k \in 1 .. m
    BY <1>4, SectorIndex, ZenonT(30)
  <2>5. Contents(data)[k] = image.data[a - 2 + k]
    BY <2>1, <2>3, <2>4, ZenonT(30) DEF Contents
  <2> QED
    BY <1>3, <2>5
<1>6. /\ Contents(data) = [k \in 1 .. s |-> Contents(data)[k]]
      /\ blob(FILES[i].text, FILES[i].size) = [k \in 1 .. s |-> <<FILES[i].text, k>>]
  BY <1>3 DEF Contents, blob
<1> HIDE DEF Contents
<1> QED
  BY <1>5, <1>6

\* The invariant gives ReadsAreExact.
LEMMA ReadsFromInv ==
  ASSUME DiskInv
  PROVE  ReadsAreExact
<1> SUFFICES ASSUME pc = "idle", call = "file", result = "Ok"
             PROVE  /\ data = [i \in 1 .. Sectors(entry.size) |-> FS_BASE_LBA + entry.lba_off + i - 1]
                    /\ packed =>
                         \E i \in 1 .. Len(FILES) :
                           /\ FILES[i].name = entry.name /\ \A j \in 1 .. i - 1 : FILES[j].name # entry.name
                           /\ Contents(data) = blob(FILES[i].text, FILES[i].size)
  BY ZenonT(30) DEF ReadsAreExact
<1>1. /\ Len(data) = Sectors(entry.size) /\ From(data, FS_BASE_LBA + entry.lba_off)
      /\ MOUNTED /\ First(entry)
  BY DEF DiskInv, FileInv
<1>2. data \in Seq(Int) /\ files = image.entries /\ image.entries \in Seq(DirEntries)
  BY <1>1 DEF DiskInv, IoType, MountInv, MountIsAllOrNothing, PackInv, ImageType
<1>3. data = [i \in 1 .. Sectors(entry.size) |-> FS_BASE_LBA + entry.lba_off + i - 1]
  <2>1. data = [i \in 1 .. Len(data) |-> data[i]]
    BY <1>2
  <2> QED
    BY <1>1, <2>1 DEF From
<1>4. PICK i \in 1 .. Len(image.entries) :
        entry = image.entries[i] /\ \A j \in 1 .. i - 1 : image.entries[j].name # entry.name
  BY <1>1, <1>2 DEF First
<1>5. ASSUME packed
      PROVE  \E n \in 1 .. Len(FILES) :
               /\ FILES[n].name = entry.name /\ \A j \in 1 .. n - 1 : FILES[j].name # entry.name
               /\ Contents(data) = blob(FILES[n].text, FILES[n].size)
  <2> PICK l \in Nat : l = Len(image.entries)
    BY <1>2
  <2> PICK f \in Nat : f = Len(FILES)
    BY DEF DiskInv, PackInv
  <2>1. l <= f /\ \A k \in 1 .. l : image.entries[k].name = FILES[k].name
    BY <1>5 DEF DiskInv, PackInv, Placed
  <2>2. i \in 1 .. f /\ FILES[i].name = entry.name
    BY <1>4, <2>1
  <2>3. ASSUME NEW j \in 1 .. i - 1 PROVE FILES[j].name # entry.name
    <3>1. j \in 1 .. l
      OBVIOUS
    <3> QED
      BY <1>4, <2>1, <3>1
  <2>4. Contents(data) = blob(FILES[i].text, FILES[i].size)
    BY <1>1, <1>2, <1>4, <1>5, PackedContents DEF DiskInv
  <2> QED
    BY <2>2, <2>3, <2>4
<1> QED
  BY <1>3, <1>5

(***************************************************************************)
(* A read that read_file reports as good returns the file's own sectors,   *)
(* in order and all of them, whatever the drive did before and meanwhile;  *)
(* and from an image the script packed, the text of the first file of that *)
(* name.                                                                   *)
(***************************************************************************)
THEOREM FilesAreExact == CatSpec => []ReadsAreExact
<1>1. CatInit => DiskInv
  BY DiskStart
<1>2. DiskInv /\ [CatNext]_cat_vars => DiskInv'
  BY DiskStepKept
<1>3. DiskInv => ReadsAreExact
  BY ReadsFromInv
<1> QED
  BY <1>1, <1>2, <1>3, PTL DEF CatSpec

(***************************************************************************)
(* The mount ends with every entry of the directory, all of them good, or  *)
(* with no mount; and the kernel finds no fault with an image the script   *)
(* packed from printable names.                                            *)
(***************************************************************************)
THEOREM MountIsAtomic == CatSpec => []MountIsAllOrNothing
<1>1. CatInit => DiskInv
  BY DiskStart
<1>2. DiskInv /\ [CatNext]_cat_vars => DiskInv'
  BY DiskStepKept
<1>3. DiskInv => MountIsAllOrNothing
  BY DEF DiskInv, MountInv
<1> QED
  BY <1>1, <1>2, <1>3, PTL DEF CatSpec
-----------------------------------------------------------------------------
(***************************************************************************)
(* The serial port.                                                        *)
(***************************************************************************)

Gone(byte) == \E k \in 1 .. Len(out) : out[k] = byte

SerialType ==
  /\ SERIAL1 \in BOOLEAN /\ gave_up \in BOOLEAN /\ serial_pc \in {"init", "idle", "send"}
  /\ message \in Seq(Nat) /\ piece \in 0 .. Len(message)
  /\ out \in Seq(Nat \X Nat) /\ remaining \in Seq(Nat \X Nat)
  /\ serial_pc = "init" => message = << >> /\ remaining = << >> /\ piece = 0
  /\ serial_pc = "idle" => remaining = << >> /\ (SERIAL1 => piece = Len(message))

\* What remains of a piece is its end, and the rest of it has gone out.
RestInv ==
  remaining # << >> =>
    /\ piece >= 1 /\ Len(remaining) <= message[piece]
    /\ \A i \in 1 .. Len(remaining) : remaining[i] = <<piece, message[piece] - Len(remaining) + i>>
    /\ \A i \in 1 .. message[piece] - Len(remaining) : Gone(<<piece, i>>)
    /\ \A j \in 1 .. Len(out) : out[j][1] = piece => out[j][2] <= message[piece] - Len(remaining)

\* Nothing of a later piece has gone out; without a refusal all of the earlier ones has.
PieceInv ==
  /\ \A j \in 1 .. Len(out) : out[j][1] \in 1 .. piece /\ out[j][2] \in 1 .. message[out[j][1]]
  /\ ~gave_up => \A p \in 1 .. piece : remaining = << >> \/ p < piece =>
                   \A i \in 1 .. message[p] : Gone(<<p, i>>)

OrderInv ==
  /\ \A j, k \in 1 .. Len(out) : j < k => S!Before(out[j], out[k])
  /\ \A j \in 1 .. Len(out) : out[j][2] > 1 => Gone(<<out[j][1], out[j][2] - 1>>)

SerialInv == SerialType /\ RestInv /\ PieceInv /\ OrderInv

\* The UART takes k bytes.
Takes(k) ==
  /\ out' \in Seq(Nat \X Nat) /\ Len(out') = Len(out) + k
  /\ \A j \in 1 .. Len(out) : out'[j] = out[j]
  /\ \A i \in 1 .. k : out'[Len(out) + i] = remaining[i]
  /\ remaining' \in Seq(Nat \X Nat) /\ Len(remaining') = Len(remaining) - k
  /\ \A i \in 1 .. Len(remaining) - k : remaining'[i] = remaining[k + i]

\* Some elements of one sequence go behind another.
LEMMA MoveSome ==
  ASSUME NEW E, NEW o \in Seq(E), NEW l \in Seq(E), NEW k \in 1 .. Len(l)
  PROVE  LET joined == o \o SubSeq(l, 1, k)
             rest == SubSeq(l, k + 1, Len(l))
         IN  /\ joined \in Seq(E) /\ Len(joined) = Len(o) + k
             /\ \A j \in 1 .. Len(o) : joined[j] = o[j]
             /\ \A i \in 1 .. k : joined[Len(o) + i] = l[i]
             /\ rest \in Seq(E) /\ Len(rest) = Len(l) - k
             /\ \A i \in 1 .. Len(l) - k : rest[i] = l[k + i]
<1> PICK n \in Nat, r \in Nat : n = Len(o) /\ r = Len(l)
  OBVIOUS
<1>0. SubSeq(l, 1, k) \in Seq(E) /\ SubSeq(l, k + 1, r) \in Seq(E)
  OBVIOUS
<1> PICK h \in Seq(E), t \in Seq(E) : h = SubSeq(l, 1, k) /\ t = SubSeq(l, k + 1, r)
  BY <1>0, ZenonT(30)
<1>1. Len(h) = k /\ \A i \in 1 .. k : h[i] = l[i]
  OBVIOUS
<1>2. Len(t) = r - k /\ \A i \in 1 .. r - k : t[i] = l[k + i]
  OBVIOUS
<1>3. o \o h \in Seq(E) /\ Len(o \o h) = n + k /\ \A j \in 1 .. n : (o \o h)[j] = o[j]
  BY <1>1
<1>4. \A i \in 1 .. k : (o \o h)[n + i] = h[i]
  BY <1>1
<1> QED
  BY <1>1, <1>2, <1>3, <1>4

\* The first element of one sequence goes behind another.
LEMMA MoveOne ==
  ASSUME NEW E, NEW o \in Seq(E), NEW l \in Seq(E), l # << >>
  PROVE  LET joined == Append(o, Head(l))
         IN  /\ joined \in Seq(E) /\ Len(joined) = Len(o) + 1
             /\ \A j \in 1 .. Len(o) : joined[j] = o[j]
             /\ \A i \in 1 .. 1 : joined[Len(o) + i] = l[i]
             /\ Tail(l) \in Seq(E) /\ Len(Tail(l)) = Len(l) - 1
             /\ \A i \in 1 .. Len(l) - 1 : Tail(l)[i] = l[1 + i]
<1> PICK b \in E : b = Head(l) /\ b = l[1]
  OBVIOUS
<1>1. /\ Append(o, b) \in Seq(E) /\ Len(Append(o, b)) = Len(o) + 1
      /\ \A j \in 1 .. Len(o) : Append(o, b)[j] = o[j]
      /\ \A i \in 1 .. 1 : Append(o, b)[Len(o) + i] = b
  OBVIOUS
<1>2. /\ Tail(l) \in Seq(E) /\ Len(Tail(l)) = Len(l) - 1
      /\ \A i \in 1 .. Len(l) - 1 : Tail(l)[i] = l[1 + i]
  OBVIOUS
<1>3. \A i \in 1 .. 1 : l[i] = b
  OBVIOUS
<1> QED
  BY <1>1, <1>2, <1>3

\* A poll of the UART: it takes some bytes, or is given up on, or asked again.
LEMMA SendOutcome ==
  ASSUME SerialType, S!send
  PROVE  /\ serial_pc = "send" /\ remaining # << >> /\ UNCHANGED <<SERIAL1, serial_pc, message, piece>>
         /\ \/ remaining' = << >> /\ gave_up' = TRUE /\ out' = out
            \/ UNCHANGED <<remaining, out, gave_up>>
            \/ gave_up' = gave_up /\ \E k \in 1 .. Len(remaining) : Takes(k)
<1>1. serial_pc = "send" /\ remaining # << >> /\ UNCHANGED <<SERIAL1, serial_pc, message, piece>>
  BY DEF S!send
<1> DEFINE Byte == Nat \X Nat
<1>2. out \in Seq(Byte) /\ remaining \in Seq(Byte)
  BY DEF SerialType
<1> HIDE DEF Byte
<1>3. CASE S!Ready
  <2>1. PICK sent \in 0 .. Len(remaining) :
          IF sent = 0 THEN S!Abandon
          ELSE /\ out' = out \o SubSeq(remaining, 1, sent)
               /\ remaining' = SubSeq(remaining, sent + 1, Len(remaining))
               /\ gave_up' = gave_up
    BY <1>3, ZenonT(30) DEF S!Ready
  <2>2. CASE sent = 0
    BY <1>1, <2>1, <2>2 DEF S!Abandon
  <2>3. CASE sent # 0
    <3>1. sent \in 1 .. Len(remaining)
      BY <1>2, <2>3
    <3>2. Takes(sent)
      <4> DEFINE joined == out \o SubSeq(remaining, 1, sent)
                 rest == SubSeq(remaining, sent + 1, Len(remaining))
      <4>1. /\ joined \in Seq(Byte) /\ Len(joined) = Len(out) + sent
            /\ \A j \in 1 .. Len(out) : joined[j] = out[j]
            /\ \A i \in 1 .. sent : joined[Len(out) + i] = remaining[i]
            /\ rest \in Seq(Byte) /\ Len(rest) = Len(remaining) - sent
            /\ \A i \in 1 .. Len(remaining) - sent : rest[i] = remaining[sent + i]
        BY ONLY <1>2, <3>1, MoveSome, SMTT(30)
      <4>2. out' = joined /\ remaining' = rest
        BY <2>1, <2>3
      <4> HIDE DEF joined, rest
      <4> QED
        BY <4>1, <4>2, ZenonT(30) DEF Takes, Byte
    <3> QED
      BY <1>1, <2>1, <2>3, <3>1, <3>2
  <2> QED
    BY <2>2, <2>3, ZenonT(30)
<1>4. CASE S!NoCapacity
  BY <1>1, <1>4 DEF S!NoCapacity, S!Abandon
<1>5. CASE S!RemoteNotClearToSend
  <2>1. out' = Append(out, Head(remaining)) /\ remaining' = Tail(remaining) /\ gave_up' = gave_up
    BY <1>5 DEF S!RemoteNotClearToSend
  <2>2. Takes(1)
    <3> DEFINE joined == Append(out, Head(remaining))
               rest == Tail(remaining)
    <3>1. /\ joined \in Seq(Byte) /\ Len(joined) = Len(out) + 1
          /\ \A j \in 1 .. Len(out) : joined[j] = out[j]
          /\ \A i \in 1 .. 1 : joined[Len(out) + i] = remaining[i]
          /\ rest \in Seq(Byte) /\ Len(rest) = Len(remaining) - 1
          /\ \A i \in 1 .. Len(remaining) - 1 : rest[i] = remaining[1 + i]
      BY <1>1, <1>2, MoveOne
    <3>2. out' = joined /\ remaining' = rest
      BY <2>1
    <3> HIDE DEF joined, rest
    <3> QED
      BY <3>1, <3>2, ZenonT(30) DEF Takes, Byte
  <2>3. 1 \in 1 .. Len(remaining)
    BY <1>1, <1>2
  <2> QED
    BY <1>1, <2>1, <2>2, <2>3
<1> QED
  BY <1>3, <1>4, <1>5, ZenonT(30) DEF S!send

\* The bytes of a piece that have gone out and those that remain.
LEMMA PieceArithmetic ==
  ASSUME NEW m \in Nat, NEW r \in Nat, NEW k \in Nat, NEW d \in Nat, k <= r, r <= m, d = m - r
  PROVE  m - (r - k) = d + k /\ d + k <= m
OBVIOUS

\* The place of a byte behind the first d.
LEMMA PlaceBehind ==
  ASSUME NEW i \in Nat, NEW k \in Nat, NEW d \in Nat, d < i, i <= d + k
  PROVE  i - d \in 1 .. k /\ d + (i - d) = i
OBVIOUS

\* The places of the next k bytes of a piece of m, of which d have gone out.
LEMMA NextPlaces ==
  ASSUME NEW d \in Nat, NEW k \in Nat, NEW m \in Nat, d + k <= m
  PROVE  /\ \A i \in Nat : 1 <= i /\ i <= k => d + i \in 1 .. m /\ d < d + i /\ d + i <= d + k
         /\ \A i \in Nat : i <= d => i <= d + k
         /\ \A i \in Nat : i > 1 /\ i <= d + k => i - 1 \in 1 .. d + k
OBVIOUS

\* A byte out comes before the next ones of its piece or of a later one.
LEMMA ComesBefore ==
  ASSUME NEW a \in Nat, NEW b \in Nat, NEW c \in Nat, NEW d \in Nat, NEW p \in Nat,
         a <= p, a = p => b <= d, d < c
  PROVE  a < p \/ (a = p /\ b < c)
OBVIOUS

\* What a sequence holds is of its type.
LEMMA HoldsElements ==
  ASSUME NEW E, NEW q \in Seq(E), NEW i \in 1 .. Len(q)
  PROVE  q[i] \in E
OBVIOUS

\* While a piece is being sent.
LEMMA SendingTypes ==
  ASSUME SerialInv, remaining # << >>
  PROVE  /\ message \in Seq(Nat) /\ piece \in 1 .. Len(message)
         /\ Len(remaining) <= message[piece]
         /\ out \in Seq(Nat \X Nat) /\ remaining \in Seq(Nat \X Nat)
<1>1. /\ message \in Seq(Nat) /\ piece \in 0 .. Len(message)
      /\ out \in Seq(Nat \X Nat) /\ remaining \in Seq(Nat \X Nat)
  BY DEF SerialInv, SerialType
<1>2. piece >= 1 /\ Len(remaining) <= message[piece]
  BY ZenonT(30) DEF SerialInv, RestInv
<1>3. Len(message) \in Nat
  BY <1>1
<1>4. piece \in 1 .. Len(message)
  BY <1>1, <1>2, <1>3
<1> QED BY <1>1, <1>2, <1>4, ZenonT(30)

\* What k bytes taken do: each byte out is an old one or one of the next k of the piece.
LEMMA TakesOutcome ==
  ASSUME SerialInv, remaining # << >>, NEW k \in 1 .. Len(remaining), Takes(k),
         message' = message, piece' = piece
  PROVE  \E d \in Nat, n \in Nat :
           /\ n = Len(out) /\ Len(out') = n + k
           /\ d = message[piece] - Len(remaining) /\ d + k = message'[piece'] - Len(remaining')
           /\ d + k <= message[piece]
           /\ \A j \in 1 .. n : /\ out'[j] = out[j] /\ out[j][1] \in 1 .. piece
                                /\ out[j][2] \in 1 .. message[out[j][1]]
                                /\ out[j][1] = piece => out[j][2] <= d
           /\ \A j \in n + 1 .. n + k : out'[j] = <<piece, d + (j - n)>>
           /\ \A byte : Gone(byte) => Gone(byte)'
           /\ \A i \in 1 .. d + k : Gone(<<piece, i>>)'
<1>1. /\ message \in Seq(Nat) /\ piece \in 1 .. Len(message) /\ Len(remaining) <= message[piece]
      /\ out \in Seq(Nat \X Nat) /\ remaining \in Seq(Nat \X Nat)
  BY SendingTypes
<1> PICK n \in Nat, r \in Nat : n = Len(out) /\ r = Len(remaining)
  BY <1>1
<1> PICK m \in Nat : m = message[piece]
  <2>1. message[piece] \in Nat
    BY <1>1, HoldsElements, ZenonT(30)
  <2> QED BY <2>1, ZenonT(30)
<1>0. r <= m /\ k \in Nat /\ 1 <= k /\ k <= r
  BY <1>1
<1> PICK d \in Nat : d = m - r
  BY <1>0
<1>2. Len(out') = n + k /\ Len(remaining') = r - k
  BY DEF Takes
<1>3. d + k = message'[piece'] - Len(remaining') /\ d + k <= m
  <2>1. m - (r - k) = d + k /\ d + k <= m
    BY ONLY <1>0, d = m - r, SMTT(30)
  <2> QED
    BY <1>2, <2>1
<1>4. \A j \in 1 .. n : /\ out'[j] = out[j] /\ out[j][1] \in 1 .. piece
                        /\ out[j][2] \in 1 .. message[out[j][1]]
                        /\ out[j][1] = piece => out[j][2] <= d
  BY DEF Takes, SerialInv, RestInv, PieceInv
<1>5. \A i \in 1 .. r : remaining[i] = <<piece, d + i>>
  BY DEF SerialInv, RestInv
<1>6. ASSUME NEW i \in 1 .. k
      PROVE  n + i \in 1 .. Len(out') /\ out'[n + i] = <<piece, d + i>>
  <2>1. i \in 1 .. r /\ n + i \in 1 .. n + k
    OBVIOUS
  <2> QED
    BY <1>2, <1>5, <2>1, ZenonT(30) DEF Takes
<1>7. ASSUME NEW j \in n + 1 .. n + k
      PROVE  out'[j] = <<piece, d + (j - n)>>
  <2>1. j - n \in 1 .. k /\ n + (j - n) = j
    OBVIOUS
  <2> QED
    BY <1>6, <2>1, ZenonT(30)
<1>8. ASSUME NEW byte, Gone(byte)
      PROVE  Gone(byte)'
  <2>1. PICK j \in 1 .. n : out[j] = byte
    BY <1>8 DEF Gone
  <2>2. j \in 1 .. Len(out') /\ out'[j] = byte
    BY <1>2, <1>4, <2>1
  <2> QED
    BY <2>2 DEF Gone
<1>9. ASSUME NEW i \in 1 .. d + k
      PROVE  Gone(<<piece, i>>)'
  <2>1. CASE i \in 1 .. d
    <3>1. Gone(<<piece, i>>)
      BY <2>1 DEF SerialInv, RestInv
    <3>2. \E j \in 1 .. Len(out') : out'[j] = <<piece, i>>
      BY <1>8, <3>1, ZenonT(30) DEF Gone
    <3> QED
      BY <3>2, ZenonT(30) DEF Gone
  <2>2. CASE i \notin 1 .. d
    <3>0. i \in Nat /\ d < i /\ i <= d + k
      BY <1>0, <2>2
    <3>1. i - d \in 1 .. k /\ d + (i - d) = i
      BY <1>0, <3>0, PlaceBehind, ZenonT(30)
    <3>2. \E j \in 1 .. Len(out') : out'[j] = <<piece, i>>
      BY <1>6, <3>1, ZenonT(30)
    <3> QED
      BY <3>2 DEF Gone
  <2> QED
    BY <2>1, <2>2
<1>10. /\ n = Len(out) /\ Len(out') = n + k
       /\ d = message[piece] - Len(remaining) /\ d + k = message'[piece'] - Len(remaining')
       /\ d + k <= message[piece]
  BY <1>2, <1>3
<1> QED
  BY <1>4, <1>7, <1>8, <1>9, <1>10

\* Bytes taken keep the output a part of the message, in order.
LEMMA TakesStep ==
  ASSUME SerialInv, serial_pc = "send", remaining # << >>, NEW k \in 1 .. Len(remaining), Takes(k),
         UNCHANGED <<SERIAL1, serial_pc, message, piece, gave_up>>
  PROVE  SerialInv'
<1>1. /\ message' = message /\ piece' = piece /\ gave_up' = gave_up /\ SERIAL1' = SERIAL1
      /\ serial_pc' = "send"
  OBVIOUS
<1>2. PICK d \in Nat, n \in Nat :
           /\ n = Len(out) /\ Len(out') = n + k
           /\ d = message[piece] - Len(remaining) /\ d + k = message'[piece'] - Len(remaining')
           /\ d + k <= message[piece]
           /\ \A j \in 1 .. n : /\ out'[j] = out[j] /\ out[j][1] \in 1 .. piece
                                /\ out[j][2] \in 1 .. message[out[j][1]]
                                /\ out[j][1] = piece => out[j][2] <= d
           /\ \A j \in n + 1 .. n + k : out'[j] = <<piece, d + (j - n)>>
           /\ \A byte : Gone(byte) => Gone(byte)'
           /\ \A i \in 1 .. d + k : Gone(<<piece, i>>)'
  BY <1>1, TakesOutcome
<1>3. /\ message \in Seq(Nat) /\ piece \in 1 .. Len(message) /\ Len(remaining) <= message[piece]
      /\ out \in Seq(Nat \X Nat) /\ remaining \in Seq(Nat \X Nat)
  BY SendingTypes
<1> PICK r \in Nat : r = Len(remaining)
  BY <1>3
<1> PICK m \in Nat : m = message[piece]
  <2>1. message[piece] \in Nat
    BY <1>3, HoldsElements, ZenonT(30)
  <2> QED BY <2>1, ZenonT(30)
<1> PICK p0 \in Nat : p0 = piece /\ p0 >= 1
  BY <1>3
<1>4. k \in Nat /\ 1 <= k /\ k <= r /\ r <= m /\ d = m - r
  <2>1. r <= m
    BY <1>3, ZenonT(30)
  <2>2. d = m - r
    BY <1>2, ZenonT(30)
  <2> QED BY <2>1, <2>2
<1>0. d + k <= m /\ m - (r - k) = d + k
  BY ONLY <1>4, SMTT(30)
<1>11. Len(out') = n + k /\ Len(remaining') = r - k
  BY <1>2 DEF Takes
<1>5. \A j \in 1 .. n + k : j \in 1 .. n \/ j \in n + 1 .. n + k
  OBVIOUS
<1>6. ASSUME NEW j \in n + 1 .. n + k
      PROVE  /\ out'[j] = <<piece, d + (j - n)>> /\ out'[j][1] = piece /\ out'[j][2] = d + (j - n)
             /\ d + (j - n) \in 1 .. m /\ d < d + (j - n) /\ d + (j - n) <= d + k
  <2>1. out'[j] = <<piece, d + (j - n)>>
    BY <1>2
  <2>2. j - n \in Nat /\ 1 <= j - n /\ j - n <= k
    OBVIOUS
  <2> PICK i \in Nat : i = j - n
    BY <2>2
  <2>3. d + i \in 1 .. m /\ d < d + i /\ d + i <= d + k
    BY <1>0, <1>4, <2>2, NextPlaces, ZenonT(30)
  <2> QED
    BY <2>1, <2>3
<1>7. SerialType'
  <2>1. out' \in Seq(Nat \X Nat) /\ remaining' \in Seq(Nat \X Nat)
    BY DEF Takes
  <2> QED
    BY <1>1, <2>1 DEF SerialInv, SerialType
<1>8. RestInv'
  <2>1. piece >= 1 /\ Len(remaining') <= m
    <3>1. r - k <= m
      BY <1>4
    <3> QED
      BY <1>11, <3>1
  <2>2. ASSUME NEW i \in 1 .. Len(remaining')
        PROVE  remaining'[i] = <<piece, d + k + i>>
    <3>1. i \in 1 .. r - k /\ k + i \in 1 .. r
      BY <1>4, <1>11
    <3>2. remaining'[i] = remaining[k + i]
      BY <3>1 DEF Takes
    <3>3. remaining[k + i] = <<piece, d + (k + i)>>
      BY <1>4, <3>1, ZenonT(30) DEF SerialInv, RestInv
    <3>4. d + (k + i) = d + k + i
      BY <1>4, <3>1
    <3> QED
      BY <3>2, <3>3, <3>4
  <2>3. \A j \in 1 .. Len(out') : out'[j][1] = piece => out'[j][2] <= d + k
    <3> SUFFICES ASSUME NEW j \in 1 .. n + k, out'[j][1] = piece PROVE out'[j][2] <= d + k
      BY <1>11
    <3>1. CASE j \in 1 .. n
      <4>1. out[j] \in Nat \X Nat
        BY <1>2, <1>3, <3>1, HoldsElements, ZenonT(30)
      <4>2. out'[j] = out[j] /\ out[j][2] <= d
        BY <1>2, <3>1
      <4> PICK b \in Nat : b = out[j][2]
        BY <4>1
      <4>3. b <= d + k
        BY <1>0, <1>4, <4>2, NextPlaces, ZenonT(30)
      <4> QED
        BY <4>2, <4>3
    <3>2. CASE j \in n + 1 .. n + k
      BY <1>6, <3>2
    <3> QED
      BY <1>5, <3>1, <3>2
  <2>4. \A i \in 1 .. d + k : Gone(<<piece, i>>)'
    BY <1>2
  <2>5. message'[piece'] - Len(remaining') = d + k
    BY <1>2
  <2> QED
    BY <1>1, <2>1, <2>2, <2>3, <2>4, <2>5, ZenonT(30) DEF RestInv
<1>9. PieceInv'
  <2>1. ASSUME NEW j \in 1 .. n + k
        PROVE  out'[j][1] \in 1 .. piece /\ out'[j][2] \in 1 .. message[out'[j][1]]
    <3>1. CASE j \in 1 .. n
      BY <1>2, <3>1
    <3>2. CASE j \in n + 1 .. n + k
      <4>1. piece \in 1 .. piece
        BY <1>3
      <4> QED
        BY <1>6, <3>2, <4>1, ZenonT(30)
    <3> QED
      BY <1>5, <3>1, <3>2
  <2>2. ASSUME ~gave_up, NEW p \in 1 .. piece, remaining' = << >> \/ p < piece, NEW i \in 1 .. message[p]
        PROVE  Gone(<<p, i>>)'
    <3>1. CASE p < piece
      BY <1>2, <2>2, <3>1 DEF SerialInv, PieceInv
    <3>2. CASE p = piece /\ remaining' = << >>
      <4>1. Len(remaining') = 0
        BY <3>2
      <4>2. i \in 1 .. d + k
        <5>1. r - k = 0
          BY <1>11, <4>1
        <5>2. m = d + k
          BY <1>4, <5>1
        <5> QED
          BY <3>2, <5>2
      <4> QED
        BY <1>1, <1>2, <3>2, <4>2
    <3> QED
      BY <1>3, <2>2, <3>1, <3>2
  <2>3. \A j \in 1 .. Len(out') : out'[j][1] \in 1 .. piece' /\ out'[j][2] \in 1 .. message'[out'[j][1]]
    BY <1>1, <1>11, <2>1
  <2>4. ~gave_up' => \A p \in 1 .. piece' : remaining' = << >> \/ p < piece' =>
                       \A i \in 1 .. message'[p] : Gone(<<p, i>>)'
    BY <1>1, <2>2
  <2> QED
    BY <2>3, <2>4 DEF PieceInv
<1>10. OrderInv'
  <2>1. ASSUME NEW i \in 1 .. n + k, NEW j \in 1 .. n + k, i < j
        PROVE  S!Before(out'[i], out'[j])
    <3>1. CASE i \in 1 .. n /\ j \in 1 .. n
      <4>1. S!Before(out[i], out[j])
        BY <1>2, <2>1, <3>1 DEF SerialInv, OrderInv
      <4> QED
        BY <1>2, <3>1, <4>1
    <3>2. CASE i \in 1 .. n /\ j \in n + 1 .. n + k
      <4>0. out[i] \in Nat \X Nat
        BY <1>2, <1>3, <3>2, HoldsElements, ZenonT(30)
      <4>1. out'[i] = out[i] /\ out[i][1] \in 1 .. piece /\ (out[i][1] = piece => out[i][2] <= d)
        BY <1>2, <3>2
      <4>2. out'[j][1] = piece /\ out'[j][2] = d + (j - n) /\ d < d + (j - n)
        BY <1>6, <3>2
      <4> PICK a \in Nat, b \in Nat : a = out[i][1] /\ b = out[i][2]
        BY <4>0
      <4> PICK c \in Nat : c = d + (j - n) /\ d < c
        BY <1>6, <3>2
      <4>4. a <= p0 /\ (a = p0 => b <= d)
        <5>1. a \in 1 .. p0
          BY <4>1, ZenonT(30)
        <5>2. a = p0 => b <= d
          BY <4>1, ZenonT(30)
        <5> QED BY <5>1, <5>2
      <4>3. a < p0 \/ (a = p0 /\ b < c)
        BY ONLY <4>4, d < c, SMTT(30)
      <4> QED
        BY <4>1, <4>2, <4>3 DEF S!Before
    <3>3. CASE i \in n + 1 .. n + k /\ j \in n + 1 .. n + k
      <4>1. d + (i - n) < d + (j - n)
        BY <2>1, <3>3
      <4> QED
        <5>1. /\ out'[i][1] = piece /\ out'[i][2] = d + (i - n)
              /\ out'[j][1] = piece /\ out'[j][2] = d + (j - n)
          BY <1>6, <3>3
        <5> QED
          BY <4>1, <5>1 DEF S!Before
    <3>4. ~(i \in n + 1 .. n + k /\ j \in 1 .. n)
      BY <2>1
    <3> QED
      BY <1>5, <3>1, <3>2, <3>3, <3>4
  <2>2. ASSUME NEW j \in 1 .. n + k, out'[j][2] > 1
        PROVE  Gone(<<out[j][1], out[j][2] - 1>>)'
    <3>1. CASE j \in 1 .. n
      <4>1. out'[j] = out[j]
        BY <1>2, <3>1
      <4>2. Gone(<<out[j][1], out[j][2] - 1>>)
        BY <1>2, <2>2, <3>1, <4>1 DEF SerialInv, OrderInv
      <4>3. \E i \in 1 .. Len(out') : out'[i] = <<out[j][1], out[j][2] - 1>>
        <5> PICK b : b = <<out[j][1], out[j][2] - 1>>
          BY ZenonT(30)
        <5>1. Gone(b)'
          BY <1>2, <4>2
        <5> QED
          BY <5>1 DEF Gone
      <4> QED
        BY <4>1, <4>3 DEF Gone
    <3>2. CASE j \in n + 1 .. n + k
      <4> PICK i \in Nat : i = d + (j - n) /\ i <= d + k
        BY <1>6, <3>2
      <4>1. out'[j][1] = piece /\ out'[j][2] = i /\ i > 1
        BY <1>6, <2>2, <3>2
      <4>2. i - 1 \in 1 .. d + k
        <5>1. i > 1 /\ i <= d + k
          BY <4>1
        <5> QED
          BY <1>0, <1>4, <5>1, NextPlaces, ZenonT(30)
      <4>3. Gone(<<piece, i - 1>>)'
        BY <1>2, <4>2
      <4> QED
        BY <1>1, <4>1, <4>3 DEF Gone
    <3> QED
      BY <1>5, <3>1, <3>2
  <2> QED
    BY <1>11, <2>1, <2>2 DEF OrderInv, S!Before
<1> QED
  BY <1>7, <1>8, <1>9, <1>10 DEF SerialInv

\* A fresh message has nothing out and nothing remaining.
LEMMA FreshMessage ==
  ASSUME message \in Seq(Nat), piece = 0, remaining = << >>, out = << >>, gave_up = FALSE,
         SERIAL1 \in BOOLEAN, serial_pc \in {"init", "idle", "send"},
         serial_pc = "init" => message = << >>,
         serial_pc = "idle" => ~SERIAL1 \/ message = << >>
  PROVE  SerialInv
<1>1. SerialType
  <2>1. 0 \in 0 .. Len(message) /\ << >> \in Seq(Nat \X Nat) /\ (message = << >> => Len(message) = 0)
    OBVIOUS
  <2> QED
    BY <2>1, ZenonT(30) DEF SerialType
<1>2. Len(out) = 0
  OBVIOUS
<1>3. RestInv /\ PieceInv /\ OrderInv
  BY <1>2 DEF RestInv, PieceInv, OrderInv
<1> QED
  BY <1>1, <1>3 DEF SerialInv

\* A step that gives the UART nothing and leaves the message alone keeps the rest.
LEMMA OutKept ==
  ASSUME SerialInv, SerialType', UNCHANGED <<message, piece, out>>,
         remaining' = remaining \/ remaining' = << >>, gave_up' \/ UNCHANGED <<gave_up, remaining>>
  PROVE  SerialInv'
<1>1. message' = message /\ piece' = piece /\ out' = out
  OBVIOUS
<1>2. \A byte : Gone(byte) => Gone(byte)'
  BY <1>1 DEF Gone
<1>3. RestInv'
  <2>1. CASE remaining' = << >>
    BY <2>1 DEF RestInv
  <2>2. CASE remaining' = remaining
    BY <1>1, <1>2, <2>2 DEF SerialInv, RestInv
  <2> QED
    BY <2>1, <2>2
<1>4. PieceInv'
  <2>1. \A j \in 1 .. Len(out') : out'[j][1] \in 1 .. piece' /\ out'[j][2] \in 1 .. message'[out'[j][1]]
    BY <1>1 DEF SerialInv, PieceInv
  <2>2. CASE gave_up'
    BY <2>1, <2>2 DEF PieceInv
  <2>3. CASE UNCHANGED <<gave_up, remaining>>
    <3>1. ~gave_up' => \A p \in 1 .. piece' : remaining' = << >> \/ p < piece' =>
                         \A i \in 1 .. message'[p] : Gone(<<p, i>>)'
      BY <1>1, <1>2, <2>3 DEF SerialInv, PieceInv
    <3> QED
      BY <2>1, <3>1 DEF PieceInv
  <2> QED
    BY <2>2, <2>3
<1>5. OrderInv'
  <2>1. \A j, k \in 1 .. Len(out') : j < k => S!Before(out'[j], out'[k])
    BY <1>1 DEF SerialInv, OrderInv
  <2>2. \A j \in 1 .. Len(out') : out'[j][2] > 1 => Gone(<<out[j][1], out[j][2] - 1>>)'
    BY <1>1, <1>2 DEF SerialInv, OrderInv
  <2> QED
    BY <2>1, <2>2 DEF OrderInv, S!Before
<1> QED
  BY <1>3, <1>4, <1>5 DEF SerialInv

\* serial::init keeps the message there is: none.
LEMMA SerialInitStep ==
  ASSUME SerialInv, S!init
  PROVE  SerialInv'
<1>1. /\ SERIAL1' \in BOOLEAN /\ serial_pc' = "idle" /\ serial_pc = "init"
      /\ UNCHANGED <<message, piece, remaining, out, gave_up>>
  BY DEF S!init
<1>2. SerialType'
  <2>1. message = << >> /\ remaining = << >> /\ piece = 0 /\ Len(message) = 0
    BY <1>1 DEF SerialInv, SerialType
  <2> QED
    BY <1>1, <2>1 DEF SerialInv, SerialType
<1> QED
  BY <1>1, <1>2, OutKept

\* _print starts a message.
LEMMA PrintStep ==
  ASSUME SerialInv, NEW m \in Seq(Nat), S!print(m)
  PROVE  SerialInv'
<1>1. /\ message' = m /\ out' = << >> /\ gave_up' = FALSE /\ piece' = 0 /\ remaining' = << >>
      /\ serial_pc' = IF SERIAL1 THEN "send" ELSE "idle"
      /\ SERIAL1' = SERIAL1 /\ SERIAL1 \in BOOLEAN
  BY DEF S!print, SerialInv, SerialType
<1>2. SerialType'
  <2>1. 0 \in 0 .. Len(m) /\ << >> \in Seq(Nat \X Nat)
    OBVIOUS
  <2> QED
    BY <1>1, <2>1, ZenonT(30) DEF SerialType
<1>3. Len(out') = 0
  BY <1>1
<1>4. RestInv' /\ PieceInv' /\ OrderInv'
  BY <1>1, <1>3 DEF RestInv, PieceInv, OrderInv
<1> QED
  BY <1>2, <1>4 DEF SerialInv

\* Between two pieces the earlier ones are done with.
LEMMA NextPieceStep ==
  ASSUME SerialInv, S!next_piece
  PROVE  SerialInv'
<1>1. /\ serial_pc = "send" /\ remaining = << >>
      /\ SERIAL1' = SERIAL1 /\ message' = message /\ out' = out /\ gave_up' = gave_up
  BY DEF S!next_piece
<1>2. /\ message \in Seq(Nat) /\ piece \in 0 .. Len(message) /\ out \in Seq(Nat \X Nat)
  BY DEF SerialInv, SerialType
<1>3. CASE piece = Len(message)
  <2>1. serial_pc' = "idle" /\ UNCHANGED <<piece, remaining>>
    BY <1>3 DEF S!next_piece
  <2>2. SerialType'
    BY <1>1, <1>3, <2>1 DEF SerialInv, SerialType
  <2> QED
    BY <1>1, <2>1, <2>2, OutKept
<1>4. CASE piece # Len(message)
  <2>1. serial_pc' = serial_pc /\ piece' = piece + 1 /\ remaining' = S!Bytes(piece', message[piece'])
    BY <1>4 DEF S!next_piece
  <2> PICK p \in Nat : p = piece + 1 /\ p \in 1 .. Len(message)
    BY <1>2, <1>4
  <2> PICK m \in Nat : m = message[p]
    BY <1>2
  <2>2. piece' = p /\ remaining' = [i \in 1 .. m |-> <<p, i>>]
    BY <2>1 DEF S!Bytes
  <2>3. /\ remaining' \in Seq(Nat \X Nat) /\ Len(remaining') = m
        /\ \A i \in 1 .. m : remaining'[i] = <<p, i>>
    BY <2>2
  <2>4. SerialType'
    <3>1. p \in 0 .. Len(message)
      OBVIOUS
    <3> QED
      BY <1>1, <1>2, <2>1, <2>2, <2>3, <3>1 DEF SerialInv, SerialType
  <2>5. ASSUME NEW j \in 1 .. Len(out)
        PROVE  /\ out[j][1] \in 1 .. p /\ out[j][1] # p /\ out[j][2] \in 1 .. message[out[j][1]]
    <3>1. out[j][1] \in 1 .. piece /\ out[j][2] \in 1 .. message[out[j][1]]
      BY DEF SerialInv, PieceInv
    <3>2. out[j][1] \in 1 .. p /\ out[j][1] # p
      <4> PICK b \in Nat : b = piece
        BY <1>2
      <4> PICK a \in 1 .. b : a = out[j][1]
        BY <3>1
      <4>1. a \in 1 .. b + 1 /\ a # b + 1
        OBVIOUS
      <4> QED
        BY <4>1
    <3> QED
      BY <3>1, <3>2
  <2>6. RestInv'
    <3>1. m - m = 0 /\ \A i \in 1 .. m : m - m + i = i
      OBVIOUS
    <3>2. p >= 1 /\ Len(remaining') <= message'[piece'] /\ message'[piece'] - Len(remaining') = 0
      BY <1>1, <2>2, <2>3, <3>1
    <3>3. \A i \in 1 .. Len(remaining') :
            remaining'[i] = <<piece', message'[piece'] - Len(remaining') + i>>
      BY <1>1, <2>2, <2>3, <3>1
    <3>4. \A i \in 1 .. message'[piece'] - Len(remaining') : Gone(<<piece, i>>)'
      BY <3>2
    <3>5. \A j \in 1 .. Len(out') :
            out'[j][1] = piece' => out'[j][2] <= message'[piece'] - Len(remaining')
      BY <1>1, <2>2, <2>5
    <3> QED
      BY <2>2, <3>2, <3>3, <3>4, <3>5 DEF RestInv
  <2>7. PieceInv'
    <3>1. \A j \in 1 .. Len(out') : out'[j][1] \in 1 .. piece' /\ out'[j][2] \in 1 .. message'[out'[j][1]]
      BY <1>1, <2>2, <2>5
    <3>2. ASSUME ~gave_up, NEW q \in 1 .. p, remaining' = << >> \/ q < p, NEW i \in 1 .. message[q]
          PROVE  Gone(<<q, i>>)
      <4>1. CASE q \in 1 .. piece
        BY <1>1, <3>2, <4>1 DEF SerialInv, PieceInv
      <4>2. CASE q \notin 1 .. piece
        <5>1. q = p
          BY <1>2, <4>2
        <5>2. Len(remaining') = 0
          BY <3>2, <5>1
        <5>3. m = 0
          BY <2>3, <5>2
        <5> QED
          BY <5>1, <5>3
      <4> QED
        BY <4>1, <4>2
    <3>3. \A byte : Gone(byte) => Gone(byte)'
      BY <1>1 DEF Gone
    <3>4. ~gave_up' => \A q \in 1 .. piece' : remaining' = << >> \/ q < piece' =>
                         \A i \in 1 .. message'[q] : Gone(<<q, i>>)'
      BY <1>1, <2>2, <3>2, <3>3
    <3> QED
      BY <3>1, <3>4 DEF PieceInv
  <2>8. OrderInv'
    BY <1>1 DEF SerialInv, OrderInv, Gone, S!Before
  <2> QED
    BY <2>4, <2>6, <2>7, <2>8 DEF SerialInv
<1> QED
  BY <1>3, <1>4

\* A poll of the UART keeps the output a part of the message.
LEMMA SendStep ==
  ASSUME SerialInv, S!send
  PROVE  SerialInv'
<1>1. serial_pc = "send" /\ remaining # << >> /\ UNCHANGED <<SERIAL1, serial_pc, message, piece>>
  BY SendOutcome DEF SerialInv
<1>2. CASE remaining' = << >> /\ gave_up' = TRUE /\ out' = out
  <2>1. SerialType'
    <3>1. << >> \in Seq(Nat \X Nat)
      OBVIOUS
    <3> QED
      BY <1>1, <1>2, <3>1 DEF SerialInv, SerialType
  <2> QED
    BY <1>1, <1>2, <2>1, OutKept
<1>3. CASE UNCHANGED <<remaining, out, gave_up>>
  <2>1. SerialType'
    BY <1>1, <1>3 DEF SerialInv, SerialType
  <2> QED
    BY <1>1, <1>3, <2>1, OutKept
<1>4. ASSUME gave_up' = gave_up, NEW k \in 1 .. Len(remaining), Takes(k)
      PROVE  SerialInv'
  BY <1>1, <1>4, TakesStep
<1> QED
  BY <1>2, <1>3, <1>4, SendOutcome, ZenonT(30) DEF SerialInv

\* Every step keeps the invariant of the serial port.
LEMMA SerialKept ==
  ASSUME SerialInv, data \in Seq(Int), [CatNext]_cat_vars
  PROVE  SerialInv'
<1>1. CASE UNCHANGED serial_vars
  <2>1. SerialType'
    BY <1>1 DEF serial_vars, SerialInv, SerialType
  <2> QED
    BY <1>1, <2>1, OutKept DEF serial_vars
<1>2. CASE serial_init
  BY <1>2, SerialInitStep DEF serial_init
<1>3. CASE echo
  <2>1. <<Len(data)>> \in Seq(Nat)
    OBVIOUS
  <2> QED
    BY <1>1, <1>3, <2>1, PrintStep, ZenonT(30) DEF echo
<1>4. CASE cat_prints
  <2>1. PICK m \in Output : S!print(m)
    BY <1>4 DEF cat_prints
  <2>2. Len(data) \in Nat
    OBVIOUS
  <2>3. m \in Seq(Nat)
    <3> PICK n \in Nat : n = Len(data)
      BY <2>2
    <3>1. /\ <<0, 1>> \in Seq(Nat) /\ <<n>> \in Seq(Nat) /\ <<n, 1>> \in Seq(Nat)
          /\ <<1, 1, 1>> \in Seq(Nat) /\ <<1>> \in Seq(Nat)
      OBVIOUS
    <3>2. m \in {<<0, 1>>, <<n>>, <<n, 1>>, <<1, 1, 1>>, <<1>>}
      BY DEF Output, Complaint
    <3> QED
      BY <3>1, <3>2, ZenonT(30)
  <2> QED
    BY <2>1, <2>3, PrintStep
<1>5. CASE SerialStep
  BY <1>5, NextPieceStep, SendStep DEF SerialStep, S!Sending
<1>6. CASE build \/ self_test \/ self_tested \/ DiskStep \/ DriveStep \/ cat_returns
           \/ (\E name \in Names : cmd_cat(name)) \/ Panicked \/ UNCHANGED cat_vars
  BY <1>1, <1>6 DEF build, self_test, self_tested, DiskStep, DriveStep, cat_returns, cmd_cat, Panicked, cat_vars
<1> QED
  BY <1>2, <1>3, <1>4, <1>5, <1>6 DEF CatNext, Running, BootStep

\* Before serial::init there is no message.
LEMMA SerialStart == ASSUME CatInit PROVE SerialInv
<1>1. << >> \in Seq(Nat)
  OBVIOUS
<1> QED
  BY <1>1, FreshMessage, ZenonT(30) DEF CatInit, S!Init

\* The invariant gives OutputIsTheMessage.
LEMMA OutputFromInv ==
  ASSUME SerialInv
  PROVE  OutputIsTheMessage
<1>1. message \in Seq(Nat) /\ piece \in 0 .. Len(message)
  BY DEF SerialInv, SerialType
<1>2. \A j \in 1 .. Len(out) : out[j][1] \in 1 .. Len(message) /\ out[j][2] \in 1 .. message[out[j][1]]
  <2> SUFFICES ASSUME NEW j \in 1 .. Len(out)
               PROVE  out[j][1] \in 1 .. Len(message) /\ out[j][2] \in 1 .. message[out[j][1]]
    OBVIOUS
  <2>1. out[j][1] \in 1 .. piece /\ out[j][2] \in 1 .. message[out[j][1]]
    BY DEF SerialInv, PieceInv
  <2> QED
    BY <1>1, <2>1
<1>3. ASSUME serial_pc = "idle", SERIAL1, ~gave_up, NEW p \in 1 .. Len(message), NEW i \in 1 .. message[p]
      PROVE  Gone(<<p, i>>)
  <2>1. piece = Len(message) /\ remaining = << >>
    BY <1>3 DEF SerialInv, SerialType
  <2> QED
    BY <1>3, <2>1 DEF SerialInv, PieceInv
<1>4. \A byte : Gone(byte) <=> S!Sent(byte)
  BY DEF Gone, S!Sent
<1> QED
  BY <1>2, <1>3, <1>4 DEF SerialInv, OrderInv, OutputIsTheMessage, S!OutputIsTheMessage

(***************************************************************************)
(* Whatever the UART answers, the bytes of a print go out in order, none   *)
(* twice, of each piece a prefix, and all of them unless it refused some.  *)
(***************************************************************************)
THEOREM PrintsAreFaithful == CatSpec => []OutputIsTheMessage
<1>1. CatInit => DiskInv /\ SerialInv
  BY SerialStart, DiskStart
<1>2. DiskInv /\ SerialInv /\ [CatNext]_cat_vars => DiskInv' /\ SerialInv'
  BY DiskStepKept, SerialKept DEF DiskInv, IoType
<1>3. SerialInv => OutputIsTheMessage
  BY OutputFromInv
<1> QED
  BY <1>1, <1>2, <1>3, PTL DEF CatSpec
-----------------------------------------------------------------------------
(***************************************************************************)
(* What the kernel has still to do.                                        *)
(***************************************************************************)

\* Waits are within their limits, and what runs goes with the phase.
FlowInv ==
  /\ command \in {"build", "boot", "test", "echo", "read", "print", "prompt"}
  /\ spins \in Nat /\ spins < SPIN_LIMIT
  /\ serial_spins \in Nat /\ serial_spins <= TRANSMIT_SPIN_LIMIT
  /\ serial_pc = "send" => command = "print"
  /\ command \in {"print", "prompt"} => pc = "idle"
  /\ command \notin {"build", "boot"} => call = "file" /\ serial_pc # "init"

\* Polls are counted from zero up to the limit.
LEMMA SpinsKept ==
  ASSUME FlowInv, Kernel \/ Drive \/ (\E name : read_file(name)) \/ UNCHANGED spins
  PROVE  spins' \in Nat /\ spins' < SPIN_LIMIT
<1>1. spins \in Nat /\ spins < SPIN_LIMIT /\ SPIN_LIMIT \in Nat /\ 0 < SPIN_LIMIT
  BY DiskAssumption DEF FlowInv
<1>2. ASSUME spins' = spins \/ spins' = 0 \/ (spins' = spins + 1 /\ spins + 1 < SPIN_LIMIT)
      PROVE  spins' \in Nat /\ spins' < SPIN_LIMIT
  BY ONLY <1>1, <1>2, SMTT(30)
<1>3. CASE poll_bsy \/ poll_drq
  BY <1>2, <1>3 DEF poll_bsy, poll_drq, Spin, Return, io_vars
<1>4. CASE transfer
  BY <1>2, <1>4 DEF transfer, Return
<1>5. CASE mount \/ mount_superblock \/ mount_directory
  BY <1>2, <1>5 DEF mount, mount_superblock, mount_directory, read_lba, io_vars
<1>6. CASE Drive
  BY <1>2, <1>6 DEF Drive, drive_answers, drive_fails, io_vars
<1>7. ASSUME NEW name, read_file(name) PROVE spins' = spins \/ spins' = 0
  BY <1>7 DEF read_file, read_lba, io_vars
<1> QED
  BY <1>2, <1>3, <1>4, <1>5, <1>6, <1>7 DEF Kernel

\* So are the UART's.
LEMMA SerialSpinsKept ==
  ASSUME FlowInv, S!Sending \/ S!init \/ (\E m : S!print(m)) \/ UNCHANGED serial_spins
  PROVE  serial_spins' \in Nat /\ serial_spins' <= TRANSMIT_SPIN_LIMIT
<1>1. /\ serial_spins \in Nat /\ serial_spins <= TRANSMIT_SPIN_LIMIT /\ TRANSMIT_SPIN_LIMIT \in Nat
  BY SerialAssumption DEF FlowInv
<1>2. ASSUME \/ serial_spins' = serial_spins \/ serial_spins' = 0
             \/ serial_spins' = serial_spins + 1 /\ ~(serial_spins + 1 > TRANSMIT_SPIN_LIMIT)
      PROVE  serial_spins' \in Nat /\ serial_spins' <= TRANSMIT_SPIN_LIMIT
  BY ONLY <1>1, <1>2, SMTT(30)
<1>3. CASE S!next_piece
  BY <1>2, <1>3 DEF S!next_piece
<1>4. CASE S!send
  BY <1>2, <1>4 DEF S!send, S!Ready, S!NoCapacity, S!RemoteNotClearToSend, S!Abandon
<1>5. CASE S!init
  BY <1>2, <1>5 DEF S!init
<1>6. CASE \E m : S!print(m)
  BY <1>2, <1>6 DEF S!print
<1> QED
  BY <1>2, <1>3, <1>4, <1>5, <1>6 DEF S!Sending

\* At the start nothing has been counted.
LEMMA FlowStart == ASSUME CatInit PROVE FlowInv
<1>1. 0 \in Nat /\ 0 < SPIN_LIMIT /\ 0 <= TRANSMIT_SPIN_LIMIT
  BY DiskAssumption, SerialAssumption
<1> QED
  BY <1>1 DEF CatInit, DiskInit, S!Init, FlowInv

\* The phases follow each other.
LEMMA FlowKept ==
  ASSUME IoType, BuildInv, SerialType, FlowInv, [CatNext]_cat_vars
  PROVE  FlowInv'
<1>0. /\ command \in {"build", "boot", "test", "echo", "read", "print", "prompt"}
      /\ serial_pc = "send" => command = "print"
      /\ command \in {"print", "prompt"} => pc = "idle"
      /\ command \notin {"build", "boot"} => call = "file" /\ serial_pc # "init"
  BY DEF FlowInv
<1>1. CASE UNCHANGED cat_vars
  BY <1>1 DEF cat_vars, disk_vars, serial_vars, io_vars, FlowInv
<1>2. ASSUME UNCHANGED serial_spins PROVE serial_spins' \in Nat /\ serial_spins' <= TRANSMIT_SPIN_LIMIT
  BY <1>2, SerialSpinsKept
<1>3. ASSUME UNCHANGED spins PROVE spins' \in Nat /\ spins' < SPIN_LIMIT
  BY <1>3, SpinsKept
<1>4. CASE build
  BY <1>0, <1>2, <1>3, <1>4 DEF build, device_vars, serial_vars, io_vars, BuildInv, FlowInv
<1>5. CASE serial_init
  <2>1. serial_spins' = serial_spins /\ serial_pc' = "idle" /\ UNCHANGED <<command, call, pc, spins>>
    BY <1>5 DEF serial_init, S!init, disk_vars, io_vars
  <2> QED
    BY <1>0, <1>2, <1>3, <2>1 DEF FlowInv
<1>6. CASE DriveStep
  <2>1. UNCHANGED <<spins, serial_spins, serial_pc, command, call, pc>>
    BY <1>6 DEF DriveStep, Drive, drive_answers, drive_fails, serial_vars, io_vars
  <2> QED
    BY <1>0, <1>2, <1>3, <2>1 DEF FlowInv
<1>7. CASE DiskStep
  <2>1. UNCHANGED <<serial_spins, serial_pc, command>> /\ serial_pc = "idle" /\ Kernel
    BY <1>7 DEF DiskStep, serial_vars
  <2>2. spins' \in Nat /\ spins' < SPIN_LIMIT
    BY <2>1, SpinsKept
  <2>3. command # "build"
    BY <2>1 DEF BuildInv
  <2>4. CASE command = "boot"
    BY <1>2, <2>1, <2>2, <2>4 DEF FlowInv
  <2>5. CASE call = "file" /\ command \notin {"build", "boot"}
    <3>1. poll_bsy \/ poll_drq \/ transfer
      BY <2>1, <2>5 DEF Kernel, mount, mount_superblock, mount_directory, Idle
    <3>2. pc # "idle" /\ call' = call
      BY <3>1 DEF poll_bsy, poll_drq, transfer
    <3> QED
      BY <1>0, <1>2, <2>1, <2>2, <2>5, <3>2 DEF FlowInv
  <2> QED
    BY <1>0, <2>3, <2>4, <2>5
<1>8. ASSUME NEW name, read_file(name), UNCHANGED serial_vars, serial_pc = "idle",
             command' \in {"test", "echo", "read"}
      PROVE  FlowInv'
  <2>1. call' = "file" /\ UNCHANGED <<serial_spins, serial_pc>>
    BY <1>8 DEF read_file, serial_vars
  <2>2. spins' \in Nat /\ spins' < SPIN_LIMIT
    BY <1>8, SpinsKept
  <2> QED
    BY <1>2, <1>8, <2>1, <2>2 DEF FlowInv
<1>9. CASE self_test \/ \E name \in Names : cmd_cat(name)
  BY <1>8, <1>9 DEF self_test, cmd_cat
<1>10. CASE self_tested
  <2>1. serial_pc = "idle"
    BY <1>0, <1>10 DEF self_tested, SerialType
  <2>2. CASE hello_ok
    BY <1>8, <1>10, <2>1, <2>2 DEF self_tested
  <2>3. CASE ~hello_ok
    <3>1. command = "test" /\ command' = "prompt" /\ pc = "idle" /\ UNCHANGED <<pc, call, spins, serial_pc, serial_spins>>
      BY <1>10, <2>3 DEF self_tested, disk_vars, io_vars, serial_vars
    <3> QED
      BY <1>0, <1>2, <1>3, <2>1, <3>1 DEF FlowInv
  <2> QED
    BY <2>2, <2>3
<1>11. ASSUME NEW m, S!print(m), UNCHANGED disk_vars, command \in {"echo", "read"}, command' = "print", pc = "idle"
       PROVE  FlowInv'
  <2>1. serial_pc' # "init" /\ UNCHANGED <<call, pc, spins>>
    BY <1>11 DEF S!print, disk_vars, io_vars
  <2>2. serial_spins' \in Nat /\ serial_spins' <= TRANSMIT_SPIN_LIMIT
    BY <1>11, SerialSpinsKept
  <2> QED
    BY <1>0, <1>3, <1>11, <2>1, <2>2 DEF FlowInv
<1>12. CASE echo
  <2>1. CASE result = "Ok"
    BY <1>11, <1>12, <2>1 DEF echo
  <2>2. CASE result # "Ok"
    <3>1. command = "echo" /\ command' = "prompt" /\ pc = "idle" /\ UNCHANGED <<pc, call, spins, serial_pc, serial_spins>>
      BY <1>12, <2>2 DEF echo, disk_vars, io_vars, serial_vars
    <3> QED
      BY <1>0, <1>2, <1>3, <3>1 DEF FlowInv
  <2> QED
    BY <2>1, <2>2
<1>13. CASE cat_prints
  BY <1>11, <1>13 DEF cat_prints
<1>14. CASE SerialStep
  <2>1. UNCHANGED <<command, call, pc, spins>> /\ S!Sending
    BY <1>14 DEF SerialStep, disk_vars, io_vars
  <2>2. serial_pc = "send" /\ serial_pc' \in {"send", "idle"}
    BY <2>1 DEF S!Sending, S!next_piece, S!send
  <2>3. serial_spins' \in Nat /\ serial_spins' <= TRANSMIT_SPIN_LIMIT
    BY <2>1, SerialSpinsKept
  <2> QED
    BY <1>0, <1>3, <2>1, <2>2, <2>3 DEF FlowInv
<1>15. CASE cat_returns
  <2>1. /\ command = "print" /\ command' = "prompt" /\ serial_pc = "idle"
        /\ UNCHANGED <<pc, call, spins, serial_pc, serial_spins>>
    BY <1>15 DEF cat_returns, disk_vars, io_vars, serial_vars
  <2> QED
    BY <1>0, <1>2, <1>3, <2>1 DEF FlowInv
<1>16. CASE Panicked
  BY <1>1, <1>16 DEF Panicked
<1> QED
  BY <1>1, <1>4, <1>5, <1>6, <1>7, <1>9, <1>10, <1>12, <1>13, <1>14, <1>15, <1>16 DEF CatNext, Running, BootStep

\* Triples are compared from the left.
LEMMA BelowIs ==
  ASSUME NEW a \in Int, NEW b \in Int, NEW c \in Int, NEW d \in Int, NEW e \in Int, NEW f \in Int,
         \/ 0 <= a /\ a < d
         \/ a = d /\ 0 <= b /\ b < e
         \/ a = d /\ b = e /\ 0 <= c /\ c < f
  PROVE  Below(<<a, b, c>>, <<d, e, f>>)
<1> DEFINE x == <<a, b, c>>
           y == <<d, e, f>>
<1>1. x[1] = a /\ x[2] = b /\ x[3] = c /\ y[1] = d /\ y[2] = e /\ y[3] = f
  OBVIOUS
<1> HIDE DEF x, y
<1>2. \E i \in 1 .. 3 : 0 <= x[i] /\ x[i] < y[i] /\ \A j \in 1 .. i - 1 : x[j] = y[j]
  <2>1. CASE 0 <= a /\ a < d
    BY <1>1, <2>1
  <2>2. CASE a = d /\ 0 <= b /\ b < e
    BY <1>1, <2>2
  <2>3. CASE a = d /\ b = e /\ 0 <= c /\ c < f
    BY <1>1, <2>3
  <2> QED
    BY <2>1, <2>2, <2>3
<1> QED
  BY <1>2 DEF Below, x, y

\* Each poll and each transfer brings a read closer to its end.
LEMMA DriverWorks ==
  ASSUME IoType, TransferInv, FlowInv, poll_bsy \/ poll_drq \/ transfer
  PROVE  Below(DiskWork', DiskWork)
<1>0. count \in Nat /\ Len(data) \in Nat /\ spins \in Nat /\ SPIN_LIMIT \in Nat /\ spins < SPIN_LIMIT
  BY DiskAssumption DEF IoType, FlowInv
<1> PICK n \in Nat, d \in Nat, s \in Nat, l \in Nat :
      n = count /\ d = Len(data) /\ s = spins /\ l = SPIN_LIMIT /\ s < l
  BY <1>0, ZenonT(30)
<1>1. /\ pc = "wait_bsy" => DiskWork = <<n - d, 2, l - s>> /\ (n - d = 0 \/ n - d >= 1)
      /\ pc = "wait_drq" => DiskWork = <<n - d, 1, l - s>> /\ n - d >= 1
      /\ pc = "transfer" => DiskWork = <<n - d, 0, l - s>> /\ n - d >= 1
  <2>1. pc = "wait_bsy" => n - d = 0 \/ n - d >= 1
    <3> HAVE pc = "wait_bsy"
    <3>1. d = 0
      BY DEF TransferInv
    <3> QED BY <3>1
  <2>2. pc \in {"wait_drq", "transfer"} => n - d >= 1
    BY DEF TransferInv
  <2> QED
    BY <2>1, <2>2 DEF DiskWork
<1>2. CASE pc' = "idle"
  <2>1. DiskWork' = <<0, 0, 0>>
    BY <1>2 DEF DiskWork
  <2>2. pc \in {"wait_bsy", "wait_drq", "transfer"}
    BY DEF poll_bsy, poll_drq, transfer
  <2> QED
    BY <1>1, <2>1, <2>2, BelowIs
<1>3. CASE spins' = spins + 1 /\ spins + 1 < SPIN_LIMIT /\ UNCHANGED <<pc, count, data>> /\ pc \in {"wait_bsy", "wait_drq"}
  <2>1. DiskWork' = <<n - d, IF pc = "wait_bsy" THEN 2 ELSE 1, l - (s + 1)>>
    BY <1>3 DEF DiskWork
  <2>2. 0 <= l - (s + 1) /\ l - (s + 1) < l - s
    BY <1>3
  <2> QED
    BY <1>1, <1>3, <2>1, <2>2, BelowIs
<1>4. CASE pc = "wait_bsy" /\ pc' = "wait_drq" /\ spins' = 0 /\ UNCHANGED <<count, data>>
  <2>1. DiskWork' = <<n - d, 1, l - 0>>
    BY <1>4 DEF DiskWork
  <2> QED
    BY <1>1, <1>4, <2>1, BelowIs
<1>5. CASE pc = "wait_drq" /\ pc' = "transfer" /\ UNCHANGED io_vars
  <2>1. DiskWork' = <<n - d, 0, l - s>>
    BY <1>5 DEF DiskWork, io_vars
  <2> QED
    BY <1>1, <1>5, <2>1, BelowIs
<1>6. CASE transfer
  <2>1. pc = "transfer" /\ count' = count /\ (pc' = "idle" \/ (pc' = "wait_drq" /\ Len(data') = Len(data) + 1))
    BY <1>6, TransferOutcome
  <2>2. CASE pc' = "wait_drq" /\ Len(data') = Len(data) + 1
    <3>1. spins' = 0
      BY <1>6, <2>2 DEF transfer, Return
    <3>2. DiskWork' = <<n - (d + 1), 1, l - 0>>
      BY <2>1, <2>2, <3>1 DEF DiskWork
    <3>3. 0 <= n - (d + 1) /\ n - (d + 1) < n - d
      BY <1>1, <2>1
    <3>4. Below(<<n - (d + 1), 1, l - 0>>, <<n - d, 0, l - s>>)
      BY ONLY <3>3, BelowIs, SMTT(30)
    <3>5. DiskWork = <<n - d, 0, l - s>>
      BY ONLY <1>1, <2>1, SMTT(30)
    <3> QED
      BY ONLY <3>2, <3>4, <3>5, ZenonT(30)
  <2> QED
    BY <1>2, <2>1, <2>2
<1>7. CASE poll_bsy
  BY <1>2, <1>3, <1>4, <1>7 DEF poll_bsy, Spin, Return
<1>8. CASE poll_drq
  BY <1>2, <1>3, <1>5, <1>8 DEF poll_drq, Spin, Return
<1> QED
  BY <1>6, <1>7, <1>8

\* Each answer of the UART brings a print closer to its end.
LEMMA SerialWorks ==
  ASSUME SerialType, FlowInv, S!Sending
  PROVE  Below(SerialWork', SerialWork)
<1>0. serial_pc = "send" /\ message' = message
  BY DEF S!Sending, S!next_piece, S!send
<1>1. Len(message) \in Nat /\ piece \in 0 .. Len(message) /\ remaining \in Seq(Nat \X Nat)
  BY DEF SerialType
<1>6. /\ serial_spins \in Nat /\ TRANSMIT_SPIN_LIMIT \in Nat /\ serial_spins <= TRANSMIT_SPIN_LIMIT
      /\ piece \in Nat /\ piece <= Len(message) /\ Len(remaining) \in Nat
  BY <1>1, SerialAssumption DEF FlowInv
<1> PICK m \in Nat, p \in Nat, r \in Nat, s \in Nat, l \in Nat :
      /\ m = Len(message) /\ p = piece /\ p <= m /\ r = Len(remaining)
      /\ s = serial_spins /\ l = TRANSMIT_SPIN_LIMIT /\ s <= l
  BY <1>1, <1>6, ZenonT(30)
<1>2. SerialWork = <<m - p + 1, r, l - s>>
  BY <1>0 DEF SerialWork
<1>3. CASE serial_pc' = "idle"
  <2>1. SerialWork' = <<0, 0, 0>>
    BY <1>3 DEF SerialWork
  <2>2. 0 < m - p + 1
    OBVIOUS
  <2> QED
    BY <1>2, <2>1, <2>2, BelowIs
<1>4. CASE S!next_piece
  <2>1. CASE piece = Len(message)
    BY <1>3, <1>4, <2>1 DEF S!next_piece
  <2>2. CASE piece # Len(message)
    <3>1. piece' = p + 1 /\ serial_pc' = "send" /\ serial_spins' = 0
      BY <1>0, <1>4, <2>2 DEF S!next_piece
    <3>2. remaining' = S!Bytes(p + 1, message[p + 1])
      BY <1>0, <1>4, <2>2, <3>1 DEF S!next_piece
    <3>3. Len(remaining') \in Nat
      <4>1. message[p + 1] \in Nat
        BY <2>2, <1>1, HoldsElements DEF SerialType
      <4> QED
        BY <3>2, <4>1 DEF S!Bytes
    <3> PICK k \in Nat : k = Len(remaining')
      BY <3>3, ZenonT(30)
    <3>4. SerialWork' = <<m - (p + 1) + 1, k, l - 0>>
      BY <1>0, <3>1 DEF SerialWork
    <3>5. 0 <= m - (p + 1) + 1 /\ m - (p + 1) + 1 < m - p + 1
      BY <2>2
    <3>6. Below(<<m - (p + 1) + 1, k, l - 0>>, <<m - p + 1, r, l - s>>)
      BY ONLY <3>5, BelowIs, SMTT(30)
    <3> QED
      BY ONLY <1>2, <3>4, <3>6, ZenonT(30)
  <2> QED
    BY <2>1, <2>2
<1>5. CASE S!send
  <2>1. UNCHANGED <<serial_pc, piece>> /\ remaining # << >>
    BY <1>5 DEF S!send
  <2>2. ASSUME Len(remaining') \in Nat, Len(remaining') < r, serial_spins' \in Int
        PROVE  Below(SerialWork', SerialWork)
    <3> PICK k \in Nat, t \in Int : k = Len(remaining') /\ t = serial_spins'
      BY <2>2, ZenonT(30)
    <3>1. SerialWork' = <<m - p + 1, k, l - t>>
      BY <1>0, <2>1 DEF SerialWork
    <3>2. 0 <= k /\ k < r
      BY <2>2
    <3>3. Below(<<m - p + 1, k, l - t>>, <<m - p + 1, r, l - s>>)
      BY ONLY <3>2, BelowIs, SMTT(30)
    <3> QED
      BY ONLY <1>2, <3>1, <3>3, ZenonT(30)
  <2>3. r >= 1
    BY <1>1, <2>1
  <2>4. serial_spins' \in Int
    BY SerialSpinsKept
  <2>5. CASE S!Abandon
    <3>1. Len(remaining') = 0
      BY <2>5 DEF S!Abandon
    <3> QED
      BY <2>2, <2>3, <2>4, <3>1
  <2>6. CASE S!RemoteNotClearToSend
    <3>1. Len(remaining') = r - 1
      BY <1>1, <2>1, <2>6 DEF S!RemoteNotClearToSend
    <3> QED
      BY <2>2, <2>3, <2>4, <3>1
  <2>7. CASE S!Ready /\ ~S!Abandon
    <3>1. PICK sent \in 1 .. Len(remaining) : remaining' = SubSeq(remaining, sent + 1, Len(remaining))
      BY <1>1, <2>7 DEF S!Ready
    <3>2. Len(remaining') = r - sent
      BY <1>1, <3>1
    <3> QED
      BY <2>2, <2>4, <3>2
  <2>8. CASE S!NoCapacity /\ ~S!Abandon
    <3>1. serial_spins' = s + 1 /\ ~(s + 1 > l) /\ remaining' = remaining
      BY <2>8 DEF S!NoCapacity
    <3>2. SerialWork' = <<m - p + 1, r, l - (s + 1)>>
      BY <1>0, <2>1, <3>1 DEF SerialWork
    <3>3. 0 <= l - (s + 1) /\ l - (s + 1) < l - s
      BY <3>1
    <3>4. Below(<<m - p + 1, r, l - (s + 1)>>, <<m - p + 1, r, l - s>>)
      BY ONLY <3>3, BelowIs, SMTT(30)
    <3> QED
      BY ONLY <1>2, <3>2, <3>4, ZenonT(30)
  <2> QED
    BY <1>5, <2>5, <2>6, <2>7, <2>8 DEF S!send
<1> QED
  BY <1>4, <1>5 DEF S!Sending

\* What the phase depends on.
LEMMA PhaseKept ==
  ASSUME UNCHANGED <<command, serial_pc, call, image_vars>>
  PROVE  Phase' = Phase
BY DEF Phase, Packing, image_vars

\* A lower phase is less to do, whatever the rest; so is less in the same phase.
LEMMA LessWork ==
  ASSUME \/ 0 <= Phase' /\ Phase' < Phase
         \/ Phase' = Phase /\ Below(DiskWork', DiskWork)
         \/ Phase' = Phase /\ DiskWork' = DiskWork /\ Below(SerialWork', SerialWork)
  PROVE  Less(Work', Work)
<1>1. /\ Work[1] = Phase /\ Work[2] = DiskWork /\ Work[3] = SerialWork
      /\ Work'[1] = Phase' /\ Work'[2] = DiskWork' /\ Work'[3] = SerialWork'
  BY DEF Work
<1> QED
  BY <1>1 DEF Less

\* Every step of the kernel leaves less to do, but for a new command.
LEMMA LessToDo ==
  ASSUME DiskInv, SerialInv, FlowInv, CatNext
  PROVE  \/ Less(Work', Work)
         \/ UNCHANGED <<image_vars, present, fs_vars, call, pc, io_vars, entry, result,
                        serial_vars, command>>
         \/ AtPrompt /\ command' = "read"
<1>1. CASE build
  <2>1. CASE Packing
    <3> PICK n \in Nat, e \in Nat : n = Len(FILES) /\ e = Len(image.entries) /\ e < n
      BY <2>1 DEF DiskInv, PackInv, ImageType, Packing
    <3>1. command = "build" /\ command' = "build" /\ pack_file
      BY <1>1, <2>1 DEF build
    <3>2. FILES' = FILES /\ Len(image'.entries) = e + 1
      BY <3>1 DEF pack_file, DiskInv, PackInv, ImageType
    <3>3. Phase = 10 + (n - e)
      BY <2>1, <3>1 DEF Phase
    <3>4. Phase' = 10 + (IF Packing' THEN Len(FILES') - Len(image'.entries) ELSE 0)
      BY <3>1 DEF Phase
    <3> PICK x : x = Phase' /\ (x = 10 + (n - (e + 1)) \/ x = 10 + 0)
      BY <3>2, <3>4, ZenonT(30)
    <3>5. 0 <= Phase' /\ Phase' < Phase
      <4>1. 0 <= x /\ x < 10 + (n - e)
        BY ONLY e < n, x = 10 + (n - (e + 1)) \/ x = 10 + 0, SMTT(30)
      <4> QED BY <3>3, <4>1, ZenonT(30)
    <3> QED
      BY <3>5, LessWork
  <2>2. CASE ~Packing
    <3>1. command = "build" /\ command' = "boot" /\ serial_pc' = serial_pc /\ serial_pc = "init"
      BY <1>1, <2>2 DEF build, serial_vars, DiskInv, BuildInv
    <3>2. Phase = 10 /\ Phase' = 9
      BY <2>2, <3>1 DEF Phase
    <3> QED
      BY <3>2, LessWork
  <2> QED
    BY <2>1, <2>2
<1>2. ASSUME command = "boot", serial_pc # "init"
      PROVE  /\ Phase \in 5 .. 8 /\ (call = "probe" => Phase = 8)
             /\ (call = "superblock" => Phase = 7) /\ (call = "directory" => Phase = 6)
  BY <1>2 DEF Phase
<1>3. ASSUME command' = "boot", serial_pc' # "init"
      PROVE  /\ Phase' \in 5 .. 8 /\ (call' = "superblock" => Phase' = 7)
             /\ (call' = "directory" => Phase' = 6) /\ (call' = "none" => Phase' = 5)
  BY <1>3 DEF Phase
<1>4. CASE serial_init
  <2>1. command = "boot" /\ command' = "boot" /\ serial_pc = "init" /\ serial_pc' = "idle"
    BY <1>4 DEF serial_init, S!init
  <2>2. Phase = 9
    BY <2>1 DEF Phase
  <2> QED
    BY <1>3, <2>1, <2>2, LessWork
<1>5. CASE DiskStep
  <2>1. Kernel /\ serial_pc = "idle" /\ UNCHANGED <<serial_pc, command>>
    BY <1>5 DEF DiskStep, serial_vars
  <2>2. CASE poll_bsy \/ poll_drq \/ transfer
    <3>1. UNCHANGED <<call, image_vars>>
      BY <2>2 DEF poll_bsy, poll_drq, transfer, drive_vars
    <3>2. Phase' = Phase
      BY <2>1, <3>1, PhaseKept
    <3>3. Below(DiskWork', DiskWork)
      BY <2>2, DriverWorks DEF DiskInv
    <3> QED
      BY <3>2, <3>3, LessWork
  <2>3. CASE mount \/ mount_superblock \/ mount_directory
    <3>1. call \in {"probe", "superblock", "directory"}
      BY <2>3 DEF mount, mount_superblock, mount_directory, Idle
    <3>2. command = "boot"
      BY <2>1, <3>1 DEF FlowInv, DiskInv, BuildInv
    <3>3. \/ call = "probe" /\ call' = "superblock"
          \/ call = "superblock" /\ call' \in {"directory", "none"}
          \/ call = "directory" /\ call' = "none"
      BY <2>3 DEF mount, mount_superblock, mount_directory, Idle
    <3>4. 0 <= Phase' /\ Phase' < Phase
      BY <1>2, <1>3, <2>1, <3>2, <3>3
    <3> QED
      BY <3>4, LessWork
  <2> QED
    BY <2>1, <2>2, <2>3 DEF Kernel
<1>6. CASE DriveStep
  BY <1>6 DEF DriveStep, Drive, drive_answers, drive_fails
<1>7. CASE self_test
  <2>1. command = "boot" /\ command' = "test" /\ serial_pc # "init"
    BY <1>7 DEF self_test
  <2>2. Phase' = 4
    BY <2>1 DEF Phase
  <2> QED
    BY <1>2, <2>1, <2>2, LessWork
<1>8. CASE self_tested
  <2>1. command = "test" /\ command' \in {"echo", "prompt"}
    BY <1>8 DEF self_tested
  <2>2. Phase = 4 /\ Phase' \in {3, 0}
    BY <2>1 DEF Phase
  <2> QED
    BY <2>2, LessWork
<1>9. CASE echo
  <2>1. command = "echo" /\ command' \in {"print", "prompt"}
    BY <1>9 DEF echo
  <2>2. Phase = 3 /\ Phase' \in {1, 0}
    BY <2>1 DEF Phase
  <2> QED
    BY <2>2, LessWork
<1>10. CASE cat_prints
  <2>1. command = "read" /\ command' = "print"
    BY <1>10 DEF cat_prints
  <2>2. Phase = 2 /\ Phase' = 1
    BY <2>1 DEF Phase
  <2> QED
    BY <2>2, LessWork
<1>11. CASE SerialStep
  <2>1. S!Sending /\ UNCHANGED <<command, pc, io_vars>> /\ serial_pc = "send"
    BY <1>11 DEF SerialStep, disk_vars, S!Sending, S!next_piece, S!send
  <2>2. command = "print" /\ command' = "print"
    BY <2>1 DEF FlowInv
  <2>3. Phase = 1 /\ Phase' = 1
    BY <2>2 DEF Phase
  <2>4. DiskWork' = DiskWork
    BY <2>1 DEF DiskWork, io_vars
  <2>5. Below(SerialWork', SerialWork)
    BY <2>1, SerialWorks DEF SerialInv
  <2> QED
    BY <2>3, <2>4, <2>5, LessWork
<1>12. CASE cat_returns
  <2>1. command = "print" /\ command' = "prompt"
    BY <1>12 DEF cat_returns
  <2>2. Phase = 1 /\ Phase' = 0
    BY <2>1 DEF Phase
  <2> QED
    BY <2>2, LessWork
<1>13. CASE \E name \in Names : cmd_cat(name)
  BY <1>13 DEF cmd_cat, read_file, AtPrompt
<1>14. CASE Panicked
  BY <1>14 DEF Panicked, cat_vars, disk_vars, drive_vars
<1> QED
  BY <1>1, <1>4, <1>5, <1>6, <1>7, <1>8, <1>9, <1>10, <1>11, <1>12, <1>13, <1>14
     DEF CatNext, Running, BootStep

\* What Work is taken from.
Triples == Nat \X Nat \X Nat
Works == Nat \X Triples \X Triples

\* A non-empty set of naturals has a least element,
LEMMA LeastNat ==
  ASSUME NEW T, T \subseteq Nat, T # {}
  PROVE  \E m \in T : \A k \in T : ~(k < m)
<1>1. PICK m \in T : \A k \in T : ~(<<k, m>> \in OpToRel(<, Nat))
  BY WFMin, NatLessThanWellFounded, ZenonT(30)
<1> QED BY <1>1, ZenonT(30) DEF OpToRel

\* so has one of triples,
LEMMA LeastTriple ==
  ASSUME NEW T, T \subseteq Triples, T # {}
  PROVE  \E x \in T : \A y \in T : ~Below(y, x)
<1>1. \A t \in T : t[1] \in Nat /\ t[2] \in Nat /\ t[3] \in Nat
  BY DEF Triples
<1>2. PICK a \in Nat : (\E t \in T : t[1] = a) /\ \A t \in T : ~(t[1] < a)
  <2> DEFINE A == {t[1] : t \in T}
  <2>1. A \subseteq Nat /\ A # {}
    BY <1>1
  <2>2. PICK m \in A : \A k \in A : ~(k < m)
    BY <2>1, LeastNat, ZenonT(30)
  <2> QED BY <2>1, <2>2, ZenonT(30)
<1>3. PICK b \in Nat : /\ \E t \in T : t[1] = a /\ t[2] = b
                       /\ \A t \in T : t[1] = a => ~(t[2] < b)
  <2> DEFINE A == {t[2] : t \in {u \in T : u[1] = a}}
  <2>1. A \subseteq Nat /\ A # {}
    BY <1>1, <1>2
  <2>2. PICK m \in A : \A k \in A : ~(k < m)
    BY <2>1, LeastNat, ZenonT(30)
  <2> QED BY <2>1, <2>2
<1>4. PICK c \in Nat : /\ \E t \in T : t[1] = a /\ t[2] = b /\ t[3] = c
                       /\ \A t \in T : t[1] = a /\ t[2] = b => ~(t[3] < c)
  <2> DEFINE A == {t[3] : t \in {u \in T : u[1] = a /\ u[2] = b}}
  <2>1. A \subseteq Nat /\ A # {}
    BY <1>1, <1>3
  <2>2. PICK m \in A : \A k \in A : ~(k < m)
    BY <2>1, LeastNat, ZenonT(30)
  <2> QED BY <2>1, <2>2
<1>5. PICK x \in T : x[1] = a /\ x[2] = b /\ x[3] = c
  BY <1>4
<1>6. ASSUME NEW y \in T, Below(y, x) PROVE FALSE
  <2>1. PICK i \in 1 .. 3 : y[i] < x[i] /\ \A j \in 1 .. i - 1 : y[j] = x[j]
    BY <1>6 DEF Below
  <2>2. CASE i = 1
    BY <1>2, <1>5, <2>1, <2>2
  <2>3. CASE i = 2
    <3>1. y[1] = a /\ y[2] < b
      BY <1>5, <2>1, <2>3
    <3> QED BY <1>3, <3>1
  <2>4. CASE i = 3
    <3>1. y[1] = a /\ y[2] = b /\ y[3] < c
      BY <1>5, <2>1, <2>4
    <3> QED BY <1>4, <3>1
  <2> QED BY <2>2, <2>3, <2>4
<1> QED BY <1>6

(***************************************************************************)
(* There is no endless descent in what the kernel has to do: the order of  *)
(* WorkRunsOut is well founded.                                            *)
(***************************************************************************)
THEOREM WorkIsWellFounded == IsWellFoundedOn(OpToRel(Less, Works), Works)
<1>1. ASSUME NEW T \in SUBSET Works, T # {}
      PROVE  \E x \in T : \A y \in T : ~(<<y, x>> \in OpToRel(Less, Works))
  <2>1. \A t \in T : t[1] \in Nat /\ t[2] \in Triples /\ t[3] \in Triples
    BY DEF Works
  <2>2. PICK p \in Nat : (\E t \in T : t[1] = p) /\ \A t \in T : ~(t[1] < p)
    <3> DEFINE A == {t[1] : t \in T}
    <3>1. A \subseteq Nat /\ A # {}
      BY <1>1, <2>1
    <3>2. PICK m \in A : \A k \in A : ~(k < m)
      BY <3>1, LeastNat, ZenonT(30)
    <3> QED BY <3>1, <3>2, ZenonT(30)
  <2>3. PICK d \in Triples : /\ \E t \in T : t[1] = p /\ t[2] = d
                             /\ \A t \in T : t[1] = p => ~Below(t[2], d)
    <3> DEFINE A == {t[2] : t \in {u \in T : u[1] = p}}
    <3>1. A \subseteq Triples /\ A # {}
      BY <2>1, <2>2
    <3>2. PICK m \in A : \A k \in A : ~Below(k, m)
      BY <3>1, LeastTriple, ZenonT(30)
    <3> QED BY <3>1, <3>2
  <2>4. PICK s \in Triples : /\ \E t \in T : t[1] = p /\ t[2] = d /\ t[3] = s
                             /\ \A t \in T : t[1] = p /\ t[2] = d => ~Below(t[3], s)
    <3> DEFINE A == {t[3] : t \in {u \in T : u[1] = p /\ u[2] = d}}
    <3>1. A \subseteq Triples /\ A # {}
      BY <2>1, <2>3
    <3>2. PICK m \in A : \A k \in A : ~Below(k, m)
      BY <3>1, LeastTriple, ZenonT(30)
    <3> QED BY <3>1, <3>2
  <2>5. PICK x \in T : x[1] = p /\ x[2] = d /\ x[3] = s
    BY <2>4
  <2>6. ASSUME NEW y \in T, Less(y, x) PROVE FALSE
    BY <2>2, <2>3, <2>4, <2>5, <2>6 DEF Less
  <2> QED BY <2>6 DEF OpToRel
<1> QED BY <1>1, MinWF, ZenonT(30)

\* The work of a state whose waits are within their limits is finite.
LEMMA WorkIs ==
  ASSUME DiskInv, SerialInv, FlowInv
  PROVE  Work \in Works
<1>1. Phase \in Nat
  <2>1. CASE command = "build" /\ Packing
    <3> PICK n \in Nat, e \in Nat : n = Len(FILES) /\ e = Len(image.entries) /\ e < n
      BY <2>1 DEF DiskInv, PackInv, ImageType, Packing
    <3>1. Phase = 10 + (n - e)
      BY <2>1 DEF Phase
    <3> QED BY <3>1
  <2>2. CASE ~(command = "build" /\ Packing)
    BY <2>2 DEF Phase
  <2> QED BY <2>1, <2>2
<1>2. DiskWork \in Triples
  <2>1. count \in Nat /\ Len(data) \in Nat /\ spins \in Nat /\ SPIN_LIMIT \in Nat /\ spins < SPIN_LIMIT
    BY DiskAssumption DEF DiskInv, IoType, FlowInv
  <2>2. SPIN_LIMIT - spins \in Nat
    BY ONLY <2>1, SMTT(30)
  <2>3. Busy => count - Len(data) \in Nat
    <3> HAVE Busy
    <3>1. CASE pc = "wait_bsy"
      BY <2>1, <3>1 DEF DiskInv, TransferInv
    <3>2. CASE pc # "wait_bsy"
      BY <2>1, <3>2 DEF DiskInv, TransferInv, Busy
    <3> QED BY <3>1, <3>2
  <2> QED
    BY <2>2, <2>3 DEF DiskWork, Busy, Triples
<1>3. SerialWork \in Triples
  <2>1. /\ serial_spins \in Nat /\ TRANSMIT_SPIN_LIMIT \in Nat /\ serial_spins <= TRANSMIT_SPIN_LIMIT
        /\ piece \in Nat /\ piece <= Len(message) /\ Len(remaining) \in Nat /\ Len(message) \in Nat
    BY SerialAssumption DEF FlowInv, SerialInv, SerialType
  <2>2. TRANSMIT_SPIN_LIMIT - serial_spins \in Nat /\ Len(message) - piece + 1 \in Nat
    BY ONLY <2>1, SMTT(30)
  <2> QED
    BY <2>1, <2>2 DEF SerialWork, Triples
<1> QED BY <1>1, <1>2, <1>3, ZenonT(30) DEF Work, Works

\* It is, in every reachable state.
LEMMA FlowInvariance == CatSpec => [](DiskInv /\ SerialInv /\ FlowInv)
<1> DEFINE Inv == DiskInv /\ SerialInv /\ FlowInv
<1>1. CatInit => Inv
  BY SerialStart, DiskStart, FlowStart
<1>2. Inv /\ [CatNext]_cat_vars => Inv'
  BY DiskStepKept, SerialKept, FlowKept DEF DiskInv, IoType, SerialInv
<1> HIDE DEF Inv
<1>3. CatSpec => []Inv
  BY <1>1, <1>2, PTL DEF CatSpec
<1> QED
  BY <1>3 DEF Inv

(***************************************************************************)
(* In every state what is left to do is numbers of polls, sectors, pieces  *)
(* and bytes, none below zero, so that WorkIsWellFounded applies.          *)
(***************************************************************************)
THEOREM WorkIsFinite == CatSpec => [](Work \in Works)
<1> DEFINE Inv == DiskInv /\ SerialInv /\ FlowInv
           Finite == Work \in Works
<1>1. Inv => Finite
  BY WorkIs
<1>2. CatSpec => []Inv
  BY FlowInvariance
<1> HIDE DEF Inv, Finite
<1>3. CatSpec => []Finite
  BY <1>1, <1>2, PTL
<1> QED
  BY <1>3 DEF Finite

(***************************************************************************)
(* Neither a drive nor a UART can keep the kernel busy for good, for any   *)
(* limits, images and files: every step of boot, read and print lowers     *)
(* Work, and only a command typed at the prompt raises it.                 *)
(***************************************************************************)
THEOREM WaitsAreBounded == CatSpec => WorkRunsOut
<1> DEFINE Inv == DiskInv /\ SerialInv /\ FlowInv
           Lowers == \/ Less(Work', Work)
                     \/ UNCHANGED <<image_vars, present, fs_vars, call, pc, io_vars, entry, result,
                                    serial_vars, command>>
                     \/ AtPrompt /\ command' = "read"
<1>1. Inv /\ [CatNext]_cat_vars => [Lowers]_cat_vars
  BY LessToDo
<1>2. CatSpec => []Inv
  BY FlowInvariance
<1> HIDE DEF Inv
<1>3. CatSpec => [][Lowers]_cat_vars
  BY <1>1, <1>2, PTL DEF CatSpec
<1> QED
  BY <1>3 DEF WorkRunsOut
=============================================================================
