-------------------------------- MODULE Cat ---------------------------------
(***************************************************************************)
(* The kernel's storage and its serial port under the shell: serial::init, *)
(* ata::init, fs::init and fs::self_test at boot, the echo of hello.txt,   *)
(* then cat commands, each of which reads a file and prints its text, or   *)
(* why there is none, on COM1.  What it prints on the screen is in         *)
(* Terminal, and the banners of the boot are left out.                     *)
(***************************************************************************)
EXTENDS Disk

CONSTANTS
  TRANSMIT_SPIN_LIMIT, Names,
  HELLO_TXT_NAME, HELLO_TXT_CONTENTS, HELLO_SIZE

ASSUME SerialAssumption == TRANSMIT_SPIN_LIMIT \in Nat

VARIABLES
  command,       \* "build", "boot", "test", "echo"; then "prompt", or cat: "read", "print"
  SERIAL1, serial_pc, message, piece, remaining, serial_spins, out, gave_up

S == INSTANCE Serial WITH pc <- serial_pc, spins <- serial_spins

serial_vars == <<SERIAL1, serial_pc, message, piece, remaining, serial_spins, out, gave_up>>
cat_vars == <<disk_vars, serial_vars, command>>

CatInit == DiskInit /\ S!Init /\ command = "build"

device_vars == <<drive, todo, present, fs_vars, call, pc, io_vars, entry, result>>

\* build-goatfs.py packs the image, and the machine is switched on.
build ==
  /\ command = "build"
  /\ IF Packing THEN pack_file /\ UNCHANGED command
                ELSE command' = "boot" /\ UNCHANGED image_vars
  /\ UNCHANGED <<device_vars, serial_vars>>

serial_init == command = "boot" /\ S!init /\ UNCHANGED <<disk_vars, command>>

\* ata::init, fs::init and the driver under fs::read_file.
DiskStep == serial_pc = "idle" /\ Kernel /\ UNCHANGED <<serial_vars, command>>

\* The drive goes its own way at any time.
DriveStep == command # "build" /\ Drive /\ UNCHANGED <<serial_vars, command>>

\* fs::self_test, up to what it read.
self_test ==
  /\ command = "boot" /\ call = "none" /\ pc = "idle" /\ serial_pc = "idle"
  /\ read_file(HELLO_TXT_NAME)
  /\ command' = "test"
  /\ UNCHANGED serial_vars

hello_ok ==
  result = "Ok" /\ entry.size = HELLO_SIZE /\ Contents(data) = blob(HELLO_TXT_CONTENTS, HELLO_SIZE)

\* Its verdict; when it is good kernel_main reads the file once more.
self_tested ==
  /\ command = "test" /\ pc = "idle"
  /\ IF hello_ok THEN read_file(HELLO_TXT_NAME) /\ command' = "echo"
                 ELSE command' = "prompt" /\ UNCHANGED disk_vars
  /\ UNCHANGED serial_vars

\* It prints the text if this read went well too.
echo ==
  /\ command = "echo" /\ pc = "idle"
  /\ IF result = "Ok" THEN S!print(<<Len(data)>>) /\ command' = "print"
                      ELSE command' = "prompt" /\ UNCHANGED serial_vars
  /\ UNCHANGED disk_vars

\* cmd_cat, up to read_file; its usage messages read nothing.
cmd_cat(name) ==
  /\ command = "prompt" /\ serial_pc = "idle"
  /\ read_file(name)
  /\ command' = "read"
  /\ UNCHANGED serial_vars

\* The pieces of the line cat prints.  A sector of text is one byte here; text
\* that does not end in a newline is given one, and bytes that are no text are
\* reported like an error, with the file's name in the middle.
Complaint == <<1, 1, 1>>
Output ==
  CASE result = "Ok" /\ data = << >> -> {<<0, 1>>}
    [] result = "Ok" /\ data # << >> -> {<<Len(data)>>, <<Len(data), 1>>, Complaint}
    [] result = "NotMounted" -> {<<1>>}
    [] OTHER -> {Complaint}

\* The match on what read_file returned, and the start of the print.
cat_prints ==
  /\ command = "read" /\ pc = "idle"
  /\ \E m \in Output : S!print(m)
  /\ command' = "print"
  /\ UNCHANGED disk_vars

SerialStep == S!Sending /\ UNCHANGED <<disk_vars, command>>

cat_returns ==
  /\ command = "print" /\ serial_pc = "idle"
  /\ command' = "prompt"
  /\ UNCHANGED <<disk_vars, serial_vars>>

BootStep == build \/ serial_init \/ self_test \/ self_tested \/ echo

Running == BootStep \/ DiskStep \/ cat_prints \/ SerialStep \/ cat_returns

\* A panicked kernel halts.
Panicked == pc = "panicked" /\ UNCHANGED cat_vars

CatNext == Running \/ DriveStep \/ Panicked \/ \E name \in Names : cmd_cat(name)

\* The kernel keeps executing; nothing is assumed of the drive, of the UART or
\* of who types commands.
CatSpec == CatInit /\ [][CatNext]_cat_vars /\ WF_cat_vars(Running)
-----------------------------------------------------------------------------
(***************************************************************************)
(* The bytes of a print go out in order, none twice, and none is lost      *)
(* unless the UART refused it (Serial's OutputIsTheMessage).               *)
(***************************************************************************)
OutputIsTheMessage == S!OutputIsTheMessage

AtPrompt == command = "prompt" /\ serial_pc = "idle" /\ pc = "idle" /\ call \in {"none", "file"}

(***************************************************************************)
(* "A missing/wedged controller cannot hang the kernel" (ata.rs), and      *)
(* serial output "must never be able to wedge the kernel" (serial.rs): the *)
(* boot reaches the prompt and every command comes back to it, unless the  *)
(* kernel panics, with a drive and a UART that may do anything.            *)
(***************************************************************************)
CommandsReturn == []<>(AtPrompt \/ pc = "panicked")

-----------------------------------------------------------------------------
\* What the kernel has still to do before it prompts, what matters most first:
\* its phase; sectors to read, steps to the next one and polls left; pieces to
\* print, bytes of this one and polls left.
Phase ==
  CASE command = "build" -> 10 + (IF Packing THEN Len(FILES) - Len(image.entries) ELSE 0)
    [] command = "boot" /\ serial_pc = "init" -> 9
    [] command = "boot" /\ serial_pc # "init" ->
         5 + (CASE call = "probe" -> 3 [] call = "superblock" -> 2 [] call = "directory" -> 1 [] OTHER -> 0)
    [] command = "test" -> 4
    [] command = "echo" -> 3
    [] command = "read" -> 2
    [] command = "print" -> 1
    [] OTHER -> 0

DiskWork ==
  LET left(stage) == <<count - Len(data), stage, SPIN_LIMIT - spins>>
  IN  CASE pc = "wait_bsy" -> left(2)
        [] pc = "wait_drq" -> left(1)
        [] pc = "transfer" -> left(0)
        [] OTHER -> <<0, 0, 0>>

SerialWork ==
  IF serial_pc = "send"
  THEN <<Len(message) - piece + 1, Len(remaining), TRANSMIT_SPIN_LIMIT - serial_spins>>
  ELSE <<0, 0, 0>>

Work == <<Phase, DiskWork, SerialWork>>

\* The lexicographic order on triples of naturals, and on Work.
Below(a, b) ==
  \E i \in 1 .. 3 : 0 <= a[i] /\ a[i] < b[i] /\ \A j \in 1 .. i - 1 : a[j] = b[j]

Less(a, b) ==
  \/ 0 <= a[1] /\ a[1] < b[1]
  \/ a[1] = b[1] /\ Below(a[2], b[2])
  \/ a[1] = b[1] /\ a[2] = b[2] /\ Below(a[3], b[3])

(***************************************************************************)
(* Why commands return: each step of the kernel leaves it less to do, in   *)
(* an order without infinite descents.  The drive can take nothing back of *)
(* that, whatever it does, nor can the UART; only a command typed at the   *)
(* prompt makes new work.  So between two prompts the kernel polls, reads  *)
(* and sends a bounded number of times (SPIN_LIMIT of ata.rs and           *)
(* TRANSMIT_SPIN_LIMIT of serial.rs are counted anew for every sector and  *)
(* after every byte).                                                      *)
(***************************************************************************)
WorkRunsOut ==
  [][ \/ Less(Work', Work)
      \/ UNCHANGED <<image_vars, present, fs_vars, call, pc, io_vars, entry, result,
                     serial_vars, command>>
      \/ AtPrompt /\ command' = "read" ]_cat_vars
=============================================================================
