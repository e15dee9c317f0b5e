------------------------------- MODULE Goatfs -------------------------------
(***************************************************************************)
(* A GOATFS image, and the script that packs one (build-goatfs.py).  An    *)
(* image says whether its superblock has the magic and the version, what   *)
(* its directory holds, and what is in its data sectors, the first of      *)
(* which is sector 2.  A sector of text is the text and its place in it.   *)
(***************************************************************************)
EXTENDS Integers, Sequences

CONSTANTS
  SECTOR_SIZE, MAX_FILE_SIZE, MAX_FILES,
  FileLists,      \* lists of files to pack: [name, text, size]
  Images          \* images that nobody packed

TextFiles == [name : STRING, text : STRING, size : Nat]
DirEntries == [name : STRING, size : Nat, lba_off : Nat]
ImageType == [superblock : BOOLEAN, entries : Seq(DirEntries), data : Seq(STRING \X Nat)]

ASSUME GoatfsAssumption ==
  /\ SECTOR_SIZE \in Nat \ {0} /\ MAX_FILE_SIZE \in Nat /\ MAX_FILES \in Nat
  /\ FileLists \subseteq Seq(TextFiles) /\ Images \subseteq ImageType

VARIABLES
  FILES,          \* the list the script packs
  packed,         \* is the image the script's?
  image, data_lba

image_vars == <<FILES, packed, image, data_lba>>

Sectors(size) == (size + SECTOR_SIZE - 1) \div SECTOR_SIZE

\* What pack raises SystemExit for; a name may be any ASCII.
accepts(list) ==
  /\ Len(list) <= MAX_FILES
  /\ \A i \in 1 .. Len(list) : list[i].name # "" /\ list[i].size <= MAX_FILE_SIZE

Packable == {list \in FileLists : accepts(list)}

\* pack, up to its loop; or an image from elsewhere.
PackInit ==
  /\ data_lba = 2
  /\ \/ /\ packed = TRUE /\ FILES \in Packable
        /\ image = [superblock |-> TRUE, entries |-> << >>, data |-> << >>]
     \/ packed = FALSE /\ FILES = << >> /\ image \in Images

\* The sectors of a text of this size, the last one padded.
blob(text, size) == [k \in 1 .. Sectors(size) |-> <<text, k>>]

Packing == packed /\ Len(image.entries) < Len(FILES)

\* A turn of its loop: the file's entry, and its blob behind the others.
pack_file ==
  /\ Packing
  /\ LET file == FILES[Len(image.entries) + 1]
     IN  /\ image' = [image EXCEPT
                        !.entries = Append(@, [name |-> file.name, size |-> file.size,
                                               lba_off |-> data_lba]),
                        !.data = @ \o blob(file.text, file.size)]
         /\ data_lba' = data_lba + Sectors(file.size)
  /\ UNCHANGED <<FILES, packed>>
=============================================================================
