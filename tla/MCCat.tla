------------------------------- MODULE MCCat --------------------------------
(***************************************************************************)
(* Images for Cat: sectors of two bytes, files of up to three sectors.     *)
(***************************************************************************)
EXTENDS Cat

File(name, size, lba_off) == [name |-> name, size |-> size, lba_off |-> lba_off]
Image(superblock, entries) == [superblock |-> superblock, entries |-> entries, data |-> << >>]

\* Good, empty and unreachable files, two of one name, too many files, entries that make the
\* directory bad after a good one, and a bad superblock.
MCImages ==
  {Image(TRUE, <<File("a", 5, 2), File("b", 2, 5)>>),
   Image(TRUE, <<File("a", 0, 2), File("b", 1, 9)>>),
   Image(TRUE, <<File("a", 4, 2), File("a", 2, 4)>>),
   Image(TRUE, <<File("a", 2, 14)>>),
   Image(TRUE, <<File("a", 2, 2), File("b", 2, 3), File("c", 2, 4)>>),
   Image(TRUE, <<File("a", 2, 2), File("b", 7, 3)>>),
   Image(TRUE, <<File("a", 2, 2), File("b", 2, 1)>>),
   Image(TRUE, <<File("", 2, 2)>>),
   Image(TRUE, << >>),
   Image(FALSE, <<File("a", 2, 2)>>)}

\* The list the repository packs, with hello.txt as "h"; lists with other files
\* before it, an empty one, one of just a sector, one with two files of one name,
\* another text as hello.txt, names that the kernel does not take, and lists that
\* are not packed at all.
Text(name, text, size) == [name |-> name, text |-> text, size |-> size]
Hello == Text("h", "hello", 3)
MCFileLists ==
  {<<Hello>>, <<Text("a", "A", 5), Hello>>, <<Text("a", "A", 2), Hello>>, <<Hello, Text("b", "B", 6)>>,
   <<Text("a", "A", 0), Hello>>, <<Text("a", "A", 1), Text("a", "B", 2)>>, <<Text("h", "A", 3)>>,
   << >>, <<Text(" ", "A", 1)>>, <<Text("", "A", 1)>>, <<Text("a", "A", 7)>>,
   <<Hello, Text("a", "A", 1), Text("b", "B", 1)>>}
=============================================================================
