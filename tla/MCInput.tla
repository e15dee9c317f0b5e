------------------------------ MODULE MCInput -------------------------------
(***************************************************************************)
(* Keyboards for Input: one letter, Enter, Shift and the extended prefix.  *)
(***************************************************************************)
EXTENDS Input

Press(key) == [make |-> key, released |-> FALSE]
Release(key) == [make |-> key, released |-> TRUE]

MCScancodes == {EXT, Press("lshift"), Release("lshift"), Press("a"), Press("enter")}
=============================================================================
