-------------------------- MODULE MCFrameAllocator --------------------------
(***************************************************************************)
(* Small pools for FrameAllocator.                                         *)
(***************************************************************************)
EXTENDS FrameSelfTest

\* Two regions, the second listed first (the map need not be sorted), with a
\* reservation in the middle of one and two that only touch holes.
MCregions == <<[start |-> 6, end |-> 10], [start |-> 1, end |-> 2]>>
MCreservations == {[start |-> 0, end |-> 1], [start |-> 7, end |-> 8],
                   [start |-> 4, end |-> 5]}

\* Memory that looks like one long list before anything was freed.
MCMemory0 == [f \in Frames |-> IF f = 0 THEN MAX_FRAME_INDEX - 1 ELSE f - 1]
=============================================================================
