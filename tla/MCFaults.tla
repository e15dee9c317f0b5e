------------------------------ MODULE MCFaults ------------------------------
(***************************************************************************)
(* Machines for Faults: three entries to a table and frames of two bytes,  *)
(* so eighteen bytes of address space, of which twelve can be mapped.      *)
(* Frames 0 to 2 are the double-fault stack, the guard page and the kernel *)
(* stack.                                                                  *)
(***************************************************************************)
EXTENDS Faults

Machine(ends, free_frames) == [usable |-> ends, pool |-> free_frames, guard |-> 1]

\* No usable memory; pools that run out before the directory, the first and the
\* second table, and one just large enough; memory that reaches beyond the cap.
MCMachines ==
  {Machine({}, {}), Machine({18}, {3, 5, 8})}
    \cup {Machine({5, 11}, p) : p \in {{}, {3}, {3, 4}}}
=============================================================================
