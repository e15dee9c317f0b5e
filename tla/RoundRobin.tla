----------------------------- MODULE RoundRobin -----------------------------
(***************************************************************************)
(* What task/mod.rs promises: the ready tasks stand in a FIFO queue, a     *)
(* yield parks the running task at its tail and runs its head, and a       *)
(* spawned task joins at the tail.  Nothing is said of rings, tables or    *)
(* stacks.                                                                 *)
(***************************************************************************)
EXTENDS Sequences

CONSTANT Task

VARIABLES running, queue

rr_vars == <<running, queue>>

RRInit == running \in Task /\ queue = << >>

RRSpawn(t) ==
  /\ t # running
  /\ \A i \in DOMAIN queue : queue[i] # t
  /\ queue' = Append(queue, t)
  /\ UNCHANGED running

RRYield ==
  /\ queue # << >>
  /\ running' = Head(queue)
  /\ queue' = Append(Tail(queue), running)

RRNext == RRYield \/ \E t \in Task : RRSpawn(t)

RRSafe == RRInit /\ [][RRNext]_rr_vars

\* Tasks that keep yielding: no one keeps the CPU for ever.
RRSpec == RRSafe /\ WF_rr_vars(RRYield)
=============================================================================
