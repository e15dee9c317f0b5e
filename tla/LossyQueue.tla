----------------------------- MODULE LossyQueue -----------------------------
(***************************************************************************)
(* What input.rs promises: a bounded first-in first-out queue of events;   *)
(* a full queue drops the newest event, and counts it.                     *)
(***************************************************************************)
EXTENDS Naturals, Sequences

CONSTANTS Event, Capacity

VARIABLES queue, lost

lq_vars == <<queue, lost>>

LQInit == queue = << >> /\ lost = 0

LQPush(e) == Len(queue) < Capacity /\ queue' = Append(queue, e) /\ UNCHANGED lost

LQDrop == Len(queue) = Capacity /\ lost' = lost + 1 /\ UNCHANGED queue

LQPop == queue # << >> /\ queue' = Tail(queue) /\ UNCHANGED lost

LQNext == LQDrop \/ LQPop \/ \E e \in Event : LQPush(e)

LQSpec == LQInit /\ [][LQNext]_lq_vars
=============================================================================
