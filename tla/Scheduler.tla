----------------------------- MODULE Scheduler ------------------------------
(***************************************************************************)
(* The cooperative scheduler of task/mod.rs and task/switch.s: a table of  *)
(* MAX_TASKS slots, a ring of ready task ids, and the context switch.      *)
(*                                                                         *)
(* yield_now is two steps: the section under the scheduler lock, and the   *)
(* switch of stacks after the lock is released.  Between them `current`    *)
(* already names the next task while the old one is still on the CPU.      *)
(***************************************************************************)
EXTENDS Integers, Sequences, FiniteSets

CONSTANTS
  MAX_TASKS,   \* slots in the task table
  TURN_LIMIT   \* TURNS counts modulo this (2^32 in the code)

ASSUME SchedulerAssumption ==
  /\ MAX_TASKS \in Nat \ {0}
  /\ TURN_LIMIT \in Nat \ {0}

Id == 0 .. MAX_TASKS - 1

VARIABLES
  tasks,       \* the occupied slots of the task table
  context,     \* where the esp saved for each slot leads
  flags,       \* the IF bit yield_now read on each task's stack
  ready, ready_head, ready_len,  \* the ring of ready tasks
  current,     \* the task the scheduler says is running
  TASK_COUNT, TURNS,
  on_cpu,      \* the task whose stack the CPU is on
  pc,          \* "run", or "switch" inside yield_now with the lock released
  eflags_if    \* the CPU's interrupt flag

table == <<tasks, ready, ready_head, ready_len, current, TASK_COUNT, TURNS>>
cpu == <<context, flags, on_cpu, pc, eflags_if>>
vars == <<table, cpu>>

\* "stale": the task is on the CPU, or the slot is empty: nothing was saved.
Context == {"stale", "trampoline", "in_yield"}

\* init(): the bootstrap context, running with interrupts on, is task 0.
Init ==
  /\ tasks = {0}
  /\ context = [t \in Id |-> "stale"]
  /\ flags = [t \in Id |-> FALSE]
  /\ ready = [i \in Id |-> 0] /\ ready_head = 0 /\ ready_len = 0
  /\ current = 0
  /\ TASK_COUNT = 1
  /\ TURNS = [t \in Id |-> 0]
  /\ on_cpu = 0 /\ pc = "run" /\ eflags_if = TRUE

(***************************************************************************)
(* The ready ring.                                                         *)
(***************************************************************************)
\* Slot of the ring k places behind the head.
Slot(k) == (ready_head + k) % MAX_TASKS

enqueue_ready(id) ==
  /\ ready' = [ready EXCEPT ![Slot(ready_len)] = id]
  /\ ready_len' = ready_len + 1
  /\ UNCHANGED ready_head

\* Mutant: the newest ready task is taken.
HeadAfterLIFO(id) == IF ready_len = 0 THEN id ELSE ready[Slot(ready_len - 1)]

\* enqueue_ready(id) followed by dequeue_ready(): what is dequeued, and the
\* ring they leave.
HeadAfter(id) == IF ready_len = 0 THEN id ELSE ready[ready_head]
\* Mutant: the task that yields is not put back.
rotate_ready_drops(id) ==
  /\ UNCHANGED ready
  /\ ready_head' = IF ready_len = 0 THEN ready_head ELSE Slot(1)
  /\ ready_len' = IF ready_len = 0 THEN 0 ELSE ready_len - 1

rotate_ready(id) ==
  /\ ready' = [ready EXCEPT ![Slot(ready_len)] = id]
  /\ ready_head' = Slot(1)
  /\ UNCHANGED ready_len

(***************************************************************************)
(* Operations of the running task.                                         *)
(***************************************************************************)
\* The first free slot; with none, spawn drops the stack and returns None.
FreeSlot(id) == id \in Id \ tasks /\ \A t \in Id \ tasks : id <= t

\* Mutant: the new task is never made ready.
spawn_not_ready ==
  /\ pc = "run"
  /\ \E id \in Id :
       /\ FreeSlot(id)
       /\ tasks' = tasks \cup {id}
       /\ context' = [context EXCEPT ![id] = "trampoline"]
       /\ TASK_COUNT' = TASK_COUNT + 1
  /\ UNCHANGED <<ready, ready_head, ready_len, current, TURNS, flags, on_cpu, pc, eflags_if>>

spawn ==
  /\ pc = "run"
  /\ \E id \in Id :
       /\ FreeSlot(id)
       /\ tasks' = tasks \cup {id}
       /\ context' = [context EXCEPT ![id] = "trampoline"]
       /\ enqueue_ready(id)
       /\ TASK_COUNT' = TASK_COUNT + 1
  /\ UNCHANGED <<current, TURNS, flags, on_cpu, pc, eflags_if>>

\* Mutant: a sole task switches to itself.
YieldDecideSelf ==
  /\ pc = "run"
  /\ rotate_ready(current)
  /\ current' = HeadAfter(current)
  /\ TURNS' = [TURNS EXCEPT ![HeadAfter(current)] = (@ + 1) % TURN_LIMIT]
  /\ pc' = "switch"
  /\ UNCHANGED <<tasks, TASK_COUNT, context, flags, on_cpu, eflags_if>>

\* yield_now up to the release of the lock.  A sole task rotates the ring and
\* returns.
YieldDecide ==
  /\ pc = "run"
  /\ rotate_ready(current)
  /\ LET next == HeadAfter(current) IN
       IF next = current
       THEN UNCHANGED <<current, TURNS, pc>>
       ELSE /\ current' = next
            /\ TURNS' = [TURNS EXCEPT ![next] = (@ + 1) % TURN_LIMIT]
            /\ pc' = "switch"
  /\ UNCHANGED <<tasks, TASK_COUNT, context, flags, on_cpu, eflags_if>>

\* The rest of yield_now: cli, context_switch, and then what the stack that was
\* switched to does next.  A parked task is inside its own yield_now and runs
\* sti if its IF was set; a fresh one enters task_trampoline, which has no sti.
YieldSwitch ==
  /\ pc = "switch"
  /\ flags' = [flags EXCEPT ![on_cpu] = eflags_if]
  /\ context' = [context EXCEPT ![on_cpu] = "in_yield", ![current] = "stale"]
  /\ on_cpu' = current
  /\ eflags_if' = (context[current] = "in_yield" /\ flags[current])
  /\ pc' = "run"
  /\ UNCHANGED table

Next == spawn \/ YieldDecide \/ YieldSwitch

\* Every task's loop calls yield_now on each turn (main.rs), and nothing stops
\* a yield_now that has begun.
Fairness == WF_vars(YieldDecide) /\ WF_vars(YieldSwitch)

Spec == Init /\ [][Next]_vars
FairSpec == Spec /\ Fairness

(***************************************************************************)
(* Properties.                                                             *)
(***************************************************************************)
\* Every variable stays in its type.
TypeOK ==
  /\ tasks \subseteq Id
  /\ context \in [Id -> Context]
  /\ flags \in [Id -> BOOLEAN]
  /\ ready \in [Id -> Id]
  /\ ready_head \in Id
  /\ ready_len \in 0 .. MAX_TASKS
  /\ current \in Id
  /\ TASK_COUNT \in 1 .. MAX_TASKS
  /\ TURNS \in [Id -> 0 .. TURN_LIMIT - 1]
  /\ on_cpu \in Id
  /\ pc \in {"run", "switch"}
  /\ eflags_if \in BOOLEAN

\* The ready queue, oldest first.
Queue == [k \in 1 .. ready_len |-> ready[Slot(k - 1)]]

\* The ring holds every task but the current one, each once: none is lost, none
\* runs twice in a round, and there is always room for one more ("A full queue
\* would mean every slot is ready *and* one is running").
QueueHoldsTheRest ==
  /\ \A i, j \in 1 .. ready_len : Queue[i] = Queue[j] => i = j
  /\ {Queue[i] : i \in 1 .. ready_len} = tasks \ {current}
  /\ current \in tasks
  /\ ready_len < MAX_TASKS

\* context_switch never loads an esp that was not saved since that stack last
\* ran, and never the stack it is on.
SwitchesToSavedStack ==
  pc = "switch" => current # on_cpu /\ context[current] # "stale"

\* Only the bootstrap task ever takes interrupts: a spawned task enters through
\* the trampoline with IF clear, and what yield_now restores for it is that.
OnlyTaskZeroIsInterruptible == eflags_if <=> on_cpu = 0

\* What yield_now hands over with the CPU is right: the stack and the interrupt
\* flag of the task that `current` names.
SwitchesAreSound == SwitchesToSavedStack /\ OnlyTaskZeroIsInterruptible

\* The scheduler is a FIFO round robin.
RR == INSTANCE RoundRobin WITH Task <- Id, running <- current, queue <- Queue
ImplementsRoundRobin == RR!RRSpec

\* Every task that exists runs again and again.
EveryTaskRuns == \A t \in Id : [](t \in tasks => <>(on_cpu = t /\ pc = "run"))
=============================================================================
