---------------------------- MODULE ClockProofs -----------------------------
(***************************************************************************)
(* Proofs about Scheduler, for a task table of any size: the ring always   *)
(* holds every task but the current one, a switch only enters a saved      *)
(* stack, only task 0 runs with interrupts on, and the scheduler           *)
(* implements the FIFO round robin of module RoundRobin.                   *)
(*                                                                         *)
(* And about Clock, which runs the kernel's tasks on it, for any number of *)
(* tasks, any frequency and any width of the counters: the tasks use the   *)
(* scheduler as Scheduler allows, their turns stay within one of each      *)
(* other, and as long as the tick counter does not wrap the reports follow *)
(* the seconds.                                                            *)
(***************************************************************************)
EXTENDS Clock, FiniteSetTheorems, TLAPS

\* The provers have half a minute for each leaf that names none itself.
USE SMTT(30), ZenonT(30)

\* Sequences are equal when they have the same elements at the same places.
LEMMA SameSequence ==
  ASSUME NEW S, NEW s \in Seq(S), NEW t \in Seq(S),
         Len(s) = Len(t), \A k \in 1 .. Len(s) : s[k] = t[k]
  PROVE  s = t
OBVIOUS

\* What is left of a queue behind its head.
LEMMA TailIs ==
  ASSUME NEW S, NEW s \in Seq(S), s # << >>
  PROVE  /\ Head(s) \in S /\ Tail(s) \in Seq(S) /\ Len(Tail(s)) = Len(s) - 1
         /\ \A k \in 1 .. Len(s) - 1 : Tail(s)[k] = s[k + 1]
OBVIOUS

\* Stepping once or more around a ring of MAX_TASKS slots.
LEMMA RingStep ==
  ASSUME NEW h \in Id, NEW k \in 0 .. MAX_TASKS
  PROVE  (h + k) % MAX_TASKS = IF h + k < MAX_TASKS THEN h + k ELSE h + k - MAX_TASKS
BY SchedulerAssumption DEF Id

\* A place of the queue is a slot of the ring.
LEMMA SlotInRing ==
  ASSUME TypeOK, NEW k \in 0 .. MAX_TASKS
  PROVE  Slot(k) \in Id
<1>1. ready_head \in Id /\ MAX_TASKS \in Nat \ {0}
  BY SchedulerAssumption DEF TypeOK
<1>2. Slot(k) = IF ready_head + k < MAX_TASKS THEN ready_head + k ELSE ready_head + k - MAX_TASKS
  BY <1>1, RingStep DEF Slot
<1> QED BY <1>1, <1>2 DEF Id

\* Different places of the queue are different slots of the ring.
LEMMA SlotsDiffer ==
  ASSUME TypeOK, NEW j \in 0 .. MAX_TASKS - 1, NEW k \in 0 .. MAX_TASKS - 1, j # k
  PROVE  Slot(j) # Slot(k)
<1>1. ready_head \in Id /\ MAX_TASKS \in Nat \ {0}
  BY SchedulerAssumption DEF TypeOK
<1>2. /\ Slot(j) = IF ready_head + j < MAX_TASKS THEN ready_head + j ELSE ready_head + j - MAX_TASKS
      /\ Slot(k) = IF ready_head + k < MAX_TASKS THEN ready_head + k ELSE ready_head + k - MAX_TASKS
  BY <1>1, RingStep DEF Slot
<1> QED BY <1>1, <1>2 DEF Id

(***************************************************************************)
(* The inductive invariant.                                                *)
(***************************************************************************)
\* Whoever is off the CPU has a saved stack, the task on the CPU is the current
\* one except inside a switch, and the flags saved for spawned tasks are clear.
IInv ==
  /\ TypeOK
  /\ QueueHoldsTheRest
  /\ TASK_COUNT = ready_len + 1
  /\ TASK_COUNT = Cardinality(tasks)
  /\ on_cpu \in tasks
  /\ pc = "run" <=> on_cpu = current
  /\ \A t \in tasks : t # on_cpu => context[t] # "stale"
  /\ \A t \in Id : t # 0 => flags[t] = FALSE
  /\ 0 \in tasks
  /\ on_cpu # 0 => context[0] = "in_yield" /\ flags[0] = TRUE
  /\ OnlyTaskZeroIsInterruptible

\* The invariant holds when task 0 is registered.
LEMMA InitEstablishes == Init => IInv
<1> SUFFICES ASSUME Init PROVE IInv
  OBVIOUS
<1>1. MAX_TASKS \in Nat \ {0} /\ TURN_LIMIT \in Nat \ {0}
  BY SchedulerAssumption
<1>2. 0 \in Id
  BY <1>1 DEF Id
<1>3. TypeOK
  BY <1>1, <1>2 DEF Init, TypeOK, Context
<1>4. Cardinality(tasks) = 1
  BY FS_Singleton DEF Init
<1>5. QueueHoldsTheRest
  BY <1>1, <1>2 DEF Init, QueueHoldsTheRest, Queue
<1> QED BY <1>3, <1>4, <1>5 DEF Init, IInv, OnlyTaskZeroIsInterruptible

\* The queue as a sequence of ids.
LEMMA QueueIsSeq ==
  ASSUME TypeOK
  PROVE  /\ Queue \in Seq(Id)
         /\ Len(Queue) = ready_len
         /\ \A k \in 1 .. ready_len : Queue[k] = ready[Slot(k - 1)]
<1>1. ASSUME NEW k \in 1 .. ready_len PROVE ready[Slot(k - 1)] \in Id
  <2>1. k - 1 \in 0 .. MAX_TASKS
    BY SchedulerAssumption DEF TypeOK
  <2> QED BY <2>1, SlotInRing DEF TypeOK
<1> QED BY <1>1, SchedulerAssumption DEF Queue, TypeOK

\* A function on 1 .. n is a sequence of length n.
LEMMA FunctionIsSeq ==
  ASSUME NEW S, NEW n \in Nat, NEW f \in [1 .. n -> S]
  PROVE  f \in Seq(S) /\ Len(f) = n
OBVIOUS

\* Append, entry by entry.
LEMMA AppendIs ==
  ASSUME NEW S, NEW q \in Seq(S), NEW e \in S
  PROVE  /\ Append(q, e) \in Seq(S)
         /\ Len(Append(q, e)) = Len(q) + 1
         /\ \A k \in 1 .. Len(q) : Append(q, e)[k] = q[k]
         /\ Append(q, e)[Len(q) + 1] = e
OBVIOUS

\* enqueue_ready appends.
LEMMA EnqueueAppends ==
  ASSUME TypeOK, ready_len < MAX_TASKS, NEW id \in Id, enqueue_ready(id)
  PROVE  /\ Queue' = Append(Queue, id)
         /\ ready' \in [Id -> Id] /\ ready_len' = ready_len + 1 /\ ready_head' = ready_head
<1>1. /\ MAX_TASKS \in Nat \ {0} /\ ready_len \in Nat /\ ready_head \in Id /\ ready \in [Id -> Id]
  BY SchedulerAssumption DEF TypeOK
<1>2. Slot(ready_len) \in Id
  BY <1>1, SlotInRing
<1>3. /\ ready' = [ready EXCEPT ![Slot(ready_len)] = id]
      /\ ready_len' = ready_len + 1 /\ ready_head' = ready_head
  BY DEF enqueue_ready
<1>4. Queue' = [k \in 1 .. ready_len + 1 |-> ready'[Slot(k - 1)]]
  BY <1>3 DEF Queue, Slot
<1>5. ASSUME NEW k \in 1 .. ready_len PROVE ready'[Slot(k - 1)] = ready[Slot(k - 1)]
  <2>1. k - 1 \in 0 .. MAX_TASKS - 1 /\ ready_len \in 0 .. MAX_TASKS - 1 /\ k - 1 # ready_len
    BY <1>1
  <2>2. Slot(k - 1) # Slot(ready_len) /\ Slot(k - 1) \in Id
    BY <2>1, <1>1, SlotsDiffer, SlotInRing
  <2> QED BY <1>1, <1>3, <2>2
<1>6. ready'[Slot((ready_len + 1) - 1)] = id
  BY <1>1, <1>2, <1>3
<1>7. /\ Queue \in Seq(Id) /\ Len(Queue) = ready_len
      /\ \A k \in 1 .. ready_len : Queue[k] = ready[Slot(k - 1)]
  BY QueueIsSeq
<1>8. /\ Append(Queue, id) \in Seq(Id)
      /\ Len(Append(Queue, id)) = ready_len + 1
      /\ \A k \in 1 .. ready_len : Append(Queue, id)[k] = Queue[k]
      /\ Append(Queue, id)[ready_len + 1] = id
  BY <1>7, AppendIs
<1>9. ASSUME NEW k \in 1 .. ready_len + 1
      PROVE  Queue'[k] = Append(Queue, id)[k] /\ Queue'[k] \in Id
  <2>1. Queue'[k] = ready'[Slot(k - 1)]
    BY <1>4
  <2>2. CASE k = ready_len + 1
    BY <2>1, <2>2, <1>6, <1>8
  <2>3. CASE k \in 1 .. ready_len
    <3>1. ready'[Slot(k - 1)] = Queue[k] /\ Append(Queue, id)[k] = Queue[k] /\ Queue[k] \in Id
      BY <2>3, <1>5, <1>7, <1>8
    <3> QED BY <2>1, <3>1
  <2>4. k = ready_len + 1 \/ k \in 1 .. ready_len
    BY <1>1
  <2> QED BY <2>2, <2>3, <2>4, ZenonT(30)
<1>10. Queue' \in Seq(Id) /\ Len(Queue') = ready_len + 1
  <2>1. ready_len + 1 \in Nat
    BY <1>1
  <2>2. \A k \in 1 .. ready_len + 1 : ready'[Slot(k - 1)] \in Id
    BY <1>4, <1>9
  <2>3. Queue' \in [1 .. ready_len + 1 -> Id]
    BY <1>4, <2>2
  <2> QED BY <2>1, <2>3, FunctionIsSeq
<1>11. Queue' = Append(Queue, id)
  BY <1>8, <1>9, <1>10, SameSequence
<1> QED BY <1>1, <1>2, <1>3, <1>11

\* Enqueueing and dequeueing moves the head of the queue out and `id` in.
LEMMA RotateRotates ==
  ASSUME TypeOK, ready_len < MAX_TASKS, NEW id \in Id, rotate_ready(id)
  PROVE  /\ ready' \in [Id -> Id] /\ ready_len' = ready_len /\ ready_head' \in Id
         /\ ready_len = 0 => HeadAfter(id) = id /\ Queue = << >> /\ Queue' = << >>
         /\ ready_len # 0 => /\ HeadAfter(id) = Head(Queue) /\ Queue # << >>
                             /\ Queue' = Append(Tail(Queue), id)
<1>1. /\ MAX_TASKS \in Nat \ {0} /\ ready_len \in Nat /\ ready_head \in Id /\ ready \in [Id -> Id]
  BY SchedulerAssumption DEF TypeOK
<1>2. Slot(ready_len) \in Id /\ Slot(1) \in Id
  BY <1>1, SlotInRing
<1>3. /\ ready' = [ready EXCEPT ![Slot(ready_len)] = id]
      /\ ready_len' = ready_len /\ ready_head' = Slot(1)
  BY DEF rotate_ready
<1>4. /\ Queue \in Seq(Id) /\ Len(Queue) = ready_len
      /\ \A k \in 1 .. ready_len : Queue[k] = ready[Slot(k - 1)]
  BY QueueIsSeq
<1>5. ASSUME ready_len = 0 PROVE HeadAfter(id) = id /\ Queue = << >> /\ Queue' = << >>
  <2>1. Queue' = [k \in 1 .. 0 |-> ready'[Slot(k - 1)']]
    BY <1>3, <1>5 DEF Queue
  <2> QED BY <1>4, <1>5, <2>1 DEF HeadAfter, Queue
<1>6. ASSUME ready_len # 0
      PROVE  HeadAfter(id) = Head(Queue) /\ Queue # << >> /\ Queue' = Append(Tail(Queue), id)
  <2>1. Slot(0) = ready_head
    <3>1. ready_head \in 0 .. MAX_TASKS - 1
      BY <1>1 DEF Id
    <3> QED BY <1>1, <3>1 DEF Slot
  <2>2. HeadAfter(id) = Head(Queue) /\ Queue # << >>
    BY <1>1, <1>4, <1>6, <2>1 DEF HeadAfter
  <2>3. ASSUME NEW k \in 0 .. MAX_TASKS - 1 PROVE Slot(k)' = Slot(k + 1)
    <3>1. /\ Slot(1) = IF ready_head + 1 < MAX_TASKS THEN ready_head + 1 ELSE ready_head + 1 - MAX_TASKS
          /\ Slot(k + 1) = IF ready_head + (k + 1) < MAX_TASKS THEN ready_head + (k + 1)
                           ELSE ready_head + (k + 1) - MAX_TASKS
      BY <1>1, RingStep DEF Slot
    <3>2. Slot(k)' = IF ready_head' + k < MAX_TASKS THEN ready_head' + k
                     ELSE ready_head' + k - MAX_TASKS
      BY <1>1, <1>2, <1>3, RingStep DEF Slot
    <3>3. ready_head \in 0 .. MAX_TASKS - 1 /\ ready_head' = Slot(1)
      BY <1>1, <1>3 DEF Id
    <3> QED BY <1>1, <3>1, <3>2, <3>3
  <2>4. Queue' = [k \in 1 .. ready_len |-> ready'[Slot(k - 1)']]
    BY <1>3 DEF Queue
  <2>9. /\ Append(Tail(Queue), id) \in Seq(Id)
        /\ Len(Append(Tail(Queue), id)) = ready_len
        /\ \A k \in 1 .. ready_len - 1 : Append(Tail(Queue), id)[k] = Queue[k + 1]
        /\ Append(Tail(Queue), id)[ready_len] = id
    <3>1. /\ Tail(Queue) \in Seq(Id) /\ Len(Tail(Queue)) = ready_len - 1
          /\ \A k \in 1 .. ready_len - 1 : Tail(Queue)[k] = Queue[k + 1]
      BY <1>4, <2>2, TailIs
    <3>2. /\ Append(Tail(Queue), id) \in Seq(Id)
          /\ Len(Append(Tail(Queue), id)) = (ready_len - 1) + 1
          /\ \A k \in 1 .. ready_len - 1 : Append(Tail(Queue), id)[k] = Tail(Queue)[k]
          /\ Append(Tail(Queue), id)[(ready_len - 1) + 1] = id
      BY <3>1, AppendIs
    <3>3. (ready_len - 1) + 1 = ready_len
      BY <1>1
    <3> QED BY <3>1, <3>2, <3>3
  <2>5. ASSUME NEW k \in 1 .. ready_len
        PROVE  Queue'[k] = Append(Tail(Queue), id)[k] /\ Queue'[k] \in Id
    <3>1. k - 1 \in 0 .. MAX_TASKS - 1 /\ k = (k - 1) + 1
      BY <1>1
    <3>2. Queue'[k] = ready'[Slot(k)]
      BY <2>3, <2>4, <3>1
    <3>3. CASE k = ready_len
      BY <1>1, <1>2, <1>3, <2>9, <3>2, <3>3
    <3>4. CASE k \in 1 .. ready_len - 1
      <4>1. Slot(k) # Slot(ready_len) /\ Slot(k) \in Id
        BY <3>4, <1>1, SlotsDiffer, SlotInRing
      <4>2. ready'[Slot(k)] = ready[Slot(k)]
        BY <1>1, <1>3, <4>1
      <4>3. Append(Tail(Queue), id)[k] = Queue[k + 1]
        BY <2>9, <3>4
      <4>4. k + 1 \in 1 .. ready_len /\ (k + 1) - 1 = k
        BY <1>1, <3>4
      <4>5. Queue[k + 1] = ready[Slot(k)] /\ Queue[k + 1] \in Id
        BY <1>4, <4>4
      <4> QED BY <3>2, <4>2, <4>3, <4>5, ZenonT(30)
    <3>5. k = ready_len \/ k \in 1 .. ready_len - 1
      BY <1>1
    <3> QED BY <3>3, <3>4, <3>5, ZenonT(30)
  <2>7. Queue' \in Seq(Id) /\ Len(Queue') = ready_len
    <3>1. Queue' \in [1 .. ready_len -> Id] /\ ready_len \in Nat
      BY <1>1, <2>4, <2>5
    <3> QED BY <3>1, FunctionIsSeq
  <2>8. Queue' = Append(Tail(Queue), id)
    BY <2>5, <2>7, <2>9, SameSequence
  <2> QED BY <2>2, <2>8
<1> QED BY <1>1, <1>2, <1>3, <1>5, <1>6

\* What QueueHoldsTheRest says, in terms of the sequence.
LEMMA AppendKeepsRest ==
  ASSUME NEW q \in Seq(Id), NEW id \in Id, \A i \in 1 .. Len(q) : q[i] # id,
         \A i, j \in 1 .. Len(q) : q[i] = q[j] => i = j
  PROVE  /\ \A i, j \in 1 .. Len(q) + 1 : Append(q, id)[i] = Append(q, id)[j] => i = j
         /\ {Append(q, id)[i] : i \in 1 .. Len(q) + 1} = {q[i] : i \in 1 .. Len(q)} \cup {id}
<1>1. /\ Len(q) \in Nat
      /\ \A k \in 1 .. Len(q) : Append(q, id)[k] = q[k]
      /\ Append(q, id)[Len(q) + 1] = id
  BY AppendIs
<1>2. \A i \in 1 .. Len(q) + 1 : i \in 1 .. Len(q) \/ i = Len(q) + 1
  BY <1>1
<1>3. \A i \in 1 .. Len(q) : i \in 1 .. Len(q) + 1
  BY <1>1
<1>4. Len(q) + 1 \in 1 .. Len(q) + 1
  BY <1>1
<1>5. \A i, j \in 1 .. Len(q) + 1 : Append(q, id)[i] = Append(q, id)[j] => i = j
  BY <1>1, <1>2
<1>6. {Append(q, id)[i] : i \in 1 .. Len(q) + 1} = {q[i] : i \in 1 .. Len(q)} \cup {id}
  BY <1>1, <1>2, <1>3, <1>4
<1> QED BY <1>5, <1>6

\* spawn keeps the invariant, and is a spawn of the round robin.
LEMMA SpawnKeeps ==
  ASSUME IInv, spawn
  PROVE  IInv' /\ \E id \in Id : RR!RRSpawn(id)
<1>1. PICK id \in Id :
        /\ FreeSlot(id) /\ tasks' = tasks \cup {id}
        /\ context' = [context EXCEPT ![id] = "trampoline"]
        /\ enqueue_ready(id) /\ TASK_COUNT' = TASK_COUNT + 1
  BY ZenonT(30) DEF spawn
<1>2. /\ UNCHANGED <<current, TURNS, flags, on_cpu, pc, eflags_if>> /\ pc = "run"
  BY DEF spawn
<1>3. id \notin tasks
  BY <1>1 DEF FreeSlot
<1>4. /\ TypeOK /\ QueueHoldsTheRest /\ ready_len < MAX_TASKS /\ current \in tasks
      /\ ready_len \in Nat /\ MAX_TASKS \in Nat \ {0}
  BY SchedulerAssumption DEF IInv, QueueHoldsTheRest, TypeOK
<1>5. /\ Queue' = Append(Queue, id)
      /\ ready' \in [Id -> Id] /\ ready_len' = ready_len + 1 /\ ready_head' = ready_head
  BY <1>1, <1>4, EnqueueAppends
<1>6. /\ Queue \in Seq(Id) /\ Len(Queue) = ready_len
  BY <1>4, QueueIsSeq
<1>7. \A i \in 1 .. Len(Queue) : Queue[i] # id
  BY <1>3, <1>4, <1>6 DEF QueueHoldsTheRest
<1>8. TASK_COUNT' = Cardinality(tasks') /\ TASK_COUNT' <= MAX_TASKS
  <2>1. IsFiniteSet(Id) /\ Cardinality(Id) = MAX_TASKS
    <3>1. 0 \in Int /\ MAX_TASKS - 1 \in Int /\ ~(0 > MAX_TASKS - 1)
      BY <1>4
    <3>2. IsFiniteSet(0 .. MAX_TASKS - 1) /\ Cardinality(0 .. MAX_TASKS - 1) = (MAX_TASKS - 1) - 0 + 1
      BY <3>1, FS_Interval
    <3> QED BY <1>4, <3>2 DEF Id
  <2>2. tasks \subseteq Id /\ tasks' \subseteq Id
    BY <1>1, <1>4 DEF TypeOK
  <2>3. IsFiniteSet(tasks)
    BY <2>1, <2>2, FS_Subset
  <2>4. Cardinality(tasks') = Cardinality(tasks) + 1
    BY <1>1, <1>3, <2>3, FS_AddElement
  <2>5. Cardinality(tasks') <= MAX_TASKS
    BY <2>1, <2>2, FS_Subset
  <2> QED BY <1>1, <2>4, <2>5 DEF IInv
<1>9. ready_len + 1 < MAX_TASKS
  BY <1>1, <1>4, <1>8 DEF IInv
<1>10. TypeOK'
  BY <1>1, <1>2, <1>4, <1>5, <1>8 DEF TypeOK, Context, IInv
<1>11. QueueHoldsTheRest'
  <2>1. \A i, j \in 1 .. Len(Queue) : Queue[i] = Queue[j] => i = j
    BY <1>4, <1>6 DEF QueueHoldsTheRest
  <2>2. /\ \A i, j \in 1 .. ready_len' : Queue'[i] = Queue'[j] => i = j
        /\ {Queue'[i] : i \in 1 .. ready_len'} = {Queue[i] : i \in 1 .. ready_len} \cup {id}
    BY <1>5, <1>6, <1>7, <2>1, AppendKeepsRest
  <2>3. {Queue[i] : i \in 1 .. ready_len} = tasks \ {current}
    BY <1>4 DEF QueueHoldsTheRest
  <2>4. tasks' \ {current'} = (tasks \ {current}) \cup {id} /\ current' \in tasks'
    BY <1>1, <1>2, <1>3, <1>4
  <2> QED BY <1>5, <1>9, <2>2, <2>3, <2>4, ZenonT(30) DEF QueueHoldsTheRest
<1>12. RR!RRSpawn(id)
  <2>1. id # current
    BY <1>3, <1>4
  <2>2. DOMAIN Queue = 1 .. Len(Queue)
    BY <1>6
  <2> QED BY <1>2, <1>5, <1>7, <2>1, <2>2 DEF RR!RRSpawn
<1>13. 0 # id /\ on_cpu # id
  BY <1>3 DEF IInv
<1> QED BY <1>1, <1>2, <1>4, <1>5, <1>8, <1>10, <1>11, <1>12, <1>13
        DEF IInv, TypeOK, OnlyTaskZeroIsInterruptible

\* The locked part of yield_now keeps the invariant, and is a yield of the round robin.
LEMMA YieldDecideKeeps ==
  ASSUME IInv, YieldDecide
  PROVE  IInv' /\ (RR!RRYield \/ UNCHANGED <<current, Queue>>)
<1>1. /\ TypeOK /\ QueueHoldsTheRest /\ ready_len < MAX_TASKS /\ current \in tasks /\ current \in Id
      /\ ready_len \in Nat /\ MAX_TASKS \in Nat \ {0} /\ TURN_LIMIT \in Nat \ {0}
  BY SchedulerAssumption DEF IInv, QueueHoldsTheRest, TypeOK
<1>2. /\ pc = "run" /\ rotate_ready(current)
      /\ UNCHANGED <<tasks, TASK_COUNT, context, flags, on_cpu, eflags_if>>
  BY DEF YieldDecide
<1>3. /\ ready' \in [Id -> Id] /\ ready_len' = ready_len /\ ready_head' \in Id
      /\ ready_len = 0 => HeadAfter(current) = current /\ Queue = << >> /\ Queue' = << >>
      /\ ready_len # 0 => /\ HeadAfter(current) = Head(Queue) /\ Queue # << >>
                          /\ Queue' = Append(Tail(Queue), current)
  BY <1>1, <1>2, RotateRotates
<1>4. /\ Queue \in Seq(Id) /\ Len(Queue) = ready_len
  BY <1>1, QueueIsSeq
<1>5. /\ \A i, j \in 1 .. ready_len : Queue[i] = Queue[j] => i = j
      /\ {Queue[i] : i \in 1 .. ready_len} = tasks \ {current}
  BY <1>1 DEF QueueHoldsTheRest
<1>6. CASE ready_len = 0
  <2>1. UNCHANGED <<current, TURNS, pc>>
    BY <1>3, <1>6 DEF YieldDecide
  <2>2. UNCHANGED Queue
    BY <1>3, <1>6
  <2>3. TypeOK'
    BY <1>1, <1>2, <1>3, <2>1 DEF TypeOK
  <2>4. QueueHoldsTheRest'
    BY <1>1, <1>2, <1>3, <2>1, <2>2 DEF QueueHoldsTheRest
  <2> QED BY <1>2, <1>3, <2>1, <2>2, <2>3, <2>4 DEF IInv, OnlyTaskZeroIsInterruptible
<1>7. CASE ready_len # 0
  <2> DEFINE next == Head(Queue)
             rest == Tail(Queue)
  <2>1. /\ 1 \in 1 .. ready_len /\ next = Queue[1] /\ next \in Id
        /\ rest \in Seq(Id) /\ Len(rest) = ready_len - 1
        /\ \A i \in 1 .. ready_len - 1 : rest[i] = Queue[i + 1]
    <3>1. /\ Head(Queue) \in Id /\ Tail(Queue) \in Seq(Id) /\ Len(Tail(Queue)) = Len(Queue) - 1
          /\ \A i \in 1 .. Len(Tail(Queue)) : Tail(Queue)[i] = Queue[i + 1]
      BY <1>3, <1>4, <1>7, TailIs
    <3> QED BY <1>1, <1>4, <1>7, <3>1
  <2>2. next \in tasks /\ next # current
    BY <1>5, <2>1
  <2>3. /\ current' = next /\ pc' = "switch"
        /\ TURNS' = [TURNS EXCEPT ![next] = (@ + 1) % TURN_LIMIT]
    BY <1>3, <1>7, <2>2 DEF YieldDecide
  <2>4. TURNS' \in [Id -> 0 .. TURN_LIMIT - 1]
    <3>1. TURNS \in [Id -> 0 .. TURN_LIMIT - 1]
      BY <1>1 DEF TypeOK
    <3>2. (TURNS[next] + 1) % TURN_LIMIT \in 0 .. TURN_LIMIT - 1
      BY <1>1, <2>1, <3>1
    <3> QED BY <2>3, <3>1, <3>2, ZenonT(30)
  <2>5. TypeOK'
    BY <1>1, <1>2, <1>3, <2>1, <2>3, <2>4 DEF TypeOK
  <2>6. \A i \in 1 .. Len(rest) : i + 1 \in 1 .. ready_len /\ rest[i] = Queue[i + 1] /\ i + 1 # 1
    BY <1>1, <2>1
  <2>7. \A i \in 1 .. Len(rest) : rest[i] # current /\ rest[i] # next
    <3> SUFFICES ASSUME NEW i \in 1 .. Len(rest) PROVE rest[i] # current /\ rest[i] # next
      OBVIOUS
    <3>1. i + 1 \in 1 .. ready_len /\ rest[i] = Queue[i + 1] /\ i + 1 # 1
      BY <2>6
    <3>2. Queue[i + 1] \in tasks \ {current}
      BY <1>5, <3>1, ZenonT(30)
    <3>3. Queue[i + 1] # Queue[1]
      BY <1>5, <2>1, <3>1
    <3> QED BY <2>1, <3>1, <3>2, <3>3
  <2>8. \A i, j \in 1 .. Len(rest) : rest[i] = rest[j] => i = j
    <3> SUFFICES ASSUME NEW i \in 1 .. Len(rest), NEW j \in 1 .. Len(rest), rest[i] = rest[j]
                 PROVE  i = j
      OBVIOUS
    <3>1. i + 1 = j + 1
      BY <1>5, <2>6
    <3> QED BY <3>1
  <2>9. {rest[i] : i \in 1 .. Len(rest)} = (tasks \ {current}) \ {next}
    <3>1. ASSUME NEW t \in (tasks \ {current}) \ {next} PROVE \E i \in 1 .. Len(rest) : t = rest[i]
      <4>1. PICK k \in 1 .. ready_len : t = Queue[k]
        BY <1>5
      <4>2. k # 1
        BY <2>1, <4>1
      <4>3. k - 1 \in 1 .. Len(rest) /\ (k - 1) + 1 = k
        BY <1>1, <2>1, <4>2
      <4> QED BY <2>1, <4>1, <4>3, ZenonT(30)
    <3>2. ASSUME NEW i \in 1 .. Len(rest) PROVE rest[i] \in (tasks \ {current}) \ {next}
      BY <1>5, <2>6, <2>7
    <3> QED BY <3>1, <3>2
  <2>10. Len(rest) + 1 = ready_len'
    BY <1>1, <1>3, <2>1
  <2>11. /\ \A i, j \in 1 .. ready_len' : Queue'[i] = Queue'[j] => i = j
         /\ {Queue'[i] : i \in 1 .. ready_len'} = {rest[i] : i \in 1 .. Len(rest)} \cup {current}
    <3>1. Queue' = Append(rest, current) /\ rest \in Seq(Id) /\ current \in Id
      BY <1>1, <1>3, <1>7, <2>1
    <3>2. \A i \in 1 .. Len(rest) : rest[i] # current
      BY <2>7
    <3> HIDE DEF rest
    <3>3. /\ \A i, j \in 1 .. Len(rest) + 1 : Append(rest, current)[i] = Append(rest, current)[j] => i = j
          /\ {Append(rest, current)[i] : i \in 1 .. Len(rest) + 1}
               = {rest[i] : i \in 1 .. Len(rest)} \cup {current}
      BY <2>8, <3>1, <3>2, AppendKeepsRest
    <3> QED BY <2>10, <3>1, <3>3
  <2>12. ((tasks \ {current}) \ {next}) \cup {current} = tasks' \ {current'}
    BY <1>1, <1>2, <2>2, <2>3
  <2>13. QueueHoldsTheRest'
    BY <1>1, <1>2, <1>3, <2>2, <2>3, <2>9, <2>11, <2>12, ZenonT(30) DEF QueueHoldsTheRest
  <2>14. RR!RRYield
    BY <1>3, <1>7, <2>3 DEF RR!RRYield
  <2> QED BY <1>2, <1>3, <2>2, <2>3, <2>5, <2>13, <2>14 DEF IInv, OnlyTaskZeroIsInterruptible
<1> QED BY <1>6, <1>7

\* The switch of stacks keeps the invariant.
LEMMA YieldSwitchKeeps ==
  ASSUME IInv, YieldSwitch
  PROVE  IInv' /\ UNCHANGED <<current, Queue>>
<1>1. UNCHANGED <<tasks, ready, ready_head, ready_len, current, TASK_COUNT, TURNS>>
  BY DEF YieldSwitch, table
<1>2. UNCHANGED Queue
  BY <1>1 DEF Queue, Slot
<1>3. QueueHoldsTheRest'
  BY <1>1, <1>2 DEF IInv, QueueHoldsTheRest
<1>4. /\ context \in [Id -> Context] /\ flags \in [Id -> BOOLEAN]
      /\ current \in tasks /\ on_cpu \in tasks /\ tasks \subseteq Id /\ current # on_cpu
  BY DEF IInv, TypeOK, QueueHoldsTheRest, YieldSwitch
<1>5. TypeOK'
  BY <1>1, <1>4 DEF IInv, TypeOK, YieldSwitch, Context
<1>6. (eflags_if <=> on_cpu = 0)'
  BY <1>4 DEF IInv, YieldSwitch, OnlyTaskZeroIsInterruptible
<1> QED BY <1>1, <1>2, <1>3, <1>4, <1>5, <1>6 DEF IInv, YieldSwitch, OnlyTaskZeroIsInterruptible

\* Every step keeps the invariant.
LEMMA NextKeeps == IInv /\ [Next]_vars => IInv'
<1> SUFFICES ASSUME IInv, [Next]_vars PROVE IInv'
  OBVIOUS
<1>1. CASE UNCHANGED vars
  <2>1. UNCHANGED Queue
    BY <1>1 DEF vars, table, cpu, Queue, Slot
  <2> QED BY <1>1, <2>1 DEF vars, table, cpu, IInv, TypeOK, QueueHoldsTheRest, OnlyTaskZeroIsInterruptible
<1> QED BY <1>1, SpawnKeeps, YieldDecideKeeps, YieldSwitchKeeps DEF Next

\* The inductive invariant holds in every reachable state, for a table of any
\* size (init, spawn, yield_now, context_switch).
THEOREM Inductive == Spec => []IInv
BY InitEstablishes, NextKeeps, PTL DEF Spec

\* Every variable keeps its type; in particular TASK_COUNT never exceeds the
\* table and enqueue_ready never overflows the ring.
THEOREM TypeCorrect == Spec => []TypeOK
<1>1. IInv => TypeOK
  BY DEF IInv
<1> QED BY <1>1, Inductive, PTL

\* In a table of any size the ring holds every task but the current one, once.
THEOREM NoTaskIsLost == Spec => []QueueHoldsTheRest
<1>1. IInv => QueueHoldsTheRest
  BY DEF IInv
<1> QED BY <1>1, Inductive, PTL

\* context_switch always loads an esp that was saved, of another stack, and
\* interrupts are on exactly while task 0 is on the CPU.
THEOREM EverySwitchIsSound == Spec => []SwitchesAreSound
<1>1. IInv => SwitchesToSavedStack
  BY DEF IInv, SwitchesToSavedStack, QueueHoldsTheRest
<1>2. IInv => OnlyTaskZeroIsInterruptible
  BY DEF IInv
<1>3. IInv => SwitchesAreSound
  BY <1>1, <1>2 DEF SwitchesAreSound
<1> QED BY <1>3, Inductive, PTL

\* The ring and the table implement the FIFO round robin: every spawn appends a
\* task, every yield_now rotates, nothing else changes who runs.
THEOREM RefinesRoundRobin == Spec => RR!RRSafe
<1>1. Init => RR!RRInit
  <2> SUFFICES ASSUME Init PROVE current \in Id /\ Queue = << >>
    BY DEF RR!RRInit
  <2>1. current \in Id
    BY SchedulerAssumption DEF Init, Id
  <2>2. Queue = << >>
    BY DEF Init, Queue
  <2> QED BY <2>1, <2>2
<1>2. IInv /\ [Next]_vars => [RR!RRNext]_(RR!rr_vars)
  <2> SUFFICES ASSUME IInv, [Next]_vars PROVE RR!RRNext \/ UNCHANGED <<current, Queue>>
    BY DEF RR!rr_vars
  <2>1. CASE spawn
    BY <2>1, SpawnKeeps DEF RR!RRNext
  <2>2. CASE YieldDecide
    BY <2>2, YieldDecideKeeps DEF RR!RRNext
  <2>3. CASE YieldSwitch
    BY <2>3, YieldSwitchKeeps
  <2>4. CASE UNCHANGED vars
    BY <2>4 DEF vars, table, Queue, Slot
  <2> QED BY <2>1, <2>2, <2>3, <2>4 DEF Next
<1> QED BY <1>1, <1>2, Inductive, PTL DEF Spec, RR!RRSafe
-----------------------------------------------------------------------------
(***************************************************************************)
(* The kernel's tasks on the scheduler.                                    *)
(***************************************************************************)

\* What the loops do to the scheduler is one of its operations.
LEMMA ClockStepIsStep == ClockNext => [Next]_vars
BY DEF ClockNext, Task, timer_interrupt, spawn_demos, read_seconds, report, yield_now, switch,
       hlt, Next, vars

\* The tasks of main.rs are users of the scheduler like any other: the
\* composition implements Scheduler, so what is proved of it holds here.
THEOREM ClockUsesTheScheduler == ClockSpec => Spec
<1>1. ClockInit => Init
  BY DEF ClockInit
<1>2. [ClockNext]_clock_vars => [Next]_vars
  BY ClockStepIsStep DEF clock_vars
<1> QED BY <1>1, <1>2, PTL DEF ClockSpec, Spec

(***************************************************************************)
(* Turns.                                                                  *)
(***************************************************************************)
Points == {"spawn", "read", "report", "yield", "hlt", "halted"}

\* The task k places behind t in a ring of TASKS.
Behind(t, k) == IF t + k < TASKS THEN t + k ELSE t + k - TASKS

Bumped(T) == (T + 1) % TURN_LIMIT

\* While kernel_main spawns, nobody has had a turn and the demos queue up in order.
Spawning ==
  /\ at[0] = "spawn"
  /\ current = 0 /\ tasks = 0 .. ready_len
  /\ \A k \in 1 .. ready_len : Queue[k] = k
  /\ \A t \in Tasks : TURNS[t] = 0

\* In this round, the turn counts of those it has reached are one ahead.
Round(T) == \A t \in Tasks : TURNS[t] = IF 1 <= t /\ t <= current THEN Bumped(T) ELSE T

\* Once all are spawned the queue is the ring behind the current task.
Rounds ==
  /\ at[0] # "spawn"
  /\ tasks = Tasks /\ ready_len = TASKS - 1
  /\ \A k \in 1 .. ready_len : Queue[k] = Behind(current, k)
  /\ \E T \in 0 .. TURN_LIMIT - 1 : Round(T)

TurnInv ==
  /\ IInv
  /\ at \in [Tasks -> Points]
  /\ \A t \in Tasks : t # 0 => at[t] # "spawn"
  /\ Spawning \/ Rounds

\* The constants, and the ids as intervals.
LEMMA ClockConstants ==
  /\ TASKS \in Nat /\ TASKS >= 1 /\ TASKS <= MAX_TASKS /\ MAX_TASKS \in Nat
  /\ TURN_LIMIT \in Nat /\ TURN_LIMIT >= 1
  /\ Tasks \subseteq Id /\ 0 \in Tasks
BY ClockAssumption, SchedulerAssumption DEF Tasks, Id

\* The modulus of a turn count only matters at the top.
LEMMA BumpedIs ==
  ASSUME NEW T \in 0 .. TURN_LIMIT - 1
  PROVE  /\ Bumped(T) = IF T + 1 = TURN_LIMIT THEN 0 ELSE T + 1
         /\ Bumped(T) \in 0 .. TURN_LIMIT - 1
<1>1. CASE T + 1 = TURN_LIMIT
  BY <1>1, ClockConstants DEF Bumped
<1>2. CASE T + 1 # TURN_LIMIT
  BY <1>2, ClockConstants DEF Bumped
<1> QED BY <1>1, <1>2

\* Remainders of what is within one modulus of its range.
LEMMA Residues ==
  ASSUME NEW n \in Nat, n >= 1, NEW x \in Int
  PROVE  /\ x \in 0 .. n - 1 => x % n = x
         /\ (x < 0 /\ -n <= x) => x % n = x + n
OBVIOUS

\* Counts of the same round differ by at most one, modulo the width.
LEMMA CloseTurns ==
  ASSUME NEW T \in 0 .. TURN_LIMIT - 1, NEW x \in {T, Bumped(T)}, NEW y \in {T, Bumped(T)}
  PROVE  (x - y) % TURN_LIMIT \in {0, 1, TURN_LIMIT - 1}
<1>1. T \in Nat /\ T <= TURN_LIMIT - 1 /\ TURN_LIMIT \in Nat /\ TURN_LIMIT >= 1
  BY ClockConstants
<1>2. Bumped(T) = IF T + 1 = TURN_LIMIT THEN 0 ELSE T + 1
  BY BumpedIs
<1>3. CASE x = y
  <2>1. x - y = 0
    BY <1>1, <1>2, <1>3
  <2> QED BY <2>1, <1>1, Residues
<1>4. CASE x = T /\ y = Bumped(T) /\ x # y
  <2>1. CASE T + 1 = TURN_LIMIT
    <3>1. x - y = TURN_LIMIT - 1
      BY <2>1, <1>1, <1>2, <1>4
    <3> QED BY <3>1, <1>1, Residues
  <2>2. CASE T + 1 # TURN_LIMIT
    <3>1. x - y = -1 /\ -TURN_LIMIT <= -1 /\ -1 + TURN_LIMIT = TURN_LIMIT - 1
      BY <2>2, <1>1, <1>2, <1>4
    <3> QED BY <3>1, <1>1, Residues
  <2> QED BY <2>1, <2>2
<1>5. CASE x = Bumped(T) /\ y = T /\ x # y
  <2>1. CASE T + 1 = TURN_LIMIT
    <3>1. x - y = 1 - TURN_LIMIT /\ 1 - TURN_LIMIT < 0 /\ 1 - TURN_LIMIT + TURN_LIMIT = 1
      BY <2>1, <1>1, <1>2, <1>5
    <3> QED BY <3>1, <1>1, Residues
  <2>2. CASE T + 1 # TURN_LIMIT
    <3>1. x - y = 1 /\ 1 \in 0 .. TURN_LIMIT - 1
      BY <2>2, <1>1, <1>2, <1>5
    <3> QED BY <3>1, <1>1, Residues
  <2> QED BY <2>1, <2>2
<1> QED BY <1>3, <1>4, <1>5

\* The invariant of the turns holds when kernel_main begins to spawn.
LEMMA TurnInit == ClockInit => TurnInv
<1> SUFFICES ASSUME ClockInit PROVE TurnInv
  OBVIOUS
<1>1. IInv
  BY InitEstablishes DEF ClockInit
<1>2. at \in [Tasks -> Points] /\ at[0] = "spawn"
  BY ClockConstants DEF ClockInit, Points
<1>3. \A t \in Tasks : t # 0 => at[t] # "spawn"
  BY DEF ClockInit
<1>4. current = 0 /\ tasks = 0 .. ready_len /\ ready_len = 0
  BY DEF ClockInit, Init
<1>5. \A t \in Tasks : TURNS[t] = 0
  BY ClockConstants DEF ClockInit, Init
<1>6. \A k \in 1 .. ready_len : Queue[k] = k
  BY <1>4
<1> QED BY <1>1, <1>2, <1>3, <1>4, <1>5, <1>6 DEF TurnInv, Spawning

\* A task whose loop takes a step is the current one, and one of Tasks.
LEMMA Runs ==
  ASSUME TurnInv
  PROVE  /\ pc = "run" => on_cpu = current /\ on_cpu \in Tasks
         /\ eflags_if => on_cpu = 0
BY ClockConstants DEF TurnInv, IInv, OnlyTaskZeroIsInterruptible, QueueHoldsTheRest, Spawning, Rounds

\* Steps that leave the table of tasks alone and spawn nothing.
LEMMA TableKeeps ==
  ASSUME TurnInv, IInv', UNCHANGED table, at' \in [Tasks -> Points],
         \A t \in Tasks : at'[t] = "spawn" <=> at[t] = "spawn"
  PROVE  TurnInv'
<1>1. UNCHANGED <<tasks, ready, ready_head, ready_len, current, TASK_COUNT, TURNS>>
  BY DEF table
<1>2. UNCHANGED Queue
  BY <1>1 DEF Queue, Slot
<1>3. 0 \in Tasks
  BY ClockConstants
<1>4. Spawning => Spawning'
  BY <1>1, <1>2, <1>3 DEF Spawning
<1>5. Rounds => Rounds'
  BY <1>1, <1>2, <1>3 DEF Rounds, Round
<1> QED BY <1>4, <1>5 DEF TurnInv

\* The next spawn takes the slot after the last, and the last one ends the spawning.
LEMMA SpawnTurns ==
  ASSUME TurnInv, IInv', spawn_demos
  PROVE  TurnInv'
<1>1. pc = "run" /\ on_cpu = current /\ on_cpu \in Tasks /\ at[on_cpu] = "spawn"
  BY Runs DEF spawn_demos, Goes
<1>2. Spawning /\ on_cpu = 0
  BY <1>1 DEF TurnInv, Rounds
<1>3. /\ TypeOK /\ ready_len < MAX_TASKS /\ ready_len \in Nat /\ TASK_COUNT = ready_len + 1
      /\ tasks = 0 .. ready_len /\ current = 0
  <2>1. TypeOK /\ QueueHoldsTheRest /\ TASK_COUNT = ready_len + 1
    BY DEF TurnInv, IInv
  <2>2. ready_len < MAX_TASKS /\ ready_len \in Nat
    BY <2>1, ClockConstants DEF TypeOK, QueueHoldsTheRest
  <2> QED BY <1>2, <2>1, <2>2 DEF Spawning
<1>4. PICK id \in Id :
        /\ FreeSlot(id) /\ tasks' = tasks \cup {id} /\ enqueue_ready(id)
        /\ TASK_COUNT' = TASK_COUNT + 1
  BY DEF spawn_demos, spawn
<1>5. UNCHANGED <<current, TURNS>>
  BY DEF spawn_demos, spawn
<1>6. id = ready_len + 1
  <2>1. id \in Nat /\ id \in 0 .. MAX_TASKS - 1 /\ ~(id \in 0 .. ready_len)
    BY <1>3, <1>4, ClockConstants DEF FreeSlot, Id
  <2>2. id >= ready_len + 1 /\ ready_len + 1 \in 0 .. MAX_TASKS - 1
    BY <1>3, <2>1, ClockConstants
  <2>3. ready_len + 1 \in Id \ tasks
    BY <1>3, <2>2 DEF Id
  <2>4. id <= ready_len + 1
    BY <1>4, <2>3 DEF FreeSlot
  <2> QED BY <1>3, <2>1, <2>2, <2>4
<1>7. Queue' = Append(Queue, id) /\ ready_len' = ready_len + 1
  BY <1>3, <1>4, EnqueueAppends
<1>8. \A k \in 1 .. ready_len' : Queue'[k] = k
  <2>1. Queue \in Seq(Id) /\ Len(Queue) = ready_len
    BY <1>3, QueueIsSeq
  <2>2. /\ \A k \in 1 .. ready_len : Append(Queue, id)[k] = Queue[k]
        /\ Append(Queue, id)[ready_len + 1] = id
    BY <2>1, AppendIs
  <2>3. \A k \in 1 .. ready_len : Queue[k] = k
    BY <1>2 DEF Spawning
  <2>4. \A k \in 1 .. ready_len + 1 : k \in 1 .. ready_len \/ k = ready_len + 1
    BY <1>3
  <2> QED BY <1>6, <1>7, <2>2, <2>3, <2>4
<1>9. tasks' = 0 .. ready_len'
  BY <1>3, <1>4, <1>6, <1>7
<1>10. current' = 0 /\ \A t \in Tasks : TURNS'[t] = 0
  BY <1>2, <1>5 DEF Spawning
<1>11. /\ at' = [at EXCEPT ![0] = IF TASK_COUNT' = TASKS THEN "read" ELSE "spawn"]
       /\ at \in [Tasks -> Points] /\ 0 \in Tasks
  BY <1>2, ClockConstants DEF spawn_demos, Goes, TurnInv
<1>12. at' \in [Tasks -> Points] /\ \A t \in Tasks : t # 0 => at'[t] # "spawn"
  BY <1>11 DEF TurnInv, Points
<1>13. CASE TASK_COUNT' # TASKS
  <2>1. at'[0] = "spawn"
    BY <1>11, <1>13
  <2> QED BY <1>8, <1>9, <1>10, <1>12, <2>1 DEF TurnInv, Spawning
<1>14. CASE TASK_COUNT' = TASKS
  <2>1. at'[0] = "read"
    BY <1>11, <1>14
  <2>2. ready_len' = TASKS - 1 /\ tasks' = Tasks
    BY <1>3, <1>4, <1>7, <1>9, <1>14, ClockConstants DEF Tasks
  <2>3. \A k \in 1 .. ready_len' : Queue'[k] = Behind(current', k)
    BY <1>8, <1>10, <2>2, ClockConstants DEF Behind
  <2>4. Round(0)' /\ 0 \in 0 .. TURN_LIMIT - 1
    <3>1. \A t \in Tasks : ~(1 <= t /\ t <= 0)
      BY ClockConstants DEF Tasks
    <3> QED BY <1>10, <3>1, ClockConstants DEF Round
  <2> QED BY <1>12, <2>1, <2>2, <2>3, <2>4 DEF TurnInv, Rounds
<1> QED BY <1>13, <1>14

\* The ring one place on.
LEMMA BehindNext ==
  ASSUME NEW t \in Tasks
  PROVE  /\ TASKS > 1 => Behind(t, 1) \in Tasks
         /\ \A k \in 1 .. TASKS - 2 : Behind(Behind(t, 1), k) = Behind(t, k + 1)
         /\ TASKS > 1 => Behind(Behind(t, 1), TASKS - 1) = t
BY ClockConstants DEF Behind, Tasks

\* A yield hands the turn to the next of the ring; after the last demo the shell
\* closes the round.
LEMMA YieldTurns ==
  ASSUME TurnInv, IInv', yield_now
  PROVE  TurnInv'
<1>1. pc = "run" /\ on_cpu = current /\ on_cpu \in Tasks /\ at[on_cpu] = "yield"
  BY Runs DEF yield_now, Goes
<1>2. Rounds /\ current \in Tasks
  BY <1>1 DEF TurnInv, Spawning
<1>3. /\ TypeOK /\ ready_len < MAX_TASKS /\ ready_len \in Nat /\ current \in Id
      /\ ready_len = TASKS - 1 /\ tasks = Tasks
  BY <1>2 DEF TurnInv, IInv, TypeOK, QueueHoldsTheRest, Rounds
<1>4. YieldDecide /\ rotate_ready(current) /\ tasks' = tasks
  BY DEF yield_now, YieldDecide
<1>5. /\ at' = [at EXCEPT ![on_cpu] = IF on_cpu = 0 THEN "hlt" ELSE "read"]
      /\ at \in [Tasks -> Points]
  BY DEF yield_now, Goes, TurnInv
<1>6. /\ at' \in [Tasks -> Points] /\ \A t \in Tasks : t # 0 => at'[t] # "spawn"
      /\ at'[0] # "spawn"
  BY <1>1, <1>2, <1>5, ClockConstants DEF Points, TurnInv, Rounds
<1>7. /\ ready_len' = ready_len
      /\ ready_len = 0 => HeadAfter(current) = current /\ Queue = << >> /\ Queue' = << >>
      /\ ready_len # 0 => /\ HeadAfter(current) = Head(Queue) /\ Queue # << >>
                          /\ Queue' = Append(Tail(Queue), current)
  BY <1>3, <1>4, RotateRotates
<1>8. CASE ready_len = 0
  <2>1. UNCHANGED <<current, TURNS>>
    BY <1>4, <1>7, <1>8 DEF YieldDecide
  <2>2. Rounds'
    BY <1>2, <1>3, <1>4, <1>6, <1>7, <1>8, <2>1 DEF Rounds, Round
  <2> QED BY <1>6, <2>2 DEF TurnInv
<1>9. CASE ready_len # 0
  <2> DEFINE next == Behind(current, 1)
  <2>1. Queue \in Seq(Id) /\ Len(Queue) = ready_len
    BY <1>3, QueueIsSeq
  <2>2. 1 \in 1 .. ready_len /\ TASKS > 1 /\ TASKS \in Nat
    BY <1>3, <1>9, ClockConstants
  <2>3. Head(Queue) = Queue[1] /\ Queue[1] = next
    BY <1>2, <1>7, <1>9, <2>1, <2>2 DEF Rounds
  <2>4. next \in Tasks /\ next # current
    BY <1>2, <2>2, ClockConstants DEF Behind, Tasks
  <2>5. current' = next /\ TURNS' = [TURNS EXCEPT ![next] = (@ + 1) % TURN_LIMIT]
    BY <1>4, <1>7, <1>9, <2>3, <2>4 DEF YieldDecide
  <2>6. \A k \in 1 .. ready_len' : Queue'[k] = Behind(current', k)
    <3>1. /\ Tail(Queue) \in Seq(Id) /\ Len(Tail(Queue)) = ready_len - 1
          /\ \A k \in 1 .. ready_len - 1 : Tail(Queue)[k] = Queue[k + 1]
      BY <1>7, <1>9, <2>1, TailIs
    <3>2. /\ \A k \in 1 .. ready_len - 1 : Append(Tail(Queue), current)[k] = Tail(Queue)[k]
          /\ Append(Tail(Queue), current)[(ready_len - 1) + 1] = current
      BY <1>3, <3>1, AppendIs
    <3>3. ASSUME NEW k \in 1 .. ready_len - 1 PROVE Queue'[k] = Behind(next, k)
      <4>1. k + 1 \in 1 .. ready_len /\ k \in 1 .. TASKS - 2
        BY <1>3, <2>2
      <4>2. Queue[k + 1] = Behind(current, k + 1)
        BY <1>2, <4>1 DEF Rounds
      <4>3. Behind(next, k) = Behind(current, k + 1)
        BY <1>2, <4>1, BehindNext
      <4> QED BY <1>7, <1>9, <3>1, <3>2, <4>2, <4>3
    <3>4. Queue'[ready_len] = Behind(next, ready_len)
      <4>1. (ready_len - 1) + 1 = ready_len
        BY <1>3
      <4>2. Behind(next, TASKS - 1) = current
        BY <1>2, <2>2, BehindNext
      <4> QED BY <1>3, <1>7, <1>9, <3>2, <4>1, <4>2, ZenonT(30)
    <3>5. \A k \in 1 .. ready_len : k \in 1 .. ready_len - 1 \/ k = ready_len
      BY <1>3
    <3> QED BY <1>7, <2>5, <3>3, <3>4, <3>5
  <2>7. PICK T \in 0 .. TURN_LIMIT - 1 : Round(T)
    BY <1>2 DEF Rounds
  <2>8. TURNS \in [Id -> 0 .. TURN_LIMIT - 1] /\ next \in Id /\ Tasks \subseteq Id
    BY <1>3, <2>4, ClockConstants DEF TypeOK
  <2>9. \E U \in 0 .. TURN_LIMIT - 1 : Round(U)'
    <3>1. CASE current + 1 < TASKS
      <4>1. next = current + 1
        BY <3>1 DEF Behind
      <4>2. TURNS[next] = T
        BY <1>2, <2>4, <2>7, <4>1, ClockConstants DEF Round, Tasks
      <4>3. ASSUME NEW t \in Tasks
            PROVE  TURNS'[t] = IF 1 <= t /\ t <= current' THEN Bumped(T) ELSE T
        <5>1. t \in Id /\ t \in Nat /\ current \in Nat
          BY <1>2, <2>8, ClockConstants DEF Tasks
        <5>2. CASE t = next
          <6>1. TURNS'[t] = Bumped(T)
            BY <2>5, <2>8, <4>2, <5>2 DEF Bumped
          <6>2. 1 <= t /\ t <= current'
            BY <2>5, <4>1, <5>1, <5>2
          <6> QED BY <6>1, <6>2
        <5>3. CASE t # next
          <6>1. TURNS'[t] = TURNS[t]
            BY <2>5, <2>8, <5>1, <5>3
          <6>2. TURNS[t] = IF 1 <= t /\ t <= current THEN Bumped(T) ELSE T
            BY <2>7 DEF Round
          <6>3. t <= current' <=> t <= current
            BY <2>5, <4>1, <5>1, <5>3
          <6> QED BY <6>1, <6>2, <6>3
        <5> QED BY <5>2, <5>3
      <4> QED BY <4>3 DEF Round
    <3>2. CASE ~(current + 1 < TASKS)
      <4>1. current = TASKS - 1 /\ next = 0
        BY <1>2, <3>2, ClockConstants DEF Behind, Tasks
      <4>2. TURNS[0] = T
        BY <2>7, ClockConstants DEF Round
      <4>3. ASSUME NEW t \in Tasks PROVE TURNS'[t] = Bumped(T)
        <5>1. CASE t = 0
          BY <2>5, <2>8, <4>1, <4>2, <5>1 DEF Bumped
        <5>2. CASE t # 0
          <6>1. t \in Id /\ 1 <= t /\ t <= current
            BY <2>8, <4>1, <5>2, ClockConstants DEF Tasks
          <6>2. TURNS'[t] = TURNS[t]
            BY <2>5, <2>8, <4>1, <5>2, <6>1
          <6> QED BY <2>7, <6>1, <6>2 DEF Round
        <5> QED BY <5>1, <5>2
      <4>4. \A t \in Tasks : ~(1 <= t /\ t <= current')
        BY <2>5, <4>1, ClockConstants DEF Tasks
      <4>5. Round(Bumped(T))'
        BY <4>3, <4>4 DEF Round
      <4> QED BY <4>5, BumpedIs
    <3> QED BY <3>1, <3>2
  <2>10. Rounds'
    BY <1>3, <1>4, <1>6, <1>7, <2>6, <2>9 DEF Rounds
  <2> QED BY <1>6, <2>10 DEF TurnInv
<1> QED BY <1>8, <1>9

\* Every step of the clock keeps it.
LEMMA TurnStep == TurnInv /\ [ClockNext]_clock_vars => TurnInv'
<1> SUFFICES ASSUME TurnInv, [ClockNext]_clock_vars PROVE TurnInv'
  OBVIOUS
<1>1. IInv'
  <2>1. [Next]_vars
    BY ClockStepIsStep DEF clock_vars
  <2> QED BY <2>1, NextKeeps DEF TurnInv
<1>2. at \in [Tasks -> Points] /\ 0 \in Tasks
  BY ClockConstants DEF TurnInv
<1>3. CASE spawn_demos
  BY <1>1, <1>3, SpawnTurns
<1>4. CASE yield_now
  BY <1>1, <1>4, YieldTurns
<1>5. CASE timer_interrupt \/ read_seconds \/ report \/ hlt
  <2>1. UNCHANGED table
    BY <1>5 DEF timer_interrupt, read_seconds, report, hlt, vars
  <2>2. on_cpu \in Tasks
    BY <1>2, <1>5, Runs DEF timer_interrupt, read_seconds, report, hlt, Goes
  <2>3. \/ at' = at
        \/ \E to \in Points \ {"spawn"} : at[on_cpu] # "spawn" /\ at' = [at EXCEPT ![on_cpu] = to]
    BY <1>5 DEF timer_interrupt, read_seconds, report, hlt, Goes, Points
  <2>4. /\ at' \in [Tasks -> Points]
        /\ \A t \in Tasks : at'[t] = "spawn" <=> at[t] = "spawn"
    BY <1>2, <2>2, <2>3
  <2> QED BY <1>1, <2>1, <2>4, TableKeeps
<1>6. CASE switch \/ UNCHANGED clock_vars
  <2>1. UNCHANGED table /\ at' = at
    BY <1>6 DEF switch, YieldSwitch, clock_vars, vars
  <2> QED BY <1>1, <1>2, <2>1, TableKeeps
<1> QED BY <1>3, <1>4, <1>5, <1>6 DEF ClockNext, Task

\* However many demos there are and however wide the counters, the turn counts
\* stay within one of each other, and agree whenever the shell runs (shell_task's
\* "turns=" report, yield_now).
THEOREM TurnsAreFair == ClockSpec => []TurnsStayClose
<1>1. TurnInv => TurnsStayClose
  <2> SUFFICES ASSUME TurnInv PROVE TurnsStayClose
    OBVIOUS
  <2>1. PICK T \in 0 .. TURN_LIMIT - 1 : Round(T)
    <3>1. CASE Rounds
      BY <3>1 DEF Rounds
    <3>2. CASE Spawning
      <4>1. \A t \in Tasks : ~(1 <= t /\ t <= 0)
        BY ClockConstants DEF Tasks
      <4>2. Round(0) /\ 0 \in 0 .. TURN_LIMIT - 1
        BY <3>2, <4>1, ClockConstants DEF Spawning, Round
      <4> QED BY <4>2
    <3> QED BY <3>1, <3>2 DEF TurnInv
  <2>2. ASSUME NEW t \in Tasks, NEW u \in Tasks
        PROVE  (TURNS[t] - TURNS[u]) % TURN_LIMIT \in {0, 1, TURN_LIMIT - 1}
    <3>1. TURNS[t] \in {T, Bumped(T)} /\ TURNS[u] \in {T, Bumped(T)}
      BY <2>1 DEF Round
    <3> QED BY <3>1, CloseTurns
  <2>3. ASSUME on_cpu = 0, pc = "run", NEW t \in Tasks PROVE TURNS[t] = TURNS[0]
    <3>1. current = 0
      BY <2>3, Runs
    <3>2. ~(1 <= t /\ t <= 0) /\ 0 \in Tasks /\ ~(1 <= 0)
      BY ClockConstants DEF Tasks
    <3> QED BY <2>1, <3>1, <3>2 DEF Round
  <2> QED BY <2>2, <2>3 DEF TurnsStayClose
<1> QED BY <1>1, TurnInit, TurnStep, PTL DEF ClockSpec

(***************************************************************************)
(* Seconds.  While the tick counter has not wrapped it only grows, and so  *)
(* do the seconds; a task's copies lag behind them.                        *)
(***************************************************************************)
CountInv ==
  /\ TurnInv
  /\ TICKS \in 0 .. MAX_TICKS
  /\ second \in [Tasks -> Nat] /\ last_second \in [Tasks -> Nat] /\ count \in [Tasks -> Nat]
  /\ line \in [tick : Nat, second : Nat]
  /\ \A t \in Tasks : /\ count[t] <= last_second[t]
                      /\ last_second[t] <= second[t] /\ second[t] <= seconds
                      /\ at[t] = "report" => last_second[t] < second[t]
  /\ line.second = last_second[0] /\ line.second <= line.tick \div FREQUENCY_HZ

\* Division by the frequency keeps the order.
LEMMA DivMonotone ==
  ASSUME NEW n \in Nat \ {0}, NEW a \in Nat, NEW b \in Nat, a <= b
  PROVE  a \div n \in Nat /\ a \div n <= b \div n
OBVIOUS

\* The invariant of the seconds holds at boot.
LEMMA CountInit == ClockInit => CountInv
<1> SUFFICES ASSUME ClockInit PROVE CountInv
  OBVIOUS
<1>1. TurnInv /\ 0 \in Tasks
  BY TurnInit, ClockConstants
<1>2. 0 \div FREQUENCY_HZ \in Nat /\ FREQUENCY_HZ \in Nat \ {0} /\ MAX_TICKS \in Nat
  BY ClockAssumption, DivMonotone
<1>3. TICKS = 0 /\ seconds = 0 \div FREQUENCY_HZ
  BY DEF ClockInit, seconds
<1>4. /\ second = [t \in Tasks |-> 0] /\ last_second = [t \in Tasks |-> 0]
      /\ count = [t \in Tasks |-> 0] /\ line = [tick |-> 0, second |-> 0]
      /\ at = [t \in Tasks |-> IF t = 0 THEN "spawn" ELSE "read"]
  BY DEF ClockInit
<1>5. /\ second \in [Tasks -> Nat] /\ last_second \in [Tasks -> Nat] /\ count \in [Tasks -> Nat]
      /\ line \in [tick : Nat, second : Nat]
  BY <1>4
<1>6. \A t \in Tasks : second[t] = 0 /\ last_second[t] = 0 /\ count[t] = 0 /\ at[t] # "report"
  BY <1>4
<1>7. line.second = 0 /\ line.tick = 0
  BY <1>4
<1> QED BY <1>1, <1>2, <1>3, <1>5, <1>6, <1>7 DEF CountInv

\* Every step keeps it, as long as the counter cannot wrap.
LEMMA CountStep ==
  ASSUME MAX_TICKS < U32, CountInv, [ClockNext]_clock_vars
  PROVE  CountInv'
<1>1. TurnInv' /\ TurnInv /\ 0 \in Tasks /\ at \in [Tasks -> Points]
  BY TurnStep, ClockConstants DEF CountInv, TurnInv
<1>2. FREQUENCY_HZ \in Nat \ {0} /\ MAX_TICKS \in Nat /\ U32 \in Nat \ {0}
  BY ClockAssumption
<1>3. TICKS \in Nat /\ TICKS <= MAX_TICKS /\ seconds \in Nat
  <2>1. TICKS \in Nat /\ TICKS <= MAX_TICKS
    BY <1>2 DEF CountInv
  <2> QED BY <1>2, <2>1, DivMonotone DEF seconds
<1>4. CASE timer_interrupt
  <2>1. TICKS' \in Nat /\ TICKS <= TICKS' /\ TICKS' <= MAX_TICKS
    <3>1. CASE TICKS < MAX_TICKS
      <4>1. TICKS' = (TICKS + 1) % U32
        BY <1>4, <3>1 DEF timer_interrupt
      <4>2. TICKS + 1 \in 0 .. U32 - 1
        BY <1>2, <1>3, <3>1
      <4>3. (TICKS + 1) % U32 = TICKS + 1
        BY <1>2, <4>2, Residues
      <4> QED BY <1>2, <1>3, <3>1, <4>1, <4>3
    <3>2. CASE ~(TICKS < MAX_TICKS)
      BY <1>2, <1>3, <1>4, <3>2 DEF timer_interrupt
    <3> QED BY <3>1, <3>2
  <2>2. seconds' \in Nat /\ seconds <= seconds'
    BY <1>2, <1>3, <2>1, DivMonotone, ZenonT(30) DEF seconds
  <2>3. UNCHANGED <<second, last_second, count, line>>
    BY <1>4 DEF timer_interrupt, loops
  <2>4. \A t \in Tasks : at'[t] = "report" => at[t] = "report"
    BY <1>1, <1>4, Runs DEF timer_interrupt
  <2>5. TICKS' \in 0 .. MAX_TICKS
    BY <1>2, <2>1
  <2>6. \A t \in Tasks : second'[t] <= seconds'
    BY <1>3, <2>2, <2>3 DEF CountInv
  <2> QED BY <1>1, <2>3, <2>4, <2>5, <2>6 DEF CountInv
<1>5. CASE spawn_demos \/ yield_now \/ switch \/ hlt
  <2>1. UNCHANGED <<TICKS, second, last_second, count, line>>
    BY <1>5 DEF spawn_demos, yield_now, switch, hlt, loops
  <2>2. pc = "run" => on_cpu \in Tasks
    BY <1>1, Runs
  <2>3. \A t \in Tasks : at'[t] = "report" => at[t] = "report"
    BY <1>1, <1>5, <2>2 DEF spawn_demos, yield_now, switch, hlt, Goes
  <2>4. seconds' = seconds
    BY <2>1 DEF seconds
  <2> QED BY <1>1, <2>1, <2>3, <2>4 DEF CountInv
<1>6. CASE read_seconds
  <2>1. /\ on_cpu \in Tasks /\ at' = [at EXCEPT ![on_cpu] = IF New THEN "report" ELSE "yield"]
        /\ second' = [second EXCEPT ![on_cpu] = seconds]
        /\ UNCHANGED <<TICKS, last_second, count, line>>
    BY <1>1, <1>6, Runs DEF read_seconds, Goes
  <2>2. seconds' = seconds
    BY <2>1 DEF seconds
  <2>3. second' \in [Tasks -> Nat]
    BY <1>3, <2>1 DEF CountInv
  <2>4. ASSUME NEW t \in Tasks
        PROVE  /\ last_second[t] <= second'[t] /\ second'[t] <= seconds
               /\ at'[t] = "report" => last_second[t] < second'[t]
    <3>1. /\ last_second[t] \in Nat /\ second[t] \in Nat
          /\ last_second[t] <= second[t] /\ second[t] <= seconds
          /\ at[t] = "report" => last_second[t] < second[t]
      BY DEF CountInv
    <3>2. CASE t = on_cpu
      <4>1. second'[t] = seconds /\ at'[t] = IF seconds > last_second[t] THEN "report" ELSE "yield"
        BY <1>1, <2>1, <3>2 DEF New, CountInv
      <4> QED BY <1>3, <3>1, <4>1
    <3>3. CASE t # on_cpu
      <4>1. second'[t] = second[t] /\ at'[t] = at[t]
        BY <1>1, <2>1, <3>3 DEF CountInv
      <4> QED BY <3>1, <4>1
    <3> QED BY <3>2, <3>3
  <2> QED BY <1>1, <2>1, <2>2, <2>3, <2>4 DEF CountInv
<1>7. CASE report
  <2>1. /\ on_cpu \in Tasks /\ at[on_cpu] = "report" /\ at' = [at EXCEPT ![on_cpu] = "yield"]
        /\ last_second' = [last_second EXCEPT ![on_cpu] = second[on_cpu]]
        /\ UNCHANGED <<TICKS, second>>
    BY <1>1, <1>7, Runs DEF report, Goes
  <2>2. seconds' = seconds
    BY <2>1 DEF seconds
  <2>3. /\ second \in [Tasks -> Nat] /\ last_second \in [Tasks -> Nat] /\ count \in [Tasks -> Nat]
        /\ line \in [tick : Nat, second : Nat] /\ second[on_cpu] \in Nat
    BY <2>1 DEF CountInv
  <2>4. last_second' \in [Tasks -> Nat]
    BY <2>1, <2>3
  <2>5. \A t \in Tasks : count'[t] = IF t = on_cpu /\ t # 0 THEN count[t] + 1 ELSE count[t]
    BY <1>7, <2>1, <2>3 DEF report
  <2>6. count' \in [Tasks -> Nat]
    BY <1>7, <2>1, <2>3 DEF report
  <2>7. ASSUME NEW t \in Tasks
        PROVE  /\ count'[t] <= last_second'[t] /\ last_second'[t] <= second[t]
               /\ at'[t] = "report" => last_second'[t] < second[t]
    <3>1. /\ count[t] \in Nat /\ last_second[t] \in Nat /\ second[t] \in Nat
          /\ count[t] <= last_second[t] /\ last_second[t] <= second[t]
          /\ at[t] = "report" => last_second[t] < second[t]
      BY <2>3 DEF CountInv
    <3>2. CASE t = on_cpu
      <4>1. last_second'[t] = second[t] /\ at'[t] = "yield" /\ last_second[t] < second[t]
        BY <1>1, <2>1, <2>3, <3>1, <3>2
      <4>2. count'[t] = count[t] \/ count'[t] = count[t] + 1
        BY <2>5
      <4> QED BY <3>1, <4>1, <4>2
    <3>3. CASE t # on_cpu
      <4>1. last_second'[t] = last_second[t] /\ at'[t] = at[t] /\ count'[t] = count[t]
        BY <1>1, <2>1, <2>3, <2>5, <3>3
      <4> QED BY <3>1, <4>1
    <3> QED BY <3>2, <3>3
  <2>8. /\ line' \in [tick : Nat, second : Nat]
        /\ line'.second = last_second'[0] /\ line'.second <= line'.tick \div FREQUENCY_HZ
    <3>1. CASE on_cpu = 0
      <4>1. line' = [tick |-> TICKS, second |-> second[0]] /\ last_second'[0] = second[0]
        BY <1>1, <1>7, <2>1, <2>3, <3>1 DEF report
      <4>2. second[0] <= TICKS \div FREQUENCY_HZ
        BY <1>1 DEF CountInv, seconds
      <4> QED BY <1>3, <2>3, <3>1, <4>1, <4>2
    <3>2. CASE on_cpu # 0
      <4>1. line' = line /\ last_second'[0] = last_second[0]
        BY <1>1, <1>7, <2>1, <2>3, <3>2 DEF report
      <4> QED BY <2>3, <4>1 DEF CountInv
    <3> QED BY <3>1, <3>2
  <2> QED BY <1>1, <2>1, <2>2, <2>3, <2>4, <2>6, <2>7, <2>8 DEF CountInv
<1>8. CASE UNCHANGED clock_vars
  BY <1>1, <1>8 DEF clock_vars, loops, CountInv, seconds
<1> QED BY <1>4, <1>5, <1>6, <1>7, <1>8 DEF ClockNext, Task

\* Until the tick counter wraps, a demo counts each second at most once and none
\* early, and the shell's line never shows ticks from before its second, whatever
\* the frequency and wherever the interrupts fall (shell_task, demo_counter_task, TICKS).
THEOREM CountsAreRight == MAX_TICKS < U32 => (ClockSpec => []CountsFollowSeconds)
<1> SUFFICES ASSUME MAX_TICKS < U32 PROVE ClockSpec => []CountsFollowSeconds
  OBVIOUS
<1>1. CountInv /\ [ClockNext]_clock_vars => CountInv'
  BY CountStep
<1>2. CountInv => CountsFollowSeconds
  <2> SUFFICES ASSUME CountInv PROVE CountsFollowSeconds
    OBVIOUS
  <2>1. seconds \in Nat
    <3>1. TICKS \in Nat
      BY ClockAssumption DEF CountInv
    <3> QED BY <3>1, ClockAssumption, DivMonotone DEF seconds
  <2>2. \A t \in Tasks : count[t] <= last_second[t] /\ last_second[t] <= seconds
    BY <2>1 DEF CountInv
  <2> QED BY <2>2 DEF CountInv, CountsFollowSeconds
<1> QED BY <1>1, <1>2, CountInit, PTL DEF ClockSpec
=============================================================================
