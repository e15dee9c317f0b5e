------------------------------ MODULE IrqMutex ------------------------------
(***************************************************************************)
(* IrqMutex::with of sync.rs, on one CPU that interrupts can enter.        *)
(*                                                                         *)
(* `stack` is the call stack, bottom first: an activation of `with`, or an *)
(* interrupt handler.  Only the top runs.  A hardware interrupt needs IF;  *)
(* a software `int` or an exception does not.  Both arrive through an      *)
(* interrupt gate, which clears IF, and iret puts the saved IF back.       *)
(*                                                                         *)
(* A body (a closure, or a handler such as dispatch with its diag_println) *)
(* takes some locks, each once; `todo` holds the ones still ahead of it.   *)
(* A closure never takes its own lock again; an interrupt may.             *)
(***************************************************************************)
EXTENDS Integers, Sequences, FiniteSets

CONSTANTS
  Locks,           \* the IrqMutex statics: WRITER, SERIAL1, QUEUE
  NoLock,          \* no lock: what a handler's activation has
  MAX_INTERRUPTS   \* bound on the interrupts of a behaviour

ASSUME MutexAssumption == MAX_INTERRUPTS \in Nat /\ NoLock \notin Locks

VARIABLES
  locked,      \* AtomicBool of every lock
  if_flag,     \* the interrupt flag
  stack,       \* activations, bottom first
  interrupts   \* interrupts so far

mutex_vars == <<locked, if_flag, stack, interrupts>>

Stages == {"entered", "flags_read", "masked", "running", "released"}

\* An activation.  `entry_if` is IF when `with` was called, or IF as pushed by
\* the CPU when the handler was entered; the other fields are with's locals.
Frame == [kind : {"with", "irq", "int"}, lock : Locks \cup {NoLock}, stage : Stages,
          entry_if : BOOLEAN, saved_flags : BOOLEAN, acquired : BOOLEAN,
          todo : SUBSET Locks]

Depth == Len(stack)
Top == stack[Depth]
Pop == [i \in 1 .. Depth - 1 |-> stack[i]]
Updated(frame) == [stack EXCEPT ![Depth] = frame]

MutexInit ==
  /\ locked = [l \in Locks |-> FALSE]
  /\ if_flag = FALSE
  /\ stack = <<>>
  /\ interrupts = 0

\* interrupts::enable
enable_interrupts == Depth = 0 /\ ~if_flag /\ if_flag' = TRUE /\ UNCHANGED <<locked, stack, interrupts>>

Called(l, todo) ==
  [kind |-> "with", lock |-> l, stage |-> "entered", entry_if |-> if_flag,
   saved_flags |-> FALSE, acquired |-> FALSE, todo |-> todo]

\* The running body calls l.with(f), where f will take the locks in `todo`:
\* none that its own context already holds.  The code at the bottom of the
\* stack, which no interrupt brought, takes locks for ever.
with(l, todo) ==
  /\ l \notin todo
  /\ \/ Depth = 0 /\ stack' = <<Called(l, todo)>>
     \/ /\ Depth > 0 /\ Top.stage = "running" /\ l \in Top.todo /\ todo \subseteq Top.todo
        /\ stack' = Append(Updated([Top EXCEPT !.todo = @ \ {l}]), Called(l, todo))
  /\ UNCHANGED <<locked, if_flag, interrupts>>

At(stage) == Depth > 0 /\ Top.kind = "with" /\ Top.stage = stage

read_eflags ==
  /\ At("entered")
  /\ stack' = Updated([Top EXCEPT !.stage = "flags_read", !.saved_flags = if_flag])
  /\ UNCHANGED <<locked, if_flag, interrupts>>

cli ==
  /\ At("flags_read")
  /\ if_flag' = FALSE
  /\ stack' = Updated([Top EXCEPT !.stage = "masked"])
  /\ UNCHANGED <<locked, interrupts>>

\* Mutant: a plain spin lock, which waits for the holder.
spin_lock ==
  /\ At("masked")
  /\ IF locked[Top.lock]
       THEN UNCHANGED <<locked, stack>>
       ELSE /\ locked' = [locked EXCEPT ![Top.lock] = TRUE]
            /\ stack' = Updated([Top EXCEPT !.stage = "running", !.acquired = TRUE])
  /\ UNCHANGED <<if_flag, interrupts>>

\* compare_exchange(false, true); the closure runs whether or not it succeeds.
compare_exchange ==
  /\ At("masked")
  /\ locked' = [locked EXCEPT ![Top.lock] = TRUE]
  /\ stack' = Updated([Top EXCEPT !.stage = "running", !.acquired = ~locked[Top.lock]])
  /\ UNCHANGED <<if_flag, interrupts>>

\* Mutant: whoever leaves opens the lock, the interrupted holder's included.
ReleasesAlways(frame) == TRUE

\* `if acquired`
Releases(frame) == frame.acquired

\* The closure has returned.
release ==
  /\ At("running") /\ Top.todo = {}
  /\ locked' = IF Releases(Top) THEN [locked EXCEPT ![Top.lock] = FALSE] ELSE locked
  /\ stack' = Updated([Top EXCEPT !.stage = "released"])
  /\ UNCHANGED <<if_flag, interrupts>>

\* Mutant: sti without looking at the saved flags.
StiAlways(frame) == TRUE

\* Mutant: the saved IF is looked at the wrong way round.
StiNever(frame) == FALSE

\* `if saved_flags & EFLAGS_IF != 0`
Sti(frame) == frame.saved_flags

restore ==
  /\ At("released")
  /\ if_flag' = (Sti(Top) \/ if_flag)
  /\ stack' = Pop
  /\ UNCHANGED <<locked, interrupts>>

\* An interrupt gate is taken; the handler will take the locks in `todo`.
Gate(kind, todo) ==
  /\ interrupts < MAX_INTERRUPTS
  /\ interrupts' = interrupts + 1
  /\ stack' = Append(stack, [kind |-> kind, lock |-> NoLock, stage |-> "running",
                             entry_if |-> if_flag, saved_flags |-> FALSE,
                             acquired |-> FALSE, todo |-> todo])
  /\ if_flag' = FALSE
  /\ UNCHANGED locked

hardware_irq(todo) == if_flag /\ Gate("irq", todo)
software_interrupt(todo) == Gate("int", todo)

return_from_interrupt ==
  /\ Depth > 0 /\ Top.kind # "with" /\ Top.todo = {}
  /\ if_flag' = Top.entry_if
  /\ stack' = Pop
  /\ UNCHANGED <<locked, interrupts>>

\* What the code on top of the stack does next.
MutexStep ==
  \/ read_eflags \/ cli \/ compare_exchange \/ release \/ restore \/ return_from_interrupt
  \/ Depth > 0 /\ \E l \in Locks, todo \in SUBSET Locks : with(l, todo)

MutexNext ==
  \/ enable_interrupts
  \/ \E l \in Locks, todo \in SUBSET Locks : with(l, todo)
  \/ read_eflags \/ cli \/ compare_exchange \/ release \/ restore
  \/ \E todo \in SUBSET Locks : hardware_irq(todo) \/ software_interrupt(todo)
  \/ return_from_interrupt

MutexSpec == MutexInit /\ [][MutexNext]_mutex_vars

\* The CPU keeps executing what is on top of the stack.
MutexFairSpec == MutexSpec /\ WF_mutex_vars(MutexStep)
-----------------------------------------------------------------------------
WellFormed(frame) ==
  /\ frame.kind = "with" <=> frame.lock \in Locks
  /\ frame.kind # "with" => frame.stage = "running"
  /\ frame.acquired => frame.stage \in {"running", "released"}

\* Every variable stays in its type, and every activation of `with` or of a
\* handler is well formed.
TypeOK ==
  /\ locked \in [Locks -> BOOLEAN]
  /\ if_flag \in BOOLEAN
  /\ stack \in Seq(Frame)
  /\ \A i \in 1 .. Depth : WellFormed(stack[i])
  /\ interrupts \in 0 .. MAX_INTERRUPTS

\* Activations that are inside the critical section of lock l as its holder.
Holds(i, l) == /\ stack[i].kind = "with" /\ stack[i].lock = l
               /\ stack[i].stage = "running" /\ stack[i].acquired

(***************************************************************************)
(* A lock is marked held exactly while one activation holds it: re-entry   *)
(* from an interrupt neither opens the interrupted holder's lock nor       *)
(* leaves it shut behind it.                                               *)
(***************************************************************************)
LockedWhileHeld ==
  \A l \in Locks :
    /\ locked[l] <=> \E i \in 1 .. Depth : Holds(i, l)
    /\ \A i, j \in 1 .. Depth : Holds(i, l) /\ Holds(j, l) => i = j

(***************************************************************************)
(* A hardware interrupt never arrives inside a critical section (nor on    *)
(* top of another handler), so its handler never finds a lock held:        *)
(* sync.rs promises "a hardware IRQ cannot observe the lock as held",      *)
(* whatever software interrupts and nested calls are below it.             *)
(***************************************************************************)
NoIrqInsideCriticalSection ==
  \A i, j \in 1 .. Depth :
    i < j /\ stack[j].kind = "irq" => stack[i].stage \notin {"masked", "running", "released"}

(***************************************************************************)
(* When `with` returns, IF is what it was when it was called: a caller     *)
(* that runs masked stays masked, one that does not is not left deaf, even *)
(* when the call was interrupted before it masked.                         *)
(***************************************************************************)
WithKeepsIF ==
  [][Depth > 0 /\ Top.kind = "with" /\ Len(stack') < Depth => if_flag' = Top.entry_if]_mutex_vars

(***************************************************************************)
(* Every call and every handler finishes: no interleaving of interrupts    *)
(* with held locks leaves the machine waiting for a lock.                  *)
(***************************************************************************)
BodiesFinish == Depth > 0 ~> Depth = 0
=============================================================================
