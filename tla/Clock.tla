------------------------------- MODULE Clock -------------------------------
(***************************************************************************)
(* The timer under the scheduler: the end of kernel_main, which spawns the *)
(* demos and becomes the shell, and the loops of the three tasks.  Each    *)
(* reads the time, reports when it sees a new second and yields; the shell *)
(* then halts.  IRQ0 comes between any two steps at which the CPU has      *)
(* interrupts on, those inside yield_now included.                         *)
(*                                                                         *)
(* The scheduler is the module Scheduler, ring, stacks and all: who runs   *)
(* next, and with which interrupt flag, is what it decides.                *)
(***************************************************************************)
EXTENDS Scheduler

CONSTANTS
  TASKS,           \* the shell, task 0, and the demos
  FREQUENCY_HZ,
  U32,             \* values of the tick counter
  MAX_TICKS        \* bound: ticks counted; U32 lets the counter wrap

ASSUME ClockAssumption ==
  /\ FREQUENCY_HZ \in Nat \ {0} /\ U32 \in Nat \ {0} /\ MAX_TICKS \in Nat
  /\ TASKS \in 1 .. MAX_TASKS

Tasks == 0 .. TASKS - 1

VARIABLES
  TICKS,
  at,              \* where each task's loop is: "spawn", "read", "report", "yield", "hlt", "halted"
  second,          \* what each task read
  last_second,
  count,           \* of each demo: the seconds it has reported
  line             \* the shell's last report, [tick, second]

loops == <<second, last_second, count, line>>
clock_vars == <<vars, TICKS, at, loops>>

seconds == TICKS \div FREQUENCY_HZ

ClockInit ==
  /\ Init
  /\ TICKS = 0 /\ at = [t \in Tasks |-> IF t = 0 THEN "spawn" ELSE "read"]
  /\ second = [t \in Tasks |-> 0] /\ last_second = [t \in Tasks |-> 0]
  /\ count = [t \in Tasks |-> 0] /\ line = [tick |-> 0, second |-> 0]
-----------------------------------------------------------------------------
\* Beyond the bound a tick is not counted, and still ends a hlt.
timer_interrupt ==
  /\ eflags_if
  /\ TICKS' = IF TICKS < MAX_TICKS THEN (TICKS + 1) % U32 ELSE TICKS
  /\ at' = IF at[on_cpu] = "halted" THEN [at EXCEPT ![on_cpu] = "read"] ELSE at
  /\ UNCHANGED <<vars, loops>>

\* The loop of the task on the CPU goes from one point to another.
Goes(from, to) == pc = "run" /\ at[on_cpu] = from /\ at' = [at EXCEPT ![on_cpu] = to]

\* The spawns at the end of kernel_main.
spawn_demos ==
  /\ spawn
  /\ Goes("spawn", IF TASK_COUNT' = TASKS THEN "read" ELSE "spawn")
  /\ UNCHANGED <<TICKS, loops>>

\* Mutant: a second is new when it is not before the last one.
New_again == seconds >= last_second[on_cpu]

New == seconds > last_second[on_cpu]

read_seconds ==
  /\ Goes("read", IF New THEN "report" ELSE "yield")
  /\ second' = [second EXCEPT ![on_cpu] = seconds]
  /\ UNCHANGED <<vars, TICKS, last_second, count, line>>

\* The shell reads the ticks again for its line; a demo counts its reports.
report ==
  /\ Goes("report", "yield")
  /\ last_second' = [last_second EXCEPT ![on_cpu] = second[on_cpu]]
  /\ IF on_cpu = 0
     THEN line' = [tick |-> TICKS, second |-> second[0]] /\ UNCHANGED count
     ELSE count' = [count EXCEPT ![on_cpu] = @ + 1] /\ UNCHANGED line
  /\ UNCHANGED <<vars, TICKS, second>>

\* yield_now, in two steps; when it returns the shell is at its hlt.
yield_now ==
  /\ Goes("yield", IF on_cpu = 0 THEN "hlt" ELSE "read")
  /\ YieldDecide
  /\ UNCHANGED <<TICKS, loops>>

switch == YieldSwitch /\ UNCHANGED <<TICKS, at, loops>>

hlt == Goes("hlt", "halted") /\ UNCHANGED <<vars, TICKS, loops>>

Task == spawn_demos \/ read_seconds \/ report \/ yield_now \/ switch \/ hlt

ClockNext == timer_interrupt \/ Task

ClockSpec == ClockInit /\ [][ClockNext]_clock_vars

\* The processor executes the running task, and the timer keeps firing.
FairClockSpec == ClockSpec /\ WF_clock_vars(Task) /\ WF_clock_vars(timer_interrupt)

\* The shell runs often enough to read every second, each time the counter comes round.
PromptSpec ==
  /\ FairClockSpec
  /\ \A s \in 0 .. (U32 - 1) \div FREQUENCY_HZ : []<>(at[0] = "yield" /\ second[0] = s)
-----------------------------------------------------------------------------
(***************************************************************************)
(* A demo counts each second at most once, and none before it has passed,  *)
(* however the timer interrupts fall between its reads; and the ticks in   *)
(* the shell's line, read after the second, are never from before it.      *)
(***************************************************************************)
CountsFollowSeconds ==
  /\ \A t \in Tasks : count[t] <= last_second[t] /\ last_second[t] <= seconds
  /\ line.second = last_second[0] /\ line.second <= line.tick \div FREQUENCY_HZ

(***************************************************************************)
(* "the three turn counts stay within one of each other" (shell_task), at  *)
(* every step and not just in its report, when they wrap too; in the       *)
(* shell they are equal.                                                   *)
(***************************************************************************)
TurnsStayClose ==
  /\ \A t, u \in Tasks : (TURNS[t] - TURNS[u]) % TURN_LIMIT \in {0, 1, TURN_LIMIT - 1}
  /\ on_cpu = 0 /\ pc = "run" => \A t \in Tasks : TURNS[t] = TURNS[0]

(***************************************************************************)
(* Each task notices that a second has passed: the yields of the others,   *)
(* and the shell's hlt, never hold it up for good.                         *)
(***************************************************************************)
SecondsAreNoticed ==
  \A t \in Tasks : (seconds > last_second[t]) ~> (seconds = last_second[t])

(***************************************************************************)
(* TICKS: "Wrapping is fine".  The once-a-second report of shell_task goes *)
(* on for ever.                                                            *)
(***************************************************************************)
ReportsKeepComing == []<><<report>>_clock_vars
=============================================================================
