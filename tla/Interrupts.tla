----------------------------- MODULE Interrupts -----------------------------
(***************************************************************************)
(* Interrupt delivery: the boot steps that remap the two 8259s, fill the   *)
(* IDT, execute sti and bring up the drivers, against devices that raise   *)
(* and drop their lines at any moment and a CPU that takes an interrupt    *)
(* between any two of those steps.                                         *)
(*                                                                         *)
(* The controllers and the CPU are external; they are modelled by what     *)
(* pic.rs programs them to do: edge-triggered, fixed priority, slave on    *)
(* the master's IRQ2, non-specific end of interrupt.  Handlers run with    *)
(* the interrupt flag clear, so they never nest.  What a driver's handler  *)
(* does besides acknowledging is modelled in Input.                        *)
(***************************************************************************)
EXTENDS Integers, Sequences, FiniteSets, FiniteSetsExt, Functions

CONSTANTS
  Lines,      \* the device lines modelled, out of 0 .. 15
  Drivers,    \* lines brought up in order by a driver: pit::init, keyboard::init
  Strays,     \* lines unmasked afterwards with only the catch-all behind them
  MAX_EDGES   \* bound: edges the devices raise in all

Master == 0 .. 7
Slave == 8 .. 15
Cascade == 2
SPURIOUS_LINE == 7

ASSUME LinesAssumption ==
  /\ Lines \subseteq (Master \cup Slave) \ {Cascade}
  /\ Drivers \in Seq(Lines) /\ Strays \in Seq(Lines)
  /\ MAX_EDGES \in Nat

\* pit::init and keyboard::init bring up a line each, neither one a controller's
\* last, which is where its spurious interrupts arrive.
ASSUME DriversAssumption ==
  /\ \A i, j \in 1 .. Len(Drivers) : Drivers[i] = Drivers[j] => i = j
  /\ \A i \in 1 .. Len(Drivers) : Drivers[i] \notin {SPURIOUS_LINE, 8 + SPURIOUS_LINE}

Irqs == Lines \cup {Cascade, SPURIOUS_LINE, 8 + SPURIOUS_LINE}
Plan == Drivers \o Strays

VARIABLES
  boot,         \* the boot step to run next
  next_up,      \* index into Plan of the line being brought up
  idt,          \* gate of each line's vector: "missing", "catch_all", "torn" or "driver"
  remapped,     \* the controllers raise 32 .. 47, not the BIOS's vectors
  imr,          \* masked lines, of both controllers
  level,        \* lines asserted by their devices
  irr,          \* edges latched and not yet taken
  isr,          \* lines in service
  cpu,          \* "run", "inta", "inta_slave", "handler" or "acked"
  irq,          \* the line whose vector was delivered last
  eflags_if,
  reported,     \* REPORTED: vectors the catch-all has printed
  edges         \* edges raised so far

bootVars == <<boot, next_up>>
picVars == <<remapped, imr, isr>>
lineVars == <<level, irr, edges>>
cpuVars == <<cpu, irq, eflags_if>>
vars == <<boot, next_up, idt, remapped, imr, level, irr, isr, cpu, irq, eflags_if, reported, edges>>

\* boot.asm's cli is in effect; the BIOS left lines unmasked.
Init ==
  /\ boot = "pic" /\ next_up = 1
  /\ idt = [l \in Irqs |-> "missing"]
  /\ remapped = FALSE /\ imr = {} /\ level = {} /\ irr = {} /\ isr = {}
  /\ cpu = "run" /\ irq = 0 /\ eflags_if = FALSE
  /\ reported = {} /\ edges = 0
-----------------------------------------------------------------------------
\* Boot.

Step(from, to) == cpu = "run" /\ boot = from /\ boot' = to

\* The controllers' four initialization words forget every latched edge, and
\* leave every line enabled; the masks are set before init returns.
pic_init ==
  /\ Step("pic", "catch_all")
  /\ remapped' = TRUE /\ imr' = Irqs /\ irr' = {} /\ isr' = {}
  /\ UNCHANGED <<next_up, idt, level, edges, cpuVars, reported>>

\* Mutant: the loop over the vectors stops before the last one.
interrupts_init_short ==
  /\ Step("catch_all", "sti")
  /\ idt' = [l \in Irqs |-> IF idt[l] = "missing" /\ l < Max(Irqs) THEN "catch_all" ELSE idt[l]]
  /\ reported' = {}
  /\ UNCHANGED <<next_up, picVars, lineVars, cpuVars>>

interrupts_init ==
  /\ Step("catch_all", "sti")
  /\ idt' = [l \in Irqs |-> IF idt[l] = "missing" THEN "catch_all" ELSE idt[l]]
  /\ reported' = {}
  /\ UNCHANGED <<next_up, picVars, lineVars, cpuVars>>

\* Where the boot goes to bring up line number n.
Begin(n) == IF n > Len(Plan) THEN "done" ELSE IF n > Len(Drivers) THEN "unmask" ELSE "gate"

enable ==
  /\ Step("sti", Begin(1))
  /\ eflags_if' = TRUE
  /\ UNCHANGED <<next_up, idt, picVars, lineVars, cpu, irq, reported>>

\* set_handler writes the eight bytes of a gate with two stores.
set_handler_low ==
  /\ Step("gate", "gate_high")
  /\ idt' = [idt EXCEPT ![Plan[next_up]] = "torn"]
  /\ UNCHANGED <<next_up, picVars, lineVars, cpuVars, reported>>

set_handler_high ==
  /\ Step("gate_high", "unmask")
  /\ idt' = [idt EXCEPT ![Plan[next_up]] = "driver"]
  /\ UNCHANGED <<next_up, picVars, lineVars, cpuVars, reported>>

NextLine == next_up' = next_up + 1 /\ boot' = Begin(next_up + 1)

\* Mutant: the slave's line is unmasked, the master's cascade line is not.
unmask_one(l) ==
  /\ imr' = imr \ {l}
  /\ NextLine

\* pic::unmask: a slave's line takes a second write, for the cascade.
unmask_line(l) ==
  /\ imr' = imr \ {l}
  /\ IF l \in Slave THEN boot' = "cascade" /\ UNCHANGED next_up ELSE NextLine

unmask ==
  /\ cpu = "run" /\ boot = "unmask"
  /\ unmask_line(Plan[next_up])
  /\ UNCHANGED <<idt, remapped, isr, lineVars, cpuVars, reported>>

unmask_cascade ==
  /\ cpu = "run" /\ boot = "cascade"
  /\ imr' = imr \ {Cascade}
  /\ NextLine
  /\ UNCHANGED <<idt, remapped, isr, lineVars, cpuVars, reported>>

\* The kernel proper: nothing here touches the controllers or the IDT.
run ==
  /\ cpu = "run" /\ boot = "done"
  /\ UNCHANGED vars

Boot == pic_init \/ interrupts_init \/ enable \/ set_handler_low \/ set_handler_high
          \/ unmask \/ unmask_cascade
-----------------------------------------------------------------------------
\* Devices.

raise_line(l) ==
  /\ l \notin level /\ edges < MAX_EDGES
  /\ level' = level \cup {l} /\ irr' = irr \cup {l} /\ edges' = edges + 1
  /\ UNCHANGED <<bootVars, idt, picVars, cpuVars, reported>>

\* A line that drops before it is taken may lose its latched edge or keep it:
\* 8259s differ.
drop_line(l) ==
  /\ l \in level
  /\ level' = level \ {l} /\ irr' \in {irr, irr \ {l}}
  /\ UNCHANGED <<bootVars, idt, picVars, cpuVars, reported, edges>>

Device == \E l \in Lines : raise_line(l) \/ drop_line(l)
-----------------------------------------------------------------------------
\* The controllers and the CPU's side of the acknowledge cycle.

\* Requests of one controller that its mask and its in-service lines let by.
Eligible(chip, requests) ==
  {l \in (requests \cap chip) \ imr : \A s \in isr \cap chip : l < s}
SlaveRequests == Eligible(Slave, irr)
MasterRequests ==
  Eligible(Master, irr \cup (IF SlaveRequests = {} THEN {} ELSE {Cascade}))

accept ==
  /\ cpu = "run" /\ eflags_if /\ MasterRequests # {}
  /\ cpu' = "inta"
  /\ UNCHANGED <<bootVars, idt, picVars, lineVars, irq, eflags_if, reported>>

Deliver(l) == cpu' = "handler" /\ irq' = l /\ eflags_if' = FALSE

\* One controller answers the acknowledge: its first request goes into service;
\* with none left it answers with its last line, and nothing is in service.
Answer(chip, requests) ==
  IF requests = {}
  THEN Deliver(Max(chip)) /\ UNCHANGED <<isr, irr>>
  ELSE Deliver(Min(requests)) /\ isr' = isr \cup {Min(requests)} /\ irr' = irr \ {Min(requests)}

inta ==
  /\ cpu = "inta"
  /\ IF MasterRequests # {} /\ Min(MasterRequests) = Cascade
     THEN cpu' = "inta_slave" /\ isr' = isr \cup {Cascade} /\ UNCHANGED <<irr, irq, eflags_if>>
     ELSE Answer(Master, MasterRequests)
  /\ UNCHANGED <<bootVars, idt, remapped, imr, level, edges, reported>>

inta_slave ==
  /\ cpu = "inta_slave"
  /\ Answer(Slave, SlaveRequests)
  /\ UNCHANGED <<bootVars, idt, remapped, imr, level, edges, reported>>

\* OCW2: a non-specific end of interrupt clears the first line in service.
Eoi(chip, inService) ==
  IF inService \cap chip = {} THEN inService ELSE inService \ {Min(inService \cap chip)}

\* Mutant: a spurious interrupt of the slave leaves the cascade in service.
eoi_spurious_none(l) ==
  IF l % 8 = SPURIOUS_LINE /\ l \notin isr THEN isr
  ELSE Eoi(Master, IF l \in Slave THEN Eoi(Slave, isr) ELSE isr)

end_of_interrupt(l) ==
  IF l % 8 = SPURIOUS_LINE /\ l \notin isr
  THEN IF l \in Slave THEN Eoi(Master, isr) ELSE isr
  ELSE Eoi(Master, IF l \in Slave THEN Eoi(Slave, isr) ELSE isr)

\* timer_interrupt, keyboard_interrupt, or the catch-all's dispatch.
handler ==
  /\ cpu = "handler"
  /\ isr' = end_of_interrupt(irq)
  /\ reported' = IF idt[irq] = "catch_all" THEN reported \cup {irq} ELSE reported
  /\ cpu' = "acked"
  /\ UNCHANGED <<bootVars, idt, remapped, imr, lineVars, irq, eflags_if>>

iret ==
  /\ cpu = "acked"
  /\ cpu' = "run" /\ eflags_if' = TRUE
  /\ UNCHANGED <<bootVars, idt, picVars, lineVars, irq, reported>>

Cpu == accept \/ inta \/ inta_slave \/ handler \/ iret

Next == Boot \/ run \/ Device \/ Cpu

Spec == Init /\ [][Next]_vars

\* The CPU keeps executing, and takes an interrupt that stays requested.
FairSpec == Spec /\ WF_vars(Boot) /\ WF_vars(Cpu)
-----------------------------------------------------------------------------
(***************************************************************************)
(* Whatever a handler was entered for, once it has returned nothing is     *)
(* left in service to block later interrupts: end_of_interrupt accounts    *)
(* for the slave, for the cascade, and for spurious interrupts of either   *)
(* controller.                                                             *)
(***************************************************************************)
NothingLeftInService == cpu = "run" => isr = {}

(***************************************************************************)
(* Every interrupt the CPU is given goes through a whole, present gate at  *)
(* the remapped vector, spurious interrupts on lines nobody unmasked       *)
(* included: although pit::init and keyboard::init write their gates with  *)
(* interrupts on, no delivery can see one half written.                    *)
(***************************************************************************)
DeliveredGatesAreWhole ==
  cpu = "handler" => remapped /\ idt[irq] \in {"catch_all", "driver"}

(***************************************************************************)
(* No request of a line the kernel brings up stays latched for ever: no    *)
(* combination of spurious interrupts, cascaded lines and boot steps       *)
(* leaves a line, or its controller, blocked.                              *)
(***************************************************************************)
RequestsAreTaken ==
  \A l \in Range(Plan) : l \in irr ~> l \notin irr
=============================================================================
