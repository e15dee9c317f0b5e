-------------------------- MODULE InterruptsProofs --------------------------
(***************************************************************************)
(* Proofs about Interrupts, and about IrqMutex, the lock that code entered *)
(* by interrupts takes.                                                    *)
(*                                                                         *)
(* The controllers, for every set of device lines and every order of       *)
(* drivers: a handler that returns leaves nothing in service, and every    *)
(* interrupt delivered goes through a whole gate.                          *)
(*                                                                         *)
(* The lock, for every set of locks and any number of interrupts.  The     *)
(* inductive invariant says where IF can be set: only with no frame on the *)
(* stack, or with one call of `with` that has not masked yet.  Every frame *)
(* above that runs masked and will hand IF back masked.                    *)
(***************************************************************************)
EXTENDS Interrupts, IrqMutex, WellFoundedInduction, TLAPS

\* The provers have half a minute for each leaf that names none itself.
USE SMTT(30), ZenonT(30)

\* What the controllers' priority encoders pick.
LEMMA MinIn ==
  ASSUME NEW S \in SUBSET Nat, S # {}
  PROVE  Min(S) \in S
<1>1. PICK x \in S : \A y \in S : ~ (<<y, x>> \in OpToRel(<, Nat))
  BY WFMin, NatLessThanWellFounded, ZenonT(30)
<1>2. \A y \in S : ~(y < x)
  BY <1>1, ZenonT(30) DEF OpToRel
<1>3. \A y \in S : x <= y
  BY <1>2
<1> QED BY <1>3, ZenonT(30) DEF Min

\* The least of one.
LEMMA MinOfOne == ASSUME NEW x \in Int PROVE Min({x}) = x
BY DEF Min

\* The lines spurious interrupts arrive on.
LEMMA LastLines == Max(Master) = SPURIOUS_LINE /\ Max(Slave) = 8 + SPURIOUS_LINE
BY DEF Max, Master, Slave, SPURIOUS_LINE
-----------------------------------------------------------------------------
Booted == boot \in {"gate", "gate_high", "unmask", "cascade", "done"}

InterruptsType ==
  /\ boot \in {"pic", "catch_all", "sti", "gate", "gate_high", "unmask", "cascade", "done"}
  /\ cpu \in {"run", "inta", "inta_slave", "handler", "acked"}
  /\ next_up \in Nat \ {0} /\ eflags_if \in BOOLEAN
  /\ irr \subseteq Lines
  /\ idt \in [Irqs -> {"missing", "catch_all", "torn", "driver"}]

\* What is in service, by how far the CPU is with an interrupt.
InService ==
  /\ cpu \in {"run", "inta", "acked"} => isr = {}
  /\ cpu = "inta_slave" => isr = {Cascade}
  /\ cpu = "handler" =>
       \/ irq \in Master \ {Cascade} /\ isr = {irq}
       \/ irq = SPURIOUS_LINE /\ isr = {}
       \/ irq \in Slave /\ isr = {Cascade, irq}
       \/ irq = 8 + SPURIOUS_LINE /\ isr = {Cascade}

\* The first driver whose line may still be masked.
Pending == IF boot = "cascade" THEN next_up + 1 ELSE next_up

\* Gates that may be half written, and the masks that keep interrupts off them.
Gates ==
  /\ (eflags_if \/ cpu # "run") => Booted
  /\ ~Booted => next_up = 1
  /\ boot \in {"pic", "catch_all"} => idt = [l \in Irqs |-> "missing"]
  /\ boot = "sti" => idt = [l \in Irqs |-> "catch_all"]
  /\ boot \in {"gate", "gate_high"} => next_up <= Len(Drivers)
  /\ boot \in {"unmask", "cascade"} => next_up <= Len(Plan)
  /\ boot # "pic" => remapped /\ \A i \in Pending .. Len(Drivers) : Drivers[i] \in imr
  /\ Booted => \A l \in Irqs : \/ idt[l] \in {"catch_all", "driver"}
                               \/ boot = "gate_high" /\ l = Plan[next_up]
  /\ cpu = "handler" => irq \in Irqs /\ idt[irq] \in {"catch_all", "driver"}

Inv == InterruptsType /\ InService /\ Gates

\* The lines of the two controllers.
LEMMA LineFacts ==
  /\ Lines \subseteq 0 .. 15 /\ Cascade \notin Lines /\ Lines \subseteq Irqs
  /\ {Cascade, SPURIOUS_LINE, 8 + SPURIOUS_LINE} \subseteq Irqs
  /\ Cascade = 2 /\ SPURIOUS_LINE = 7 /\ Master = 0 .. 7 /\ Slave = 8 .. 15
BY LinesAssumption DEF Irqs, Master, Slave, Cascade, SPURIOUS_LINE

\* The lines the kernel brings up, drivers first.
LEMMA PlanFacts ==
  /\ Len(Drivers) \in Nat /\ Len(Plan) \in Nat /\ Len(Drivers) <= Len(Plan)
  /\ \A i \in 1 .. Len(Plan) : Plan[i] \in Lines
  /\ \A i \in 1 .. Len(Drivers) : Plan[i] = Drivers[i] /\ Drivers[i] \in Lines
<1>1. Drivers \in Seq(Lines) /\ Strays \in Seq(Lines)
  BY LinesAssumption
<1>2. Plan \in Seq(Lines) /\ Len(Plan) = Len(Drivers) + Len(Strays)
  BY <1>1 DEF Plan
<1>3. \A i \in 1 .. Len(Drivers) : Plan[i] = Drivers[i]
  BY <1>1 DEF Plan
<1> QED BY <1>1, <1>2, <1>3

\* The invariant holds at reset.
LEMMA InitInv == Init => Inv
<1> SUFFICES ASSUME Init PROVE Inv
  OBVIOUS
<1>1. InterruptsType
  <2>1. idt \in [Irqs -> {"missing", "catch_all", "torn", "driver"}]
    BY DEF Init
  <2>2. next_up \in Nat \ {0} /\ irr \subseteq Lines
    BY DEF Init
  <2>3. eflags_if \in BOOLEAN
    BY ZenonT(30) DEF Init
  <2> QED BY <2>1, <2>2, <2>3 DEF Init, InterruptsType
<1>2. InService
  BY DEF Init, InService
<1>3. Gates
  <2>1. boot = "pic" /\ cpu = "run" /\ eflags_if = FALSE /\ next_up = 1
    BY DEF Init
  <2>2. ~Booted
    BY <2>1 DEF Booted
  <2>3. idt = [l \in Irqs |-> "missing"]
    BY DEF Init
  <2> QED BY <2>1, <2>2, <2>3 DEF Gates
<1> QED BY <1>1, <1>2, <1>3 DEF Inv

\* The requests a controller answers are of its own lines, and not masked.
LEMMA RequestFacts ==
  ASSUME InterruptsType
  PROVE  /\ MasterRequests \subseteq (Master \cap (Lines \cup {Cascade})) \ imr
         /\ SlaveRequests \subseteq (Slave \cap Lines) \ imr
BY DEF MasterRequests, SlaveRequests, Eligible, InterruptsType

\* end_of_interrupt clears whatever the line put into service.
LEMMA EoiClears ==
  ASSUME InService, cpu = "handler"
  PROVE  end_of_interrupt(irq) = {}
<1>1. CASE irq \in Master \ {Cascade} /\ isr = {irq}
  <2>2. irq \in 0 .. 7
    BY <1>1, LineFacts
  <2>3. Min({irq}) = irq
    BY <2>2, MinOfOne
  <2>1. isr \cap Master = {irq}
    BY <1>1
  <2>4. irq \notin Slave
    BY <2>2, LineFacts
  <2> QED BY <1>1, <2>1, <2>3, <2>4 DEF end_of_interrupt, Eoi
<1>2. CASE irq = SPURIOUS_LINE /\ isr = {}
  <2>1. irq % 8 = SPURIOUS_LINE /\ irq \notin Slave
    BY <1>2, LineFacts
  <2> QED BY <1>2, <2>1 DEF end_of_interrupt
<1>3. CASE irq \in Slave /\ isr = {Cascade, irq}
  <2>1. irq \in 8 .. 15 /\ isr = {2, irq}
    BY <1>3, LineFacts
  <2>6. irq \in Slave /\ Cascade \notin Slave /\ Cascade # irq
    BY <2>1, LineFacts
  <2>0. isr \cap Slave = {irq}
    BY <1>3, <2>6
  <2>4. Min({irq}) = irq
    BY <2>1, MinOfOne
  <2>5. {Cascade} \cap Master = {Cascade} /\ Min({Cascade}) = Cascade
    BY MinOfOne, LineFacts
  <2>2. Eoi(Slave, isr) = {Cascade}
    BY <1>3, <2>0, <2>4, <2>6 DEF Eoi
  <2>3. Eoi(Master, {Cascade}) = {}
    BY <2>5 DEF Eoi
  <2> QED BY <1>3, <2>2, <2>3 DEF end_of_interrupt
<1>4. CASE irq = 8 + SPURIOUS_LINE /\ isr = {Cascade}
  <2>1. irq % 8 = SPURIOUS_LINE /\ irq \in Slave /\ irq \notin isr
    BY <1>4, LineFacts
  <2>3. {Cascade} \cap Master = {Cascade} /\ Min({Cascade}) = Cascade
    BY MinOfOne, LineFacts
  <2>2. Eoi(Master, {Cascade}) = {}
    BY <2>3 DEF Eoi
  <2> QED BY <1>4, <2>1, <2>2, ZenonT(30) DEF end_of_interrupt
<1> QED BY <1>1, <1>2, <1>3, <1>4 DEF InService

\* Where bringing up the next line begins.
LEMMA BeginFacts ==
  ASSUME NEW n \in Nat
  PROVE  /\ Begin(n) \in {"gate", "unmask", "done"}
         /\ Begin(n) = "gate" => n <= Len(Drivers)
         /\ Begin(n) = "unmask" => n <= Len(Plan)
BY PlanFacts DEF Begin

\* A line that a controller answers with is behind a whole gate: it is either the
\* controller's last line or unmasked, and a gate is written only while its line
\* is masked.
LEMMA AnsweredGates ==
  ASSUME InterruptsType, Gates, cpu # "run", NEW l \in Irqs,
         l \in {SPURIOUS_LINE, 8 + SPURIOUS_LINE} \/ l \notin imr
  PROVE  idt[l] \in {"catch_all", "driver"}
<1>1. Booted
  BY DEF Gates
<1>2. SUFFICES ASSUME boot = "gate_high", l = Plan[next_up] PROVE FALSE
  BY <1>1 DEF Gates
<1>3. next_up \in 1 .. Len(Drivers)
  BY <1>2, PlanFacts DEF Gates, InterruptsType
<1>4. l = Drivers[next_up] /\ l \notin {SPURIOUS_LINE, 8 + SPURIOUS_LINE}
  BY <1>2, <1>3, PlanFacts, DriversAssumption
<1>5. next_up \in Pending .. Len(Drivers)
  BY <1>2, <1>3, PlanFacts DEF Pending
<1>6. l \in imr
  BY <1>2, <1>4, <1>5 DEF Gates
<1> QED BY <1>4, <1>6

\* The CPU's steps leave the boot, the gates and the masks alone.
LEMMA GatesKept ==
  ASSUME InterruptsType, Gates, UNCHANGED <<boot, next_up, idt, remapped, imr>>,
         (eflags_if' \/ cpu' # "run") => Booted,
         cpu' = "handler" => irq' \in Irqs /\ idt[irq'] \in {"catch_all", "driver"}
  PROVE  Gates'
<1>1. Booted' = Booted /\ Pending' = Pending
  BY DEF Booted, Pending
<1>2. boot' = boot /\ next_up' = next_up /\ idt' = idt /\ remapped' = remapped /\ imr' = imr
  OBVIOUS
<1> QED BY <1>1, <1>2 DEF Gates

\* What either controller answers keeps the invariant.
LEMMA AnswerInv ==
  ASSUME Inv, UNCHANGED <<boot, next_up, idt, remapped, imr>>,
         NEW chip, NEW requests, Answer(chip, requests), cpu # "run",
         \/ /\ chip = Master /\ requests \subseteq (Master \cap (Lines \cup {Cascade})) \ imr
            /\ isr = {} /\ (requests = {} \/ Min(requests) # Cascade)
         \/ chip = Slave /\ requests \subseteq (Slave \cap Lines) \ imr /\ isr = {Cascade}
  PROVE  Inv'
<1> USE DEF Inv
<1>1. CASE requests = {}
  <2>1. cpu' = "handler" /\ irq' = Max(chip) /\ eflags_if' = FALSE /\ isr' = isr /\ irr' = irr
    BY <1>1 DEF Answer, Deliver
  <2>2. irq' \in {SPURIOUS_LINE, 8 + SPURIOUS_LINE} /\ irq' \in Irqs
    BY <2>1, LastLines, LineFacts
  <2>3. InterruptsType'
    BY <2>1, ZenonT(30) DEF InterruptsType
  <2>4. InService'
    <3>1. CASE chip = Master /\ isr = {}
      <4>1. irq' = SPURIOUS_LINE /\ irq' \in Master \ {Cascade}
        BY <2>1, <3>1, LastLines, LineFacts
      <4> QED BY <2>1, <3>1, <4>1 DEF InService
    <3>2. CASE chip = Slave /\ isr = {Cascade}
      <4>1. irq' = 8 + SPURIOUS_LINE /\ irq' \in Slave
        BY <2>1, <3>2, LastLines, LineFacts
      <4> QED BY <2>1, <3>2, <4>1 DEF InService
    <3> QED BY <3>1, <3>2
  <2>5. idt[irq'] \in {"catch_all", "driver"}
    BY <2>2, AnsweredGates
  <2>6. Gates'
    BY <2>1, <2>2, <2>5, GatesKept DEF Gates
  <2> QED BY <2>3, <2>4, <2>6
<1>2. CASE requests # {}
  <2> DEFINE l == Min(requests)
  <2>0. requests \in SUBSET Nat
    BY LineFacts
  <2>1. l \in requests
    BY <1>2, <2>0, MinIn
  <2>2. cpu' = "handler" /\ irq' = l /\ eflags_if' = FALSE /\ isr' = isr \cup {l} /\ irr' = irr \ {l}
    BY <1>2 DEF Answer, Deliver
  <2> HIDE DEF l
  <2>3. l \in Irqs /\ l \notin imr
    BY <2>1, LineFacts
  <2>8. isr = {} => l # Cascade
    BY <1>2 DEF l
  <2>4. InterruptsType'
    BY <2>2, ZenonT(30) DEF InterruptsType
  <2>5. InService'
    <3>1. CASE chip = Master /\ isr = {}
      <4>1. irq' \in Master \ {Cascade} /\ isr' = {irq'}
        BY <2>1, <2>2, <2>8, <3>1
      <4>2. cpu' = "handler"
        BY <2>2
      <4> QED BY <4>1, <4>2 DEF InService
    <3>2. CASE chip = Slave /\ isr = {Cascade}
      <4>1. irq' \in Slave /\ isr' = {Cascade, irq'}
        BY <2>1, <2>2, <3>2
      <4>2. cpu' = "handler"
        BY <2>2
      <4> QED BY <4>1, <4>2 DEF InService
    <3> QED BY <3>1, <3>2
  <2>6. idt[l] \in {"catch_all", "driver"}
    BY <2>3, AnsweredGates
  <2>7. Gates'
    BY <2>2, <2>3, <2>6, GatesKept DEF Gates
  <2> QED BY <2>4, <2>5, <2>7
<1> QED BY <1>1, <1>2

\* Every step of boot keeps it,
LEMMA BootInv == Inv /\ Boot => Inv'
<1> SUFFICES ASSUME Inv, Boot PROVE Inv'
  OBVIOUS
<1> USE DEF Inv
<1>0. cpu = "run" /\ isr = {}
  BY DEF Boot, pic_init, interrupts_init, enable, set_handler_low, set_handler_high, unmask,
         unmask_cascade, Step, InService
<1>1. CASE pic_init
  <2>1. /\ boot = "pic" /\ boot' = "catch_all" /\ remapped' = TRUE /\ imr' = Irqs /\ irr' = {}
        /\ isr' = {} /\ UNCHANGED <<next_up, idt, cpu, irq, eflags_if>>
    BY <1>1 DEF pic_init, Step, cpuVars
  <2>2. InterruptsType' /\ InService'
    BY <1>0, <2>1 DEF InterruptsType, InService
  <2>3. ~Booted /\ ~Booted'
    BY <2>1 DEF Booted
  <2>4. Pending' = 1 /\ next_up = 1
    BY <2>1, <2>3 DEF Pending, Gates
  <2>5. \A i \in 1 .. Len(Drivers) : Drivers[i] \in imr'
    BY <2>1, PlanFacts, LineFacts, ZenonT(30)
  <2>6. Gates'
    BY <1>0, <2>1, <2>3, <2>4, <2>5 DEF Gates
  <2> QED BY <2>2, <2>6
<1>2. CASE interrupts_init
  <2>1. /\ boot = "catch_all" /\ boot' = "sti"
        /\ idt' = [l \in Irqs |-> IF idt[l] = "missing" THEN "catch_all" ELSE idt[l]]
        /\ UNCHANGED <<next_up, remapped, imr, isr, irr, cpu, irq, eflags_if>>
    BY <1>2 DEF interrupts_init, Step, cpuVars, picVars, lineVars
  <2>2. InterruptsType' /\ InService'
    BY <1>0, <2>1 DEF InterruptsType, InService
  <2>3. ~Booted /\ ~Booted' /\ Pending' = Pending
    BY <2>1 DEF Booted, Pending
  <2>4. idt' = [l \in Irqs |-> "catch_all"]
    BY <2>1 DEF Gates
  <2>5. Gates'
    BY <1>0, <2>1, <2>3, <2>4 DEF Gates
  <2> QED BY <2>2, <2>5
<1>3. CASE enable
  <2>1. /\ boot = "sti" /\ boot' = Begin(1) /\ eflags_if' = TRUE
        /\ UNCHANGED <<next_up, idt, remapped, imr, isr, irr, cpu, irq>>
    BY <1>3 DEF enable, Step, picVars, lineVars
  <2>2. ~Booted /\ Booted' /\ next_up = 1 /\ Pending' = Pending
    BY <2>1, BeginFacts DEF Booted, Gates, Pending
  <2>3. InterruptsType' /\ InService'
    BY <1>0, <2>1, BeginFacts DEF InterruptsType, InService
  <2>4. \A l \in Irqs : idt[l] \in {"catch_all", "driver"}
    BY <2>1 DEF Gates
  <2>5. Gates'
    BY <1>0, <2>1, <2>2, <2>4, BeginFacts DEF Gates
  <2> QED BY <2>3, <2>5
<1>4. CASE set_handler_low
  <2>1. /\ boot = "gate" /\ boot' = "gate_high" /\ idt' = [idt EXCEPT ![Plan[next_up]] = "torn"]
        /\ UNCHANGED <<next_up, remapped, imr, isr, irr, cpu, irq, eflags_if>>
    BY <1>4 DEF set_handler_low, Step, picVars, lineVars, cpuVars
  <2>2. Booted /\ Booted' /\ Pending' = Pending
    BY <2>1 DEF Booted, Pending
  <2>3. InterruptsType' /\ InService'
    BY <1>0, <2>1, ZenonT(30) DEF InterruptsType, InService
  <2>4. \A l \in Irqs : idt[l] \in {"catch_all", "driver"}
    BY <2>1, <2>2 DEF Gates
  <2>5. \A l \in Irqs : idt'[l] \in {"catch_all", "driver"} \/ l = Plan[next_up]
    BY <2>1, <2>4 DEF InterruptsType
  <2>6. Gates'
    BY <1>0, <2>1, <2>2, <2>5 DEF Gates
  <2> QED BY <2>3, <2>6
<1>5. CASE set_handler_high
  <2>1. /\ boot = "gate_high" /\ boot' = "unmask" /\ idt' = [idt EXCEPT ![Plan[next_up]] = "driver"]
        /\ UNCHANGED <<next_up, remapped, imr, isr, irr, cpu, irq, eflags_if>>
    BY <1>5 DEF set_handler_high, Step, picVars, lineVars, cpuVars
  <2>2. Booted /\ Booted' /\ Pending' = Pending
    BY <2>1 DEF Booted, Pending
  <2>3. InterruptsType' /\ InService'
    BY <1>0, <2>1, ZenonT(30) DEF InterruptsType, InService
  <2>4. \A l \in Irqs : idt'[l] \in {"catch_all", "driver"}
    BY <2>1, <2>2 DEF Gates, InterruptsType
  <2>5. next_up' <= Len(Plan)
    BY <2>1, PlanFacts DEF Gates, InterruptsType
  <2>6. Gates'
    BY <1>0, <2>1, <2>2, <2>4, <2>5 DEF Gates
  <2> QED BY <2>3, <2>6
<1>6. CASE unmask
  <2>1. /\ boot = "unmask" /\ unmask_line(Plan[next_up]) /\ imr' = imr \ {Plan[next_up]}
        /\ UNCHANGED <<idt, remapped, isr, irr, cpu, irq, eflags_if>>
    BY <1>6 DEF unmask, unmask_line, lineVars, cpuVars
  <2>2. next_up \in Nat \ {0} /\ Booted /\ Pending = next_up
    BY <2>1 DEF Booted, InterruptsType, Pending
  <2>3. \A i \in next_up + 1 .. Len(Drivers) : Drivers[i] \in imr'
    <3> SUFFICES ASSUME NEW i \in next_up + 1 .. Len(Drivers) PROVE Drivers[i] \in imr'
      OBVIOUS
    <3>1. i \in 1 .. Len(Drivers) /\ next_up \in 1 .. Len(Drivers) /\ i # next_up
      BY <2>2, PlanFacts
    <3>2. Drivers[i] # Plan[next_up]
      BY <3>1, PlanFacts, DriversAssumption
    <3>3. i \in Pending .. Len(Drivers)
      BY <2>2, PlanFacts
    <3>4. Drivers[i] \in imr
      BY <2>1, <3>3 DEF Gates
    <3> QED BY <2>1, <3>2, <3>4
  <2>4. \A l \in Irqs : idt'[l] \in {"catch_all", "driver"}
    BY <2>1, <2>2 DEF Gates
  <2>5. CASE Plan[next_up] \in Slave
    <3>1. boot' = "cascade" /\ next_up' = next_up
      BY <2>1, <2>5 DEF unmask_line
    <3>2. Booted' /\ Pending' = next_up + 1
      BY <3>1 DEF Booted, Pending
    <3>3. InterruptsType' /\ InService'
      BY <1>0, <2>1, <3>1 DEF InterruptsType, InService
    <3>4. Gates'
      BY <1>0, <2>1, <2>3, <2>4, <3>1, <3>2 DEF Gates
    <3> QED BY <3>3, <3>4
  <2>6. CASE Plan[next_up] \notin Slave
    <3>1. boot' = Begin(next_up + 1) /\ next_up' = next_up + 1
      BY <2>1, <2>6 DEF unmask_line, NextLine
    <3>2. Booted' /\ Pending' = next_up + 1
      BY <2>2, <3>1, BeginFacts DEF Booted, Pending
    <3>3. InterruptsType' /\ InService'
      BY <1>0, <2>1, <2>2, <3>1, BeginFacts DEF InterruptsType, InService
    <3>4. Gates'
      BY <1>0, <2>1, <2>2, <2>3, <2>4, <3>1, <3>2, BeginFacts DEF Gates
    <3> QED BY <3>3, <3>4
  <2> QED BY <2>5, <2>6
<1>7. CASE unmask_cascade
  <2>1. /\ boot = "cascade" /\ imr' = imr \ {Cascade} /\ next_up' = next_up + 1
        /\ boot' = Begin(next_up + 1)
        /\ UNCHANGED <<idt, remapped, isr, irr, cpu, irq, eflags_if>>
    BY <1>7 DEF unmask_cascade, NextLine, lineVars, cpuVars
  <2>2. next_up \in Nat \ {0} /\ Booted /\ Booted' /\ Pending = next_up + 1 /\ Pending' = next_up + 1
    BY <2>1, BeginFacts DEF Booted, InterruptsType, Pending
  <2>3. \A i \in next_up + 1 .. Len(Drivers) : Drivers[i] \in imr'
    <3> SUFFICES ASSUME NEW i \in next_up + 1 .. Len(Drivers) PROVE Drivers[i] \in imr'
      OBVIOUS
    <3>1. i \in 1 .. Len(Drivers)
      BY <2>2, PlanFacts
    <3>2. Drivers[i] # Cascade
      BY <3>1, PlanFacts, LineFacts
    <3>3. Drivers[i] \in imr
      BY <2>1, <2>2 DEF Gates
    <3> QED BY <2>1, <3>2, <3>3
  <2>4. \A l \in Irqs : idt'[l] \in {"catch_all", "driver"}
    BY <2>1, <2>2 DEF Gates
  <2>5. InterruptsType' /\ InService'
    BY <1>0, <2>1, <2>2, BeginFacts DEF InterruptsType, InService
  <2>6. Gates'
    BY <1>0, <2>1, <2>2, <2>3, <2>4, BeginFacts DEF Gates
  <2> QED BY <2>5, <2>6
<1> QED BY <1>1, <1>2, <1>3, <1>4, <1>5, <1>6, <1>7 DEF Boot

\* every step of a delivery,
LEMMA CpuInv == Inv /\ Cpu => Inv'
<1> SUFFICES ASSUME Inv, Cpu PROVE Inv'
  OBVIOUS
<1> USE DEF Inv
<1>0. UNCHANGED <<boot, next_up, idt, remapped, imr>>
  BY DEF Cpu, accept, inta, inta_slave, handler, iret, bootVars, picVars
<1>1. CASE accept
  <2>1. cpu = "run" /\ eflags_if /\ cpu' = "inta" /\ UNCHANGED <<isr, irr, irq, eflags_if>>
    BY <1>1 DEF accept, picVars, lineVars
  <2>2. InterruptsType' /\ InService'
    BY <1>0, <2>1 DEF InterruptsType, InService
  <2>3. Gates'
    BY <1>0, <2>1, GatesKept DEF Gates
  <2> QED BY <2>2, <2>3
<1>2. CASE inta
  <2>0. cpu = "inta" /\ isr = {}
    BY <1>2 DEF inta, InService
  <2>1. CASE MasterRequests # {} /\ Min(MasterRequests) = Cascade
    <3>1. cpu' = "inta_slave" /\ isr' = {Cascade} /\ UNCHANGED <<irr, irq, eflags_if>>
      BY <1>2, <2>0, <2>1 DEF inta
    <3>2. InterruptsType' /\ InService'
      BY <1>0, <3>1 DEF InterruptsType, InService
    <3>3. Gates'
      BY <1>0, <2>0, <3>1, GatesKept DEF Gates
    <3> QED BY <3>2, <3>3
  <2>2. CASE ~(MasterRequests # {} /\ Min(MasterRequests) = Cascade)
    <3>1. Answer(Master, MasterRequests)
      BY <1>2, <2>2 DEF inta
    <3>2. MasterRequests \subseteq (Master \cap (Lines \cup {Cascade})) \ imr
      BY RequestFacts
    <3> QED BY <1>0, <2>0, <2>2, <3>1, <3>2, AnswerInv
  <2> QED BY <2>1, <2>2
<1>3. CASE inta_slave
  <2>1. cpu = "inta_slave" /\ isr = {Cascade} /\ Answer(Slave, SlaveRequests)
    BY <1>3 DEF inta_slave, InService
  <2>2. SlaveRequests \subseteq (Slave \cap Lines) \ imr
    BY RequestFacts
  <2> QED BY <1>0, <2>1, <2>2, AnswerInv
<1>4. CASE handler
  <2>1. cpu = "handler" /\ cpu' = "acked" /\ isr' = {} /\ UNCHANGED <<irr, irq, eflags_if>>
    BY <1>4, EoiClears DEF handler, lineVars
  <2>2. InterruptsType' /\ InService'
    BY <1>0, <2>1 DEF InterruptsType, InService
  <2>3. Gates'
    BY <1>0, <2>1, GatesKept DEF Gates
  <2> QED BY <2>2, <2>3
<1>5. CASE iret
  <2>1. cpu = "acked" /\ cpu' = "run" /\ eflags_if' = TRUE /\ UNCHANGED <<isr, irr, irq>>
    BY <1>5 DEF iret, picVars, lineVars
  <2>2. InterruptsType' /\ InService'
    BY <1>0, <2>1 DEF InterruptsType, InService
  <2>3. Gates'
    BY <1>0, <2>1, GatesKept DEF Gates
  <2> QED BY <2>2, <2>3
<1> QED BY <1>1, <1>2, <1>3, <1>4, <1>5 DEF Cpu

\* and every step of the system.
LEMMA NextInv == Inv /\ [Next]_vars => Inv'
<1> SUFFICES ASSUME Inv, [Next]_vars PROVE Inv'
  OBVIOUS
<1> USE DEF Inv
<1>1. CASE Boot
  BY <1>1, BootInv
<1>2. CASE run \/ UNCHANGED vars
  <2>1. UNCHANGED <<boot, next_up, idt, remapped, imr, irr, isr, cpu, irq, eflags_if>>
    BY <1>2 DEF run, vars
  <2>2. InterruptsType' /\ InService'
    BY <2>1 DEF InterruptsType, InService
  <2>3. Gates'
    BY <2>1, GatesKept DEF Gates
  <2> QED BY <2>2, <2>3
<1>3. CASE Device
  <2>0. PICK l \in Lines : raise_line(l) \/ drop_line(l)
    BY <1>3 DEF Device
  <2>1. UNCHANGED <<boot, next_up, idt, remapped, imr, isr, cpu, irq, eflags_if>> /\ irr' \subseteq Lines
    BY <2>0 DEF raise_line, drop_line, bootVars, picVars, cpuVars, InterruptsType
  <2>2. InterruptsType' /\ InService'
    BY <2>1 DEF InterruptsType, InService
  <2>3. Gates'
    BY <2>1, GatesKept DEF Gates
  <2> QED BY <2>2, <2>3
<1>4. CASE Cpu
  BY <1>4, CpuInv
<1> QED BY <1>1, <1>2, <1>3, <1>4 DEF Next

\* The invariant holds in every reachable state.
LEMMA AlwaysInv == Spec => []Inv
BY InitInv, NextInv, PTL DEF Spec
-----------------------------------------------------------------------------
\* pic::end_of_interrupt never leaves a line in service behind a handler that has
\* returned, whichever lines there are and whatever the devices do with them.
THEOREM NothingStaysInService == Spec => []NothingLeftInService
<1>1. Inv => NothingLeftInService
  BY DEF Inv, InService, NothingLeftInService
<1> QED BY <1>1, AlwaysInv, PTL

\* idt::set_gate's two stores are never seen half done by an interrupt, for any
\* order in which drivers bring up their lines after interrupts::enable.
THEOREM GatesAreWhole == Spec => []DeliveredGatesAreWhole
<1>1. Inv => DeliveredGatesAreWhole
  BY DEF Inv, Gates, Booted, DeliveredGatesAreWhole
<1> QED BY <1>1, AlwaysInv, PTL
-----------------------------------------------------------------------------
Early == {"entered", "flags_read"}

\* What the flags recorded in the i-th activation say.
FlagsOK(i) ==
  /\ stack[i].kind = "with" =>
        /\ stack[i].entry_if => i = 1
        /\ stack[i].stage # "entered" => stack[i].saved_flags = stack[i].entry_if
        /\ stack[i].stage \in Early =>
              IF i = Depth THEN if_flag = stack[i].entry_if
                           ELSE /\ stack[i + 1].kind # "with"
                                /\ stack[i + 1].entry_if = stack[i].entry_if
  /\ stack[i].kind # "with" =>
        /\ stack[i].entry_if => i = 1 \/ (i = 2 /\ stack[1].stage \in Early)
        /\ stack[i].kind = "irq" => stack[i].entry_if

IFSet == if_flag => Depth = 0 \/ (Depth = 1 /\ stack[1].stage \in Early)

IInv == TypeOK /\ LockedWhileHeld /\ IFSet /\ \A i \in 1 .. Depth : FlagsOK(i)
-----------------------------------------------------------------------------
\* A push keeps the frames below and adds one.
LEMMA PushIs ==
  ASSUME NEW s \in Seq(Frame), NEW f \in Frame
  PROVE  /\ Append(s, f) \in Seq(Frame) /\ Len(Append(s, f)) = Len(s) + 1
         /\ \A i \in 1 .. Len(s) : Append(s, f)[i] = s[i]
         /\ Append(s, f)[Len(s) + 1] = f
OBVIOUS

\* A function on 1 .. n is a sequence of length n.
LEMMA FunctionIsSeq ==
  ASSUME NEW S, NEW n \in Nat, NEW f \in [1 .. n -> S]
  PROVE  f \in Seq(S) /\ Len(f) = n
OBVIOUS

\* A return drops the top frame.
LEMMA PopIs ==
  ASSUME stack \in Seq(Frame), Depth > 0
  PROVE  /\ Pop \in Seq(Frame) /\ Len(Pop) = Depth - 1
         /\ \A i \in 1 .. Depth - 1 : Pop[i] = stack[i]
<1>1. Depth - 1 \in Nat /\ \A i \in 1 .. Depth - 1 : stack[i] \in Frame
  BY DEF Depth
<1>2. Pop \in [1 .. Depth - 1 -> Frame]
  BY <1>1 DEF Pop
<1> QED BY <1>1, <1>2, FunctionIsSeq DEF Pop

\* A step inside the top frame replaces it.
LEMMA TopIs ==
  ASSUME NEW s \in Seq(Frame), Len(s) > 0, NEW f \in Frame
  PROVE  LET t == [s EXCEPT ![Len(s)] = f] IN
         /\ t \in Seq(Frame) /\ Len(t) = Len(s) /\ t[Len(s)] = f
         /\ \A i \in 1 .. Len(s) - 1 : t[i] = s[i]
OBVIOUS

\* The invariant holds with nothing on the stack.
LEMMA InitEstablishes == MutexInit => IInv
<1> SUFFICES ASSUME MutexInit PROVE IInv
  OBVIOUS
<1>1. stack = <<>> /\ stack \in Seq(Frame) /\ Depth = 0
  BY DEF MutexInit, Depth
<1>2. TypeOK
  <2>1. /\ locked \in [Locks -> BOOLEAN] /\ if_flag \in BOOLEAN
        /\ interrupts \in 0 .. MAX_INTERRUPTS
    <3>1. interrupts \in 0 .. MAX_INTERRUPTS
      BY MutexAssumption DEF MutexInit
    <3> QED BY <3>1, ZenonT(30) DEF MutexInit
  <2>2. \A i \in 1 .. Depth : FALSE
    BY <1>1
  <2> QED BY <1>1, <2>1, <2>2 DEF TypeOK
<1>3. LockedWhileHeld
  <2>1. \A l \in Locks : locked[l] = FALSE
    BY DEF MutexInit
  <2>2. \A i \in 1 .. Depth : FALSE
    BY <1>1
  <2> QED BY <2>1, <2>2, ZenonT(30) DEF LockedWhileHeld
<1>4. IFSet /\ \A i \in 1 .. Depth : FlagsOK(i)
  BY <1>1 DEF MutexInit, IFSet
<1> QED BY <1>2, <1>3, <1>4 DEF IInv

(***************************************************************************)
(* Steps that only touch the top frame.                                    *)
(***************************************************************************)
\* The frame on top, and what the invariant says of it while it runs masked.
LEMMA TopFacts ==
  ASSUME IInv, Depth > 0
  PROVE  /\ Depth \in Nat /\ Top \in Frame /\ Top = stack[Depth] /\ FlagsOK(Depth)
         /\ Top.kind = "with" => Top.lock \in Locks
         /\ Top.acquired => Top.stage \in {"running", "released"}
         /\ locked \in [Locks -> BOOLEAN] /\ if_flag \in BOOLEAN
         /\ Top.stage \notin Early => if_flag = FALSE
<1>1. Depth \in Nat /\ Depth \in 1 .. Depth /\ Top \in Frame /\ Top = stack[Depth]
  BY DEF IInv, TypeOK, Depth, Top
<1>2. locked \in [Locks -> BOOLEAN] /\ if_flag \in BOOLEAN /\ WellFormed(Top)
  BY <1>1 DEF IInv, TypeOK
<1>3. IFSet /\ FlagsOK(Depth)
  BY <1>1 DEF IInv
<1> QED BY <1>1, <1>2, <1>3 DEF IFSet, WellFormed

\* Replacing the top frame by one of the same kind, lock and recorded flags.
LEMMA UpdateKeepsFrames ==
  ASSUME IInv, Depth > 0, NEW f \in Frame, stack' = Updated(f), WellFormed(f)
  PROVE  /\ stack' \in Seq(Frame) /\ Depth' = Depth /\ stack'[Depth] = f
         /\ \A i \in 1 .. Depth - 1 : stack'[i] = stack[i]
         /\ \A i \in 1 .. Depth' : WellFormed(stack'[i])
<1>1. stack \in Seq(Frame) /\ Depth \in Nat /\ \A i \in 1 .. Depth : WellFormed(stack[i])
  BY DEF IInv, TypeOK, Depth
<1>2. /\ stack' \in Seq(Frame) /\ Depth' = Depth /\ stack'[Depth] = f
      /\ \A i \in 1 .. Depth - 1 : stack'[i] = stack[i]
  BY <1>1, TopIs DEF Depth, Updated
<1>3. \A i \in 1 .. Depth : i = Depth \/ (i \in 1 .. Depth - 1 /\ i \in 1 .. Depth)
  BY <1>1
<1>4. \A i \in 1 .. Depth : WellFormed(stack'[i])
  BY <1>1, <1>2, <1>3
<1> QED BY <1>2, <1>4

\* A frame that is not on top, before or after, keeps its flags when nothing it
\* or the frame above it has recorded changes.
LEMMA FlagsBelow ==
  ASSUME NEW i, FlagsOK(i), i # Depth, i # Depth',
         stack'[i].kind = stack[i].kind, stack'[i].stage = stack[i].stage,
         stack'[i].entry_if = stack[i].entry_if, stack'[i].saved_flags = stack[i].saved_flags,
         stack'[i + 1].kind = stack[i + 1].kind, stack'[i + 1].entry_if = stack[i + 1].entry_if,
         stack'[1].stage = stack[1].stage
  PROVE  FlagsOK(i)'
<1>1. CASE stack[i].kind = "with"
  BY <1>1 DEF FlagsOK
<1>2. CASE stack[i].kind # "with"
  BY <1>2 DEF FlagsOK
<1> QED BY <1>1, <1>2

\* The frames under the top one keep their flags when it is replaced by one of
\* its kind that was entered with the same IF.
LEMMA FlagsUnder ==
  ASSUME IInv, NEW i \in 1 .. Depth - 1, Depth' = Depth, NEW f, stack'[Depth] = f,
         f.kind = Top.kind, f.entry_if = Top.entry_if,
         \A j \in 1 .. Depth - 1 : stack'[j] = stack[j]
  PROVE  FlagsOK(i)'
<1>1. Depth \in Nat /\ i \in 1 .. Depth /\ i # Depth /\ 1 \in 1 .. Depth - 1
  BY DEF IInv, TypeOK, Depth
<1>2. FlagsOK(i)
  BY <1>1 DEF IInv
<1>3. i + 1 = Depth \/ i + 1 \in 1 .. Depth - 1
  BY <1>1
<1>4. stack'[i + 1].kind = stack[i + 1].kind /\ stack'[i + 1].entry_if = stack[i + 1].entry_if
  BY <1>3 DEF Top
<1>5. stack'[i] = stack[i] /\ stack'[1] = stack[1]
  BY <1>1
<1> QED BY <1>1, <1>2, <1>4, <1>5, FlagsBelow

\* Reading EFLAGS keeps the invariant.
LEMMA ReadEflagsKeeps == IInv /\ read_eflags => IInv'
<1> SUFFICES ASSUME IInv, read_eflags PROVE IInv'
  OBVIOUS
<1> DEFINE f == [Top EXCEPT !.stage = "flags_read", !.saved_flags = if_flag]
<1>1. Depth > 0 /\ Top.kind = "with" /\ Top.stage = "entered" /\ stack' = Updated(f)
      /\ UNCHANGED <<locked, if_flag, interrupts>>
  BY DEF read_eflags, At
<1>2. /\ Depth \in Nat /\ Top \in Frame /\ Top = stack[Depth] /\ if_flag \in BOOLEAN
      /\ Top.lock \in Locks /\ ~Top.acquired
  BY <1>1, TopFacts
<1>3. /\ f \in Frame /\ f.kind = "with" /\ f.lock = Top.lock /\ f.stage = "flags_read"
      /\ f.entry_if = Top.entry_if /\ f.saved_flags = if_flag /\ f.acquired = Top.acquired
  BY <1>1, <1>2, ZenonT(30) DEF Frame, Stages
<1> HIDE DEF f
<1>4. /\ stack' \in Seq(Frame) /\ Depth' = Depth /\ stack'[Depth] = f
      /\ \A i \in 1 .. Depth - 1 : stack'[i] = stack[i]
      /\ \A i \in 1 .. Depth' : WellFormed(stack'[i])
  <2>1. WellFormed(f)
    BY <1>1, <1>2, <1>3 DEF WellFormed
  <2> QED BY <1>1, <1>3, <2>1, UpdateKeepsFrames
<1>5. TypeOK'
  BY <1>1, <1>2, <1>4 DEF IInv, TypeOK
<1>6. \A i \in 1 .. Depth, l \in Locks : Holds(i, l)' <=> Holds(i, l)
  BY <1>1, <1>2, <1>3, <1>4 DEF Holds
<1>7. LockedWhileHeld'
  BY <1>1, <1>4, <1>6 DEF IInv, LockedWhileHeld
<1>8. IFSet'
  BY <1>1, <1>2, <1>3, <1>4 DEF IInv, IFSet, Early
<1>9. \A i \in 1 .. Depth : FlagsOK(i)'
  <2> TAKE i \in 1 .. Depth
  <2>1. CASE i = Depth
    <3>1. stack'[i] = f /\ i = Depth' /\ FlagsOK(i)
      BY <1>1, <1>2, <1>4, <2>1, TopFacts
    <3> QED BY <1>1, <1>2, <1>3, <2>1, <3>1 DEF FlagsOK, Early
  <2>2. CASE i # Depth
    <3>1. i \in 1 .. Depth - 1
      BY <1>2, <2>2
    <3>2. f.kind = Top.kind /\ f.entry_if = Top.entry_if
      BY ONLY <1>1, <1>3, ZenonT(30)
    <3> QED BY <1>4, <3>1, <3>2, FlagsUnder, ZenonT(30)
  <2> QED BY <2>1, <2>2
<1> QED BY <1>4, <1>5, <1>7, <1>8, <1>9 DEF IInv

\* Masking keeps the invariant.
LEMMA CliKeeps == IInv /\ cli => IInv'
<1> SUFFICES ASSUME IInv, cli PROVE IInv'
  OBVIOUS
<1> DEFINE f == [Top EXCEPT !.stage = "masked"]
<1>1. Depth > 0 /\ Top.kind = "with" /\ Top.stage = "flags_read" /\ stack' = Updated(f)
      /\ if_flag' = FALSE /\ UNCHANGED <<locked, interrupts>>
  BY DEF cli, At
<1>2. /\ Depth \in Nat /\ Top \in Frame /\ Top = stack[Depth] /\ FlagsOK(Depth)
      /\ Top.lock \in Locks /\ locked \in [Locks -> BOOLEAN] /\ if_flag \in BOOLEAN
      /\ Top.acquired => Top.stage \in {"running", "released"}
      /\ Top.stage \notin Early => if_flag = FALSE
  BY <1>1, TopFacts, ZenonT(30)
<1>3. /\ f \in Frame /\ f.kind = "with" /\ f.lock = Top.lock
      /\ f.entry_if = Top.entry_if /\ f.saved_flags = Top.saved_flags
      /\ f.stage = "masked" /\ f.acquired = Top.acquired
  BY <1>1, <1>2 DEF Frame, Stages
<1> HIDE DEF f
<1>4. /\ stack' \in Seq(Frame) /\ Depth' = Depth /\ stack'[Depth] = f
      /\ \A i \in 1 .. Depth - 1 : stack'[i] = stack[i]
      /\ \A i \in 1 .. Depth' : WellFormed(stack'[i])
  <2>1. WellFormed(f)
    BY <1>1, <1>2, <1>3 DEF WellFormed
  <2> QED BY <1>1, <1>3, <2>1, UpdateKeepsFrames
<1>5. TypeOK'
  BY <1>1, <1>2, <1>4, ZenonT(30) DEF IInv, TypeOK
<1>6. \A i \in 1 .. Depth, l \in Locks : Holds(i, l)' <=> Holds(i, l)
  BY <1>1, <1>2, <1>3, <1>4 DEF Holds
<1>7. LockedWhileHeld'
  BY <1>1, <1>4, <1>6 DEF IInv, LockedWhileHeld
<1>8. IFSet'
  BY <1>1, <1>2, <1>3, <1>4 DEF IInv, IFSet, Early
<1>9. \A i \in 1 .. Depth : FlagsOK(i)'
  <2> TAKE i \in 1 .. Depth
  <2>1. CASE i = Depth
    <3>1. stack'[i] = f /\ i = Depth' /\ FlagsOK(i)
      BY <1>1, <1>2, <1>4, <2>1, TopFacts
    <3> QED BY <1>1, <1>2, <1>3, <2>1, <3>1 DEF FlagsOK, Early
  <2>2. CASE i # Depth
    <3>1. i \in 1 .. Depth - 1
      BY <1>2, <2>2
    <3>2. f.kind = Top.kind /\ f.entry_if = Top.entry_if
      BY ONLY <1>1, <1>3, ZenonT(30)
    <3> QED BY <1>4, <3>1, <3>2, FlagsUnder, ZenonT(30)
  <2> QED BY <2>1, <2>2
<1> QED BY <1>4, <1>5, <1>7, <1>8, <1>9 DEF IInv

\* The exchange makes its activation the holder, or leaves the holder alone.
LEMMA CompareExchangeKeeps == IInv /\ compare_exchange => IInv'
<1> SUFFICES ASSUME IInv, compare_exchange PROVE IInv'
  OBVIOUS
<1> DEFINE f == [Top EXCEPT !.stage = "running", !.acquired = ~locked[Top.lock]]
<1>1. Depth > 0 /\ Top.kind = "with" /\ Top.stage = "masked" /\ stack' = Updated(f)
      /\ locked' = [locked EXCEPT ![Top.lock] = TRUE] /\ UNCHANGED <<if_flag, interrupts>>
  BY DEF compare_exchange, At
<1>2. /\ Depth \in Nat /\ Top \in Frame /\ Top = stack[Depth] /\ FlagsOK(Depth)
      /\ Top.lock \in Locks /\ locked \in [Locks -> BOOLEAN] /\ if_flag \in BOOLEAN
      /\ Top.acquired => Top.stage \in {"running", "released"}
      /\ Top.stage \notin Early => if_flag = FALSE
  BY <1>1, TopFacts, ZenonT(30)
<1>3. /\ f \in Frame /\ f.kind = "with" /\ f.lock = Top.lock
      /\ f.entry_if = Top.entry_if /\ f.saved_flags = Top.saved_flags
      /\ f.stage = "running" /\ f.acquired = ~locked[Top.lock]
  BY <1>1, <1>2, ZenonT(30) DEF Frame, Stages
<1> HIDE DEF f
<1>4. /\ stack' \in Seq(Frame) /\ Depth' = Depth /\ stack'[Depth] = f
      /\ \A i \in 1 .. Depth - 1 : stack'[i] = stack[i]
      /\ \A i \in 1 .. Depth' : WellFormed(stack'[i])
  <2>1. WellFormed(f)
    BY <1>1, <1>2, <1>3 DEF WellFormed
  <2> QED BY <1>1, <1>3, <2>1, UpdateKeepsFrames
<1>5. TypeOK'
  BY <1>1, <1>2, <1>4 DEF IInv, TypeOK
<1>6. /\ \A i \in 1 .. Depth - 1, l \in Locks : Holds(i, l)' <=> Holds(i, l)
      /\ \A i \in {Depth}, l \in Locks : ~Holds(i, l)
      /\ \A i \in {Depth}, l \in Locks : Holds(i, l)' <=> l = Top.lock /\ ~locked[l]
  <2>1. \A i \in 1 .. Depth - 1, l \in Locks : Holds(i, l)' <=> Holds(i, l)
    BY <1>2, <1>4 DEF Holds
  <2>2. \A i \in {Depth}, l \in Locks : ~Holds(i, l)
    BY <1>1, <1>2 DEF Holds
  <2>3. \A i \in {Depth}, l \in Locks : Holds(i, l)' <=> l = Top.lock /\ f.acquired
    BY <1>2, <1>3, <1>4 DEF Holds
  <2>4. f.acquired <=> ~locked[Top.lock]
    BY <1>3, ZenonT(30)
  <2> QED BY <2>1, <2>2, <2>3, <2>4
<1>7. LockedWhileHeld'
  <2>1. \A l \in Locks : l # Top.lock => locked'[l] = locked[l]
    BY <1>1, <1>2
  <2>2. locked'[Top.lock] = TRUE
    BY <1>1, <1>2
  <2> SUFFICES ASSUME NEW l \in Locks
               PROVE  /\ locked'[l] <=> \E i \in 1 .. Depth : Holds(i, l)'
                      /\ \A i, j \in 1 .. Depth : Holds(i, l)' /\ Holds(j, l)' => i = j
    BY <1>4 DEF LockedWhileHeld
  <2>3. /\ locked[l] <=> \E i \in 1 .. Depth : Holds(i, l)
        /\ \A i, j \in 1 .. Depth : Holds(i, l) /\ Holds(j, l) => i = j
    BY DEF IInv, LockedWhileHeld
  <2>4. \A i \in 1 .. Depth : i = Depth \/ i \in 1 .. Depth - 1
    BY <1>2
  <2>5. Depth \in 1 .. Depth /\ \A i \in 1 .. Depth - 1 : i \in 1 .. Depth
    BY <1>1, <1>2
  <2>6. CASE l = Top.lock /\ locked[l]
    <3>1. \A i \in 1 .. Depth : Holds(i, l)' <=> Holds(i, l)
      BY <1>6, <2>4, <2>5, <2>6
    <3> QED BY <2>2, <2>3, <2>6, <3>1
  <2>7. CASE l = Top.lock /\ ~locked[l]
    <3>1. \A i \in 1 .. Depth : Holds(i, l)' <=> i = Depth
      BY <1>6, <2>3, <2>4, <2>5, <2>7
    <3> QED BY <2>2, <2>5, <2>7, <3>1
  <2>8. CASE l # Top.lock
    <3>1. \A i \in 1 .. Depth : Holds(i, l)' <=> Holds(i, l)
      BY <1>6, <2>4, <2>5, <2>8
    <3> QED BY <2>1, <2>3, <2>8, <3>1
  <2> QED BY <2>6, <2>7, <2>8
<1>8. IFSet'
  BY <1>1, <1>2, <1>3, <1>4 DEF IInv, IFSet, Early
<1>9. \A i \in 1 .. Depth : FlagsOK(i)'
  <2> TAKE i \in 1 .. Depth
  <2>1. CASE i = Depth
    <3>1. stack'[i] = f /\ i = Depth' /\ FlagsOK(i)
      BY <1>1, <1>2, <1>4, <2>1, TopFacts
    <3> QED BY <1>1, <1>2, <1>3, <2>1, <3>1 DEF FlagsOK, Early
  <2>2. CASE i # Depth
    <3>1. i \in 1 .. Depth - 1
      BY <1>2, <2>2
    <3>2. f.kind = Top.kind /\ f.entry_if = Top.entry_if
      BY ONLY <1>1, <1>3, ZenonT(30)
    <3> QED BY <1>4, <3>1, <3>2, FlagsUnder, ZenonT(30)
  <2> QED BY <2>1, <2>2
<1> QED BY <1>4, <1>5, <1>7, <1>8, <1>9 DEF IInv

\* Only the holder opens the lock.
LEMMA ReleaseKeeps == IInv /\ release => IInv'
<1> SUFFICES ASSUME IInv, release PROVE IInv'
  OBVIOUS
<1> DEFINE f == [Top EXCEPT !.stage = "released"]
<1>1. Depth > 0 /\ Top.kind = "with" /\ Top.stage = "running" /\ stack' = Updated(f)
      /\ locked' = (IF Top.acquired THEN [locked EXCEPT ![Top.lock] = FALSE] ELSE locked)
      /\ UNCHANGED <<if_flag, interrupts>>
  BY DEF release, At, Releases
<1>2. /\ Depth \in Nat /\ Top \in Frame /\ Top = stack[Depth] /\ FlagsOK(Depth)
      /\ Top.lock \in Locks /\ locked \in [Locks -> BOOLEAN] /\ if_flag \in BOOLEAN
      /\ Top.acquired => Top.stage \in {"running", "released"}
      /\ Top.stage \notin Early => if_flag = FALSE
  BY <1>1, TopFacts, ZenonT(30)
<1>3. /\ f \in Frame /\ f.kind = "with" /\ f.lock = Top.lock
      /\ f.entry_if = Top.entry_if /\ f.saved_flags = Top.saved_flags
      /\ f.stage = "released" /\ f.acquired = Top.acquired
  BY <1>1, <1>2 DEF Frame, Stages
<1> HIDE DEF f
<1>4. /\ stack' \in Seq(Frame) /\ Depth' = Depth /\ stack'[Depth] = f
      /\ \A i \in 1 .. Depth - 1 : stack'[i] = stack[i]
      /\ \A i \in 1 .. Depth' : WellFormed(stack'[i])
  <2>1. WellFormed(f)
    BY <1>1, <1>2, <1>3 DEF WellFormed
  <2> QED BY <1>1, <1>3, <2>1, UpdateKeepsFrames
<1>5. TypeOK'
  BY <1>1, <1>2, <1>4 DEF IInv, TypeOK
<1>6. /\ \A i \in 1 .. Depth - 1, l \in Locks : Holds(i, l)' <=> Holds(i, l)
      /\ \A i \in {Depth}, l \in Locks : ~Holds(i, l)'
      /\ \A i \in {Depth}, l \in Locks : Holds(i, l) <=> l = Top.lock /\ Top.acquired
  BY <1>1, <1>2, <1>3, <1>4 DEF Holds
<1>7. LockedWhileHeld'
  <2>1. \A l \in Locks : l # Top.lock => locked'[l] = locked[l]
    BY <1>1, <1>2
  <2>2. locked'[Top.lock] = (locked[Top.lock] /\ ~Top.acquired)
    BY <1>1, <1>2, ZenonT(30) DEF Frame
  <2> SUFFICES ASSUME NEW l \in Locks
               PROVE  /\ locked'[l] <=> \E i \in 1 .. Depth : Holds(i, l)'
                      /\ \A i, j \in 1 .. Depth : Holds(i, l)' /\ Holds(j, l)' => i = j
    BY <1>4 DEF LockedWhileHeld
  <2>3. /\ locked[l] <=> \E i \in 1 .. Depth : Holds(i, l)
        /\ \A i, j \in 1 .. Depth : Holds(i, l) /\ Holds(j, l) => i = j
    BY DEF IInv, LockedWhileHeld
  <2>4. \A i \in 1 .. Depth : i = Depth \/ i \in 1 .. Depth - 1
    BY <1>2
  <2>5. Depth \in 1 .. Depth /\ \A i \in 1 .. Depth - 1 : i \in 1 .. Depth
    BY <1>1, <1>2
  <2>6. CASE l = Top.lock /\ ~Top.acquired
    <3>1. \A i \in 1 .. Depth : Holds(i, l)' <=> Holds(i, l)
      BY <1>6, <2>4, <2>5, <2>6
    <3> QED BY <2>2, <2>3, <2>6, <3>1, ZenonT(30)
  <2>7. CASE l = Top.lock /\ Top.acquired
    <3>1. \A i \in 1 .. Depth : ~Holds(i, l)'
      BY <1>2, <1>6, <2>3, <2>4, <2>5, <2>7
    <3> QED BY <2>2, <2>7, <3>1, ZenonT(30)
  <2>8. CASE l # Top.lock
    <3>1. \A i \in 1 .. Depth : Holds(i, l)' <=> Holds(i, l)
      BY <1>6, <2>4, <2>5, <2>8
    <3> QED BY <2>1, <2>3, <2>8, <3>1
  <2> QED BY <2>6, <2>7, <2>8
<1>8. IFSet'
  BY <1>1, <1>2, <1>3, <1>4 DEF IInv, IFSet, Early
<1>9. \A i \in 1 .. Depth : FlagsOK(i)'
  <2> TAKE i \in 1 .. Depth
  <2>1. CASE i = Depth
    <3>1. stack'[i] = f /\ i = Depth' /\ FlagsOK(i)
      BY <1>1, <1>2, <1>4, <2>1, TopFacts
    <3> QED BY <1>1, <1>2, <1>3, <2>1, <3>1 DEF FlagsOK, Early
  <2>2. CASE i # Depth
    <3>1. i \in 1 .. Depth - 1
      BY <1>2, <2>2
    <3>2. f.kind = Top.kind /\ f.entry_if = Top.entry_if
      BY ONLY <1>1, <1>3, ZenonT(30)
    <3> QED BY <1>4, <3>1, <3>2, FlagsUnder, ZenonT(30)
  <2> QED BY <2>1, <2>2
<1> QED BY <1>4, <1>5, <1>7, <1>8, <1>9 DEF IInv

(***************************************************************************)
(* Steps that drop the top frame, and steps that push one.                 *)
(***************************************************************************)
LEMMA RestoreKeeps == IInv /\ restore => IInv'
<1> SUFFICES ASSUME IInv, restore PROVE IInv'
  OBVIOUS
<1>1. Depth > 0 /\ Top.kind = "with" /\ Top.stage = "released"
      /\ if_flag' = (Top.saved_flags \/ if_flag) /\ stack' = Pop /\ UNCHANGED <<locked, interrupts>>
  BY DEF restore, At, Sti
<1>2. /\ Depth \in Nat /\ Top \in Frame /\ Top = stack[Depth] /\ FlagsOK(Depth)
      /\ locked \in [Locks -> BOOLEAN] /\ if_flag \in BOOLEAN
      /\ Top.stage \notin Early => if_flag = FALSE
  BY <1>1, TopFacts, ZenonT(30)
<1>3. /\ stack' \in Seq(Frame) /\ Depth' = Depth - 1
      /\ \A i \in 1 .. Depth - 1 : stack'[i] = stack[i]
  BY <1>1, PopIs DEF IInv, TypeOK, Depth
<1>4. \A i \in 1 .. Depth - 1 : i \in 1 .. Depth /\ i + 1 \in 1 .. Depth
  BY <1>2
<1>5. if_flag' \in BOOLEAN
  BY <1>1, <1>2 DEF Frame
<1>6. TypeOK'
  BY <1>1, <1>3, <1>4, <1>5 DEF IInv, TypeOK
<1>7. LockedWhileHeld'
  <2>1. \A i \in 1 .. Depth - 1, l \in Locks : Holds(i, l)' <=> Holds(i, l)
    BY <1>3 DEF Holds
  <2>2. \A i \in {Depth}, l \in Locks : ~Holds(i, l)
    BY <1>1, <1>2 DEF Holds
  <2>3. \A i \in 1 .. Depth : i = Depth \/ i \in 1 .. Depth - 1
    BY <1>2
  <2>4. ASSUME NEW l \in Locks
        PROVE  /\ locked'[l] <=> \E i \in 1 .. Depth - 1 : Holds(i, l)'
               /\ \A i, j \in 1 .. Depth - 1 : Holds(i, l)' /\ Holds(j, l)' => i = j
    <3>1. /\ locked[l] <=> \E i \in 1 .. Depth : Holds(i, l)
          /\ \A i, j \in 1 .. Depth : Holds(i, l) /\ Holds(j, l) => i = j
      BY DEF IInv, LockedWhileHeld
    <3> QED BY <1>1, <1>4, <2>1, <2>2, <2>3, <3>1
  <2> QED BY <1>3, <2>4 DEF LockedWhileHeld
<1>8. IFSet'
  BY <1>1, <1>2, <1>3 DEF IFSet, FlagsOK, Early
<1>9. \A i \in 1 .. Depth - 1 : FlagsOK(i)'
  <2> TAKE i \in 1 .. Depth - 1
  <2>1. FlagsOK(i)
    BY <1>4 DEF IInv
  <2>2. CASE i = Depth - 1
    <3>1. /\ i + 1 = Depth /\ i # Depth /\ i = Depth' /\ stack'[i] = stack[i]
          /\ stack'[1] = stack[1] /\ stack[i + 1] = Top
      BY <1>2, <1>3, <2>2
    <3>2. CASE stack[i].kind = "with"
      <4>1. stack[i].stage \notin Early
        BY <1>1, <2>1, <3>1, <3>2 DEF FlagsOK
      <4> QED BY <2>1, <3>1, <3>2, <4>1 DEF FlagsOK
    <3>3. CASE stack[i].kind # "with"
      BY <2>1, <3>1, <3>3 DEF FlagsOK
    <3> QED BY <3>2, <3>3
  <2>3. CASE i # Depth - 1
    <3>1. i + 1 \in 1 .. Depth - 1 /\ i # Depth
      BY <1>2, <2>3
    <3>2. i # Depth' /\ 1 \in 1 .. Depth - 1
      BY <1>2, <1>3, <2>3
    <3>3. stack'[i] = stack[i] /\ stack'[i + 1] = stack[i + 1] /\ stack'[1] = stack[1]
      BY <1>3, <3>1, <3>2
    <3> QED BY <2>1, <3>1, <3>2, <3>3, FlagsBelow
  <2> QED BY <2>2, <2>3
<1> QED BY <1>3, <1>6, <1>7, <1>8, <1>9 DEF IInv

\* Returning from a handler gives back the flag of what it interrupted.
LEMMA IretKeeps == IInv /\ return_from_interrupt => IInv'
<1> SUFFICES ASSUME IInv, return_from_interrupt PROVE IInv'
  OBVIOUS
<1>1. Depth > 0 /\ Top.kind # "with" /\ if_flag' = Top.entry_if /\ stack' = Pop /\ UNCHANGED <<locked, interrupts>>
  BY DEF return_from_interrupt
<1>2. /\ Depth \in Nat /\ Top \in Frame /\ Top = stack[Depth] /\ FlagsOK(Depth)
      /\ locked \in [Locks -> BOOLEAN] /\ if_flag \in BOOLEAN
      /\ Top.stage \notin Early => if_flag = FALSE
  BY <1>1, TopFacts, ZenonT(30)
<1>3. /\ stack' \in Seq(Frame) /\ Depth' = Depth - 1
      /\ \A i \in 1 .. Depth - 1 : stack'[i] = stack[i]
  BY <1>1, PopIs DEF IInv, TypeOK, Depth
<1>4. \A i \in 1 .. Depth - 1 : i \in 1 .. Depth /\ i + 1 \in 1 .. Depth
  BY <1>2
<1>5. if_flag' \in BOOLEAN
  BY <1>1, <1>2 DEF Frame
<1>6. TypeOK'
  BY <1>1, <1>3, <1>4, <1>5 DEF IInv, TypeOK
<1>7. LockedWhileHeld'
  <2>1. \A i \in 1 .. Depth - 1, l \in Locks : Holds(i, l)' <=> Holds(i, l)
    BY <1>3 DEF Holds
  <2>2. \A i \in {Depth}, l \in Locks : ~Holds(i, l)
    BY <1>1, <1>2 DEF Holds
  <2>3. \A i \in 1 .. Depth : i = Depth \/ i \in 1 .. Depth - 1
    BY <1>2
  <2>4. ASSUME NEW l \in Locks
        PROVE  /\ locked'[l] <=> \E i \in 1 .. Depth - 1 : Holds(i, l)'
               /\ \A i, j \in 1 .. Depth - 1 : Holds(i, l)' /\ Holds(j, l)' => i = j
    <3>1. /\ locked[l] <=> \E i \in 1 .. Depth : Holds(i, l)
          /\ \A i, j \in 1 .. Depth : Holds(i, l) /\ Holds(j, l) => i = j
      BY DEF IInv, LockedWhileHeld
    <3> QED BY <1>1, <1>4, <2>1, <2>2, <2>3, <3>1
  <2> QED BY <1>3, <2>4 DEF LockedWhileHeld
<1>8. IFSet'
  <2>1. Top.entry_if => Depth = 1 \/ (Depth = 2 /\ stack[1].stage \in Early)
    BY <1>1, <1>2 DEF FlagsOK
  <2>2. Depth = 2 => stack'[1] = stack[1]
    BY <1>3
  <2>3. if_flag' => Depth' = 0 \/ (Depth' = 1 /\ stack'[1].stage \in Early)
    <3>1. Depth = 1 => Depth' = 0
      BY <1>3
    <3>2. Depth = 2 => Depth' = 1
      BY <1>3
    <3> QED BY <1>1, <2>1, <2>2, <3>1, <3>2
  <2> QED BY <2>3 DEF IFSet
<1>9. \A i \in 1 .. Depth - 1 : FlagsOK(i)'
  <2> TAKE i \in 1 .. Depth - 1
  <2>1. FlagsOK(i)
    BY <1>4 DEF IInv
  <2>2. CASE i = Depth - 1
    <3>1. /\ i + 1 = Depth /\ i # Depth /\ i = Depth' /\ stack'[i] = stack[i]
          /\ stack'[1] = stack[1] /\ stack[i + 1] = Top
      BY <1>2, <1>3, <2>2
    <3>2. CASE stack[i].kind = "with"
      <4>1. stack[i].stage \in Early => if_flag' = stack[i].entry_if
        BY <1>1, <2>1, <3>1, <3>2 DEF FlagsOK
      <4> QED BY <2>1, <3>1, <3>2, <4>1 DEF FlagsOK
    <3>3. CASE stack[i].kind # "with"
      BY <2>1, <3>1, <3>3 DEF FlagsOK
    <3> QED BY <3>2, <3>3
  <2>3. CASE i # Depth - 1
    <3>1. i + 1 \in 1 .. Depth - 1 /\ i # Depth
      BY <1>2, <2>3
    <3>2. i # Depth' /\ 1 \in 1 .. Depth - 1
      BY <1>2, <1>3, <2>3
    <3>3. stack'[i] = stack[i] /\ stack'[i + 1] = stack[i + 1] /\ stack'[1] = stack[1]
      BY <1>3, <3>1, <3>2
    <3> QED BY <2>1, <3>1, <3>2, <3>3, FlagsBelow
  <2> QED BY <2>2, <2>3
<1> QED BY <1>3, <1>6, <1>7, <1>8, <1>9 DEF IInv

\* Pushing a frame on a stack t that differs from `stack` at most in the top
\* frame's todo.
LEMMA PushKeeps ==
  ASSUME IInv, NEW t \in Seq(Frame), Len(t) = Depth, NEW f \in Frame, WellFormed(f),
         stack' = Append(t, f), UNCHANGED locked, if_flag' \in BOOLEAN,
         interrupts' \in 0 .. MAX_INTERRUPTS,
         \A i \in 1 .. Depth : /\ t[i].kind = stack[i].kind /\ t[i].lock = stack[i].lock
                               /\ t[i].stage = stack[i].stage
                               /\ t[i].entry_if = stack[i].entry_if
                               /\ t[i].saved_flags = stack[i].saved_flags
                               /\ t[i].acquired = stack[i].acquired,
         f.kind = "with" => f.stage = "entered"
  PROVE  /\ TypeOK' /\ LockedWhileHeld' /\ Depth \in Nat /\ Depth' = Depth + 1
         /\ stack'[Depth + 1] = f /\ \A i \in 1 .. Depth : stack'[i] = t[i]
<1>1. /\ stack' \in Seq(Frame) /\ Depth \in Nat /\ Depth' = Depth + 1
      /\ stack'[Depth + 1] = f /\ \A i \in 1 .. Depth : stack'[i] = t[i]
  BY PushIs DEF Depth
<1>2. \A i \in 1 .. Depth + 1 : i = Depth + 1 \/ i \in 1 .. Depth
  BY <1>1
<1>3. \A i \in 1 .. Depth : WellFormed(stack[i])
  BY DEF IInv, TypeOK
<1>4. \A i \in 1 .. Depth : WellFormed(stack'[i])
  BY <1>1, <1>3 DEF WellFormed
<1>5. \A i \in 1 .. Depth + 1 : WellFormed(stack'[i])
  BY <1>1, <1>2, <1>4
<1>6. TypeOK'
  BY <1>1, <1>5 DEF IInv, TypeOK
<1>7. LockedWhileHeld'
  <2>1. \A i \in 1 .. Depth, l \in Locks : Holds(i, l)' <=> Holds(i, l)
    BY <1>1 DEF Holds
  <2>2. \A i \in {Depth + 1}, l \in Locks : ~Holds(i, l)'
    BY <1>1 DEF Holds
  <2>3. \A i \in 1 .. Depth : i \in 1 .. Depth + 1
    BY <1>1
  <2>4. ASSUME NEW l \in Locks
        PROVE  /\ locked'[l] <=> \E i \in 1 .. Depth + 1 : Holds(i, l)'
               /\ \A i, j \in 1 .. Depth + 1 : Holds(i, l)' /\ Holds(j, l)' => i = j
    <3>1. /\ locked[l] <=> \E i \in 1 .. Depth : Holds(i, l)
          /\ \A i, j \in 1 .. Depth : Holds(i, l) /\ Holds(j, l) => i = j
      BY DEF IInv, LockedWhileHeld
    <3> QED BY <1>2, <2>1, <2>2, <2>3, <3>1
  <2> QED BY <1>1, <2>4 DEF LockedWhileHeld
<1> QED BY <1>1, <1>6, <1>7

\* Entering a handler, from hardware or software, keeps the invariant.
LEMMA GateKeeps ==
  ASSUME IInv, NEW kind \in {"irq", "int"}, NEW todo \in SUBSET Locks, Gate(kind, todo),
         kind = "irq" => if_flag
  PROVE  IInv'
<1> DEFINE f == [kind |-> kind, lock |-> NoLock, stage |-> "running",
                 entry_if |-> if_flag, saved_flags |-> FALSE,
                 acquired |-> FALSE, todo |-> todo]
<1>1. /\ stack' = Append(stack, f) /\ if_flag' = FALSE /\ UNCHANGED locked
      /\ interrupts < MAX_INTERRUPTS /\ interrupts' = interrupts + 1
  BY DEF Gate
<1>2. /\ stack \in Seq(Frame) /\ Len(stack) = Depth /\ if_flag \in BOOLEAN
      /\ interrupts' \in 0 .. MAX_INTERRUPTS
  BY <1>1, MutexAssumption DEF IInv, TypeOK, Depth
<1>3. f \in Frame /\ WellFormed(f)
  BY <1>2, MutexAssumption DEF Frame, Stages, WellFormed
<1>4. f.kind = kind /\ f.stage = "running" /\ f.entry_if = if_flag
  OBVIOUS
<1> HIDE DEF f
<1>5. /\ TypeOK' /\ LockedWhileHeld' /\ Depth \in Nat /\ Depth' = Depth + 1
      /\ stack'[Depth + 1] = f /\ \A i \in 1 .. Depth : stack'[i] = stack[i]
  BY <1>1, <1>2, <1>3, <1>4, PushKeeps
<1>6. IFSet'
  BY <1>1 DEF IFSet
<1>7. ASSUME NEW i \in 1 .. Depth PROVE FlagsOK(i)'
  <2>1. FlagsOK(i) /\ (i = Depth \/ i + 1 \in 1 .. Depth) /\ i # Depth + 1
    BY <1>5 DEF IInv
  <2>2. /\ stack'[i] = stack[i] /\ i + 1 # 1
        /\ 1 \in 1 .. Depth /\ stack'[1] = stack[1]
        /\ i = Depth => stack'[i + 1] = f
        /\ i # Depth => stack'[i + 1] = stack[i + 1]
    BY <1>5, <2>1
  <2>3. kind # "with" /\ i # Depth'
    BY <1>5, <2>1
  <2> QED BY <1>4, <2>1, <2>2, <2>3 DEF FlagsOK
<1>8. ASSUME NEW i \in {Depth + 1} PROVE FlagsOK(i)'
  <2>1. if_flag => Depth = 0 \/ (Depth = 1 /\ stack'[1].stage \in Early)
    BY <1>5 DEF IInv, IFSet
  <2>2. stack'[i] = f /\ f.kind # "with" /\ (f.kind = "irq" => f.entry_if)
    BY <1>4, <1>5
  <2>3. f.entry_if => i = 1 \/ (i = 2 /\ stack'[1].stage \in Early)
    BY <1>4, <1>5, <2>1
  <2> QED BY <2>2, <2>3 DEF FlagsOK
<1>9. \A i \in 1 .. Depth + 1 : i = Depth + 1 \/ i \in 1 .. Depth
  BY <1>5
<1> QED BY <1>5, <1>6, <1>7, <1>8, <1>9 DEF IInv

\* Calling `with` keeps the invariant.
LEMMA WithKeeps ==
  ASSUME IInv, NEW l \in Locks, NEW todo \in SUBSET Locks, with(l, todo)
  PROVE  IInv'
<1> DEFINE f == Called(l, todo)
<1>1. UNCHANGED <<locked, if_flag, interrupts>>
  BY DEF with
<1>2. /\ stack \in Seq(Frame) /\ Len(stack) = Depth /\ Depth \in Nat /\ if_flag \in BOOLEAN
      /\ interrupts' \in 0 .. MAX_INTERRUPTS /\ if_flag' \in BOOLEAN
  BY <1>1 DEF IInv, TypeOK, Depth
<1>3. f \in Frame /\ WellFormed(f)
  BY <1>2 DEF Called, Frame, Stages, WellFormed
<1>4. f.kind = "with" /\ f.stage = "entered" /\ f.entry_if = if_flag
  BY DEF Called
<1> HIDE DEF f
<1>5. CASE Depth = 0
  <2>1. stack' = Append(stack, f) /\ \A i \in 1 .. Depth : FALSE
    <3>1. stack' = <<f>> /\ stack = <<>>
      BY <1>2, <1>5 DEF with, f
    <3> QED BY <1>5, <3>1
  <2>2. /\ TypeOK' /\ LockedWhileHeld' /\ Depth' = 1 /\ stack'[1] = f
    <3>1. /\ TypeOK' /\ LockedWhileHeld' /\ Depth' = Depth + 1 /\ stack'[Depth + 1] = f
      BY <1>1, <1>2, <1>3, <1>4, <2>1, PushKeeps
    <3> QED BY <1>5, <3>1
  <2>3. IFSet'
    BY <1>4, <2>2 DEF IFSet, Early
  <2>4. ASSUME NEW i \in {1} PROVE FlagsOK(i)'
    BY <1>1, <1>4, <2>2 DEF FlagsOK
  <2> QED BY <2>2, <2>3, <2>4 DEF IInv
<1>6. CASE Depth > 0
  <2> DEFINE g == [Top EXCEPT !.todo = @ \ {l}]
             t == Updated(g)
  <2>1. Top.stage = "running" /\ stack' = Append(t, f)
    <3>1. Depth # 0
      BY <1>2, <1>6
    <3> QED BY <3>1, ZenonT(30) DEF with, f
  <2>2. /\ Top \in Frame /\ Top = stack[Depth] /\ if_flag = FALSE
    BY <1>6, <2>1, TopFacts DEF Early
  <2>3. /\ g \in Frame /\ g.kind = Top.kind /\ g.lock = Top.lock /\ g.stage = Top.stage
        /\ g.entry_if = Top.entry_if /\ g.saved_flags = Top.saved_flags
        /\ g.acquired = Top.acquired
    BY <2>2 DEF Frame
  <2> HIDE DEF g
  <2>4. /\ t \in Seq(Frame) /\ Len(t) = Depth /\ t[Depth] = g
        /\ \A i \in 1 .. Depth - 1 : t[i] = stack[i]
    BY <1>2, <1>6, <2>3, TopIs DEF Updated, Depth
  <2> HIDE DEF t
  <2>5. \A i \in 1 .. Depth : i = Depth \/ i \in 1 .. Depth - 1
    BY <1>2
  <2>6. \A i \in 1 .. Depth : /\ t[i].kind = stack[i].kind /\ t[i].lock = stack[i].lock
                              /\ t[i].stage = stack[i].stage
                              /\ t[i].entry_if = stack[i].entry_if
                              /\ t[i].saved_flags = stack[i].saved_flags
                              /\ t[i].acquired = stack[i].acquired
    BY <2>2, <2>3, <2>4, <2>5
  <2>7. /\ TypeOK' /\ LockedWhileHeld' /\ Depth' = Depth + 1
        /\ stack'[Depth + 1] = f /\ \A i \in 1 .. Depth : stack'[i] = t[i]
    BY <1>1, <1>2, <1>3, <1>4, <2>1, <2>4, <2>6, PushKeeps
  <2>8. IFSet'
    BY <1>1, <2>2 DEF IFSet
  <2>9. ASSUME NEW i \in 1 .. Depth PROVE FlagsOK(i)'
    <3>1. FlagsOK(i) /\ i # Depth' /\ 1 \in 1 .. Depth
      BY <1>2, <2>7 DEF IInv
    <3>2. /\ stack'[i].kind = stack[i].kind /\ stack'[i].stage = stack[i].stage
          /\ stack'[i].entry_if = stack[i].entry_if
          /\ stack'[i].saved_flags = stack[i].saved_flags
          /\ stack'[1].stage = stack[1].stage
      BY <2>6, <2>7, <3>1
    <3>3. CASE i = Depth
      <4>1. stack'[i].stage \notin Early
        BY <2>1, <2>2, <3>2, <3>3 DEF Early
      <4> QED BY <3>1, <3>2, <4>1 DEF FlagsOK
    <3>4. CASE i # Depth
      <4>1. i + 1 \in 1 .. Depth
        BY <1>2, <3>4
      <4>2. stack'[i + 1].kind = stack[i + 1].kind /\ stack'[i + 1].entry_if = stack[i + 1].entry_if
        BY <2>6, <2>7, <4>1
      <4> QED BY <3>1, <3>2, <3>4, <4>2 DEF FlagsOK
    <3> QED BY <3>3, <3>4
  <2>10. ASSUME NEW i \in {Depth + 1} PROVE FlagsOK(i)'
    BY <1>1, <1>4, <2>2, <2>7 DEF FlagsOK
  <2>11. \A i \in 1 .. Depth + 1 : i = Depth + 1 \/ i \in 1 .. Depth
    BY <1>2
  <2> QED BY <2>7, <2>8, <2>9, <2>10, <2>11 DEF IInv
<1> QED BY <1>2, <1>5, <1>6

\* Every step keeps the invariant.
LEMMA NextKeeps == IInv /\ [MutexNext]_mutex_vars => IInv'
<1> SUFFICES ASSUME IInv, [MutexNext]_mutex_vars PROVE IInv'
  OBVIOUS
<1>1. CASE enable_interrupts
  <2>1. Depth = 0 /\ if_flag' = TRUE /\ UNCHANGED <<locked, stack, interrupts>>
    BY <1>1 DEF enable_interrupts
  <2>2. Depth' = Depth /\ \A i \in 1 .. Depth : FALSE
    BY <2>1 DEF Depth
  <2>3. TypeOK' /\ LockedWhileHeld' /\ IFSet'
    BY <2>1, <2>2 DEF IInv, TypeOK, LockedWhileHeld, IFSet
  <2> QED BY <2>2, <2>3 DEF IInv
<1>2. CASE UNCHANGED mutex_vars
  BY <1>2 DEF mutex_vars, IInv, TypeOK, LockedWhileHeld, IFSet, FlagsOK, Holds, Depth
<1>3. CASE \E l \in Locks, todo \in SUBSET Locks : with(l, todo)
  BY <1>3, WithKeeps
<1>4. CASE \E todo \in SUBSET Locks : hardware_irq(todo) \/ software_interrupt(todo)
  BY <1>4, GateKeeps DEF hardware_irq, software_interrupt
<1> QED BY <1>1, <1>2, <1>3, <1>4, ReadEflagsKeeps, CliKeeps, CompareExchangeKeeps,
           ReleaseKeeps, RestoreKeeps, IretKeeps DEF MutexNext

(***************************************************************************)
(* The inductive invariant holds in every reachable state.                 *)
(***************************************************************************)
THEOREM Inductive == MutexSpec => []IInv
BY InitEstablishes, NextKeeps, PTL DEF MutexSpec

(***************************************************************************)
(* Every frame of the call stack is well formed and the flags are Boolean, *)
(* for any set of locks and any number of interrupts (IrqMutex::with).     *)
(***************************************************************************)
THEOREM TypeCorrect == MutexSpec => []TypeOK
<1>1. IInv => TypeOK
  BY DEF IInv
<1> QED BY <1>1, Inductive, PTL

(***************************************************************************)
(* However interrupts nest, a lock reads as held exactly while one         *)
(* activation of `with` holds it: re-entry never releases another's lock.  *)
(***************************************************************************)
THEOREM LockIsHeldByOne == MutexSpec => []LockedWhileHeld
<1>1. IInv => LockedWhileHeld
  BY DEF IInv
<1> QED BY <1>1, Inductive, PTL

(***************************************************************************)
(* No hardware interrupt ever lands inside a critical section, however     *)
(* deep the nesting of software interrupts and closures.                   *)
(***************************************************************************)
THEOREM CriticalSectionsAreMasked == MutexSpec => []NoIrqInsideCriticalSection
<1>1. IInv => NoIrqInsideCriticalSection
  <2> SUFFICES ASSUME IInv, NEW i \in 1 .. Depth, NEW j \in 1 .. Depth,
                      i < j, stack[j].kind = "irq"
               PROVE  stack[i].stage \notin {"masked", "running", "released"}
    BY DEF NoIrqInsideCriticalSection
  <2>1. FlagsOK(j) /\ Depth \in Nat
    BY DEF IInv, TypeOK, Depth
  <2>2. i = 1 /\ stack[1].stage \in Early
    BY <2>1 DEF FlagsOK
  <2> QED BY <2>2 DEF Early
<1> QED BY <1>1, Inductive, PTL

(***************************************************************************)
(* Every return from `with` leaves IF as the call found it.                *)
(***************************************************************************)
THEOREM InterruptFlagIsRestored == MutexSpec => WithKeepsIF
<1>1. ASSUME IInv, MutexNext, Depth > 0, Top.kind = "with", Len(stack') < Depth
      PROVE  if_flag' = Top.entry_if
  <2>1. /\ Depth \in Nat /\ Top \in Frame /\ Top = stack[Depth] /\ FlagsOK(Depth)
        /\ if_flag \in BOOLEAN /\ stack \in Seq(Frame)
        /\ Top.stage \notin Early => if_flag = FALSE
    BY <1>1, TopFacts, ZenonT(30) DEF IInv, TypeOK
  <2>2. \A f \in Frame : Len(Updated(f)) = Depth /\ Updated(f) \in Seq(Frame)
    BY <1>1, <2>1, TopIs DEF Updated, Depth
  <2>3. restore
    <3>1. ASSUME NEW f \in Frame, stack' = Updated(f) PROVE FALSE
      BY <1>1, <2>1, <2>2, <3>1
    <3>2. ~(read_eflags \/ cli \/ compare_exchange \/ release)
      <4>1. ~read_eflags
        BY <2>1, <3>1, ZenonT(30) DEF read_eflags, Frame, Stages
      <4>2. ~cli
        BY <2>1, <3>1 DEF cli, Frame, Stages
      <4>3. ~compare_exchange
        BY <2>1, <3>1, ZenonT(30) DEF compare_exchange, Frame, Stages
      <4>4. ~release
        BY <2>1, <3>1 DEF release, Frame, Stages
      <4> QED BY <4>1, <4>2, <4>3, <4>4
    <3>3. \A s \in Seq(Frame), f \in Frame : Len(s) = Depth => stack' # Append(s, f)
      BY <1>1, <2>1, PushIs
    <3>4. ~enable_interrupts /\ ~return_from_interrupt
      BY <1>1 DEF enable_interrupts, return_from_interrupt
    <3>5. ASSUME NEW todo \in SUBSET Locks PROVE ~(hardware_irq(todo) \/ software_interrupt(todo))
      BY <2>1, <3>3, MutexAssumption, ZenonT(30)
         DEF hardware_irq, software_interrupt, Gate, Frame, Stages, Depth
    <3>6. ASSUME NEW l \in Locks, NEW todo \in SUBSET Locks PROVE ~with(l, todo)
      <4>1. Called(l, todo) \in Frame /\ [Top EXCEPT !.todo = @ \ {l}] \in Frame
        BY <2>1 DEF Called, Frame, Stages
      <4> QED BY <1>1, <2>2, <3>3, <4>1 DEF with
    <3> QED BY <1>1, <3>2, <3>4, <3>5, <3>6 DEF MutexNext
  <2>4. Top.stage = "released" /\ if_flag' = (Top.saved_flags \/ if_flag)
    BY <2>3 DEF restore, At, Sti
  <2>5. if_flag = FALSE /\ Top.saved_flags = Top.entry_if /\ Top.entry_if \in BOOLEAN
    BY <1>1, <2>1, <2>4 DEF FlagsOK, Early, Frame
  <2> QED BY <2>4, <2>5
<1>2. IInv /\ [MutexNext]_mutex_vars
        => [Depth > 0 /\ Top.kind = "with" /\ Len(stack') < Depth => if_flag' = Top.entry_if]_mutex_vars
  BY <1>1
<1> QED BY <1>2, Inductive, PTL DEF MutexSpec, WithKeepsIF
=============================================================================
