------------------------------- MODULE Faults -------------------------------
(***************************************************************************)
(* CPU exceptions, from the first instruction of kernel_main on: tss, gdt, *)
(* idt, exceptions and interrupts are initialised one after the other,     *)
(* paging::init (module Paging) follows, and at every step the code may    *)
(* fault, run its stack into the guard page, or do either again while a    *)
(* handler is reporting.                                                   *)
(*                                                                         *)
(* How the CPU delivers a vector is external: a missing gate is a general  *)
(* protection fault, a push to an unmapped page is a page fault, some      *)
(* pairs of those make a double fault, and a failure to deliver that one   *)
(* resets the machine.  Stacks are counted in words, PAGE_WORDS to a page, *)
(* in the layout of entry.s: double-fault stack, guard page, kernel stack. *)
(***************************************************************************)
EXTENDS Paging, Sequences

CONSTANTS
  PAGE_WORDS,
  STACK_PAGES,   \* pages of the kernel stack
  Vectors,       \* the vectors modelled, out of 0 .. 255
  Calls,         \* words a call may put on the stack
  MAX_FAULTS     \* bound: exceptions and software interrupts raised in all

DIVIDE_ERROR == 0
BREAKPOINT == 3
INVALID_OPCODE == 6
DOUBLE_FAULT == 8
GENERAL_PROTECTION_FAULT == 13
PAGE_FAULT == 14
EXCEPTION_VECTOR_COUNT == 32

\* The kernel image is kept out of the pool, and lies under the first directory entry.
ASSUME FaultsAssumption ==
  /\ PAGE_WORDS \in Nat \ {0} /\ STACK_PAGES \in Nat \ {0} /\ MAX_FAULTS \in Nat
  /\ Calls \subseteq Nat \ {0}
  /\ {DIVIDE_ERROR, INVALID_OPCODE, DOUBLE_FAULT, GENERAL_PROTECTION_FAULT, PAGE_FAULT}
       \subseteq Vectors /\ Vectors \subseteq 0 .. 255
  /\ \A m \in Machines : /\ m.guard \in 1 .. ENTRIES - 1 - STACK_PAGES
                         /\ m.pool \cap 0 .. m.guard + STACK_PAGES = {}

double_fault_stack_top == machine.guard * PAGE_WORDS
stack_bottom == (machine.guard + 1) * PAGE_WORDS
stack_top == stack_bottom + STACK_PAGES * PAGE_WORDS

VARIABLES
  boot,      \* the step of kernel_main to run next
  tss,       \* registers held by the main and by the double-fault TSS
  back_link, \* previous_task_link of the double-fault TSS
  gdt,       \* type of the two TSS descriptors: "none", "available" or "busy"
  tr,        \* the task register: "none", "main" or "double_fault"
  idtr,      \* the kernel's own IDT is loaded
  idt,       \* the gate of each vector
  cpu,       \* "run", "deliver", "halted" or "reset"
  pending,   \* the vector being delivered, and whether it is an `int n`
  task,      \* whose code runs: "main" or "double_fault"
  esp,
  frames,    \* handlers entered on the current stack, the running one last
  reported,  \* REPORTED: vectors the catch-all has claimed to report
  screen,    \* reports printed
  raised,    \* history: what was raised, by which code, with which esp
  settled,   \* history: what was reported, or resumed from
  deep       \* history: the stack had overflowed when paging was turned on

tableVars == <<tss, back_link, gdt, tr, idtr, idt>>
cpuVars == <<cpu, pending, task, esp, frames>>
outVars == <<reported, screen, raised, settled>>
allVars == <<vars, boot, tableVars, cpuVars, outVars, deep>>

None == "none"
Nowhere == <<None, 0>>                        \* not the address of any code
EMPTY == [eip |-> Nowhere, esp |-> 0]
Idle == [vector |-> 0, software |-> FALSE]
MISSING == [kind |-> "missing", error |-> FALSE]

FaultsInit ==
  /\ Init
  /\ boot = "tss"
  /\ tss = [main |-> EMPTY, double_fault |-> EMPTY] /\ back_link = None
  /\ gdt = [main |-> None, double_fault |-> None] /\ tr = None
  /\ idtr = FALSE /\ idt = [v \in Vectors |-> MISSING]
  /\ cpu = "run" /\ pending = Idle
  /\ task = "main" /\ esp = stack_top /\ frames = <<>>
  /\ reported = {} /\ screen = <<>> /\ raised = <<>> /\ settled = {} /\ deep = FALSE
-----------------------------------------------------------------------------
\* kernel_main, up to paging.

\* Kernel code runs, as opposed to a handler; the handler that runs.
Kernel == cpu = "run" /\ task = "main" /\ frames = <<>>
Running == frames[Len(frames)]
Step(from, to) == Kernel /\ boot = from /\ boot' = to

tss_init ==
  /\ Step("tss", "gdt")
  /\ tss' = [main |-> EMPTY,
             double_fault |-> [eip |-> <<"double_fault", 0>>, esp |-> double_fault_stack_top]]
  /\ UNCHANGED <<vars, back_link, gdt, tr, idtr, idt, cpuVars, outVars, deep>>

\* The descriptors, and load.
gdt_init ==
  /\ Step("gdt", "ltr")
  /\ gdt' = [main |-> "available", double_fault |-> "available"]
  /\ UNCHANGED <<vars, tss, back_link, tr, idtr, idt, cpuVars, outVars, deep>>

load_task_register ==
  /\ Step("ltr", "idt")
  /\ tr' = "main" /\ gdt' = [gdt EXCEPT !.main = "busy"]
  /\ UNCHANGED <<vars, tss, back_link, idtr, idt, cpuVars, outVars, deep>>

idt_init ==
  /\ Step("idt", "exceptions")
  /\ idt' = [v \in Vectors |-> MISSING] /\ idtr' = TRUE
  /\ UNCHANGED <<vars, tss, back_link, gdt, tr, cpuVars, outVars, deep>>

exceptions_init ==
  /\ Step("exceptions", "catch_all")
  /\ idt' = [idt EXCEPT ![DIVIDE_ERROR] = [kind |-> "report", error |-> FALSE],
                        ![INVALID_OPCODE] = [kind |-> "report", error |-> FALSE],
                        ![GENERAL_PROTECTION_FAULT] = [kind |-> "report", error |-> TRUE],
                        ![DOUBLE_FAULT] = [kind |-> "task", error |-> FALSE]]
  /\ UNCHANGED <<vars, tss, back_link, gdt, tr, idtr, cpuVars, outVars, deep>>

\* Mutant: alignment check is not in the list.
error_code_stub_short == {8, 10, 11, 12, 13, 14, 21, 29, 30}

error_code_stub == {8, 10, 11, 12, 13, 14, 17, 21, 29, 30}

interrupts_init ==
  /\ Step("catch_all", "paging")
  /\ idt' = [v \in Vectors |->
               IF idt[v] # MISSING THEN idt[v]
               ELSE [kind |-> "catch_all", error |-> v \in error_code_stub]]
  /\ reported' = {}
  /\ UNCHANGED <<vars, tss, back_link, gdt, tr, idtr, cpuVars, screen, raised, settled, deep>>

paging_init ==
  /\ Kernel /\ boot = "paging"
  /\ Steps
  /\ boot' = IF step' = "done" THEN "up" ELSE "paging"
  /\ deep' = IF pg' # pg THEN esp < stack_bottom ELSE deep
  /\ UNCHANGED <<tableVars, cpuVars, outVars>>

\* The build with trigger-double-fault takes away a handler before it divides by zero.
clear_handler ==
  /\ Kernel /\ boot = "up" /\ idt[DIVIDE_ERROR] # MISSING
  /\ idt' = [idt EXCEPT ![DIVIDE_ERROR] = MISSING]
  /\ UNCHANGED <<vars, boot, tss, back_link, gdt, tr, idtr, cpuVars, outVars, deep>>

KernelMain == tss_init \/ gdt_init \/ load_task_register \/ idt_init \/ exceptions_init
                \/ interrupts_init \/ paging_init \/ clear_handler
-----------------------------------------------------------------------------
\* What running code, a handler's included, may do to the CPU.

\* The code that is running, which is what the CPU saves as eip.
Here == <<task, Len(frames)>>

Raise(v, software, at) ==
  /\ Len(raised) < MAX_FAULTS
  /\ raised' = Append(raised, [vector |-> v, eip |-> Here, esp |-> at])
  /\ cpu' = "deliver" /\ pending' = [vector |-> v, software |-> software]

\* Through the directory at dir, words lo .. hi - 1 of the stack can be written.
Writable(dir, lo, hi) ==
  pg => /\ dir # Absent
        /\ \A p \in Frames \cap lo \div PAGE_WORDS .. (hi - 1) \div PAGE_WORDS :
             Translate(dir, p) # Absent

\* A function's prologue and the locals it clears.
call ==
  /\ cpu = "run" /\ task = "main"
  /\ \E n \in Calls :
       /\ n <= esp /\ esp' = esp - n
       /\ IF Writable(cr3, esp', esp) THEN UNCHANGED <<cpu, pending, raised>>
          ELSE Raise(PAGE_FAULT, FALSE, esp')
  /\ UNCHANGED <<vars, boot, tableVars, task, frames, reported, screen, settled, deep>>

ret ==
  /\ cpu = "run" /\ task = "main"
  /\ \E n \in Calls : /\ esp + n <= (IF frames = <<>> THEN stack_top ELSE Running.esp)
                      /\ esp' = esp + n
  /\ UNCHANGED <<vars, boot, tableVars, cpu, pending, task, frames, outVars, deep>>

\* An instruction faults; a page can only be missing once there are pages.
fault ==
  /\ cpu = "run"
  /\ \E v \in Vectors \ {BREAKPOINT, DOUBLE_FAULT} :
       /\ v < EXCEPTION_VECTOR_COUNT /\ (v = PAGE_FAULT => pg)
       /\ Raise(v, FALSE, esp)
  /\ UNCHANGED <<vars, boot, tableVars, task, esp, frames, reported, screen, settled, deep>>

\* The triggers of the test builds: int3, int $8, and vectors nothing owns.
int_n ==
  /\ Kernel /\ boot = "up"
  /\ \E v \in Vectors : /\ v \in {BREAKPOINT, DOUBLE_FAULT} \/ v >= EXCEPTION_VECTOR_COUNT
                        /\ Raise(v, TRUE, esp)
  /\ UNCHANGED <<vars, boot, tableVars, task, esp, frames, reported, screen, settled, deep>>

Code == call \/ ret \/ fault \/ int_n
-----------------------------------------------------------------------------
\* The CPU delivers a vector.

PushesErrorCode(v) == v \in {8, 10, 11, 12, 13, 14, 17, 21, 29, 30}
Contributory == {0, 10, 11, 12, 13}

\* Delivering `first` raised `second`.
DoubleFaults(first, second) ==
  \/ first \in Contributory /\ second \in Contributory
  \/ first = PAGE_FAULT /\ second \in Contributory \cup {PAGE_FAULT}

Escalate(second) ==
  /\ IF ~pending.software /\ pending.vector = DOUBLE_FAULT
     THEN cpu' = "reset" /\ UNCHANGED pending
     ELSE /\ pending' = [vector |-> IF ~pending.software /\ DoubleFaults(pending.vector, second)
                                    THEN DOUBLE_FAULT ELSE second,
                         software |-> FALSE]
          /\ UNCHANGED cpu
  /\ UNCHANGED <<tss, back_link, gdt, tr, cr3, task, esp, frames>>

Errored == ~pending.software /\ PushesErrorCode(pending.vector)

\* Through an interrupt gate: flags, segment, address and error code go on the
\* current stack.  A handler of the wrong shape reads one word off.
Enter(gate) ==
  LET pushed == esp - (IF Errored THEN 4 ELSE 3)
  IN  IF ~Writable(cr3, pushed, esp) THEN Escalate(PAGE_FAULT)
      ELSE /\ esp' = pushed /\ cpu' = "run"
           /\ frames' = Append(frames, [vector |-> pending.vector, kind |-> gate.kind, step |-> "entered",
                                        esp |-> pushed, fault |-> Len(raised),
                                        eip |-> IF gate.error = Errored THEN Here ELSE Nowhere])
           /\ pending' = Idle
           /\ UNCHANGED <<tss, back_link, gdt, tr, cr3, task>>

\* Through the task gate: the registers go into the current TSS, and all of
\* them, CR3 included, come from the double-fault TSS.
SwitchTask ==
  IF tr = None \/ gdt.double_fault # "available" THEN Escalate(GENERAL_PROTECTION_FAULT)
  ELSE /\ tss' = [tss EXCEPT ![tr] = [eip |-> Here, esp |-> esp]]
       /\ gdt' = [gdt EXCEPT !.double_fault = "busy"]
       /\ back_link' = tr /\ tr' = "double_fault"
       /\ cr3' = tss_cr3.double_fault
       /\ task' = "double_fault" /\ frames' = <<>>
       /\ esp' = tss.double_fault.esp - (IF Errored THEN 1 ELSE 0)
       /\ cpu' = IF Writable(cr3', esp' - 1, tss.double_fault.esp) /\ tss.double_fault.eip # Nowhere THEN "run" ELSE "reset"
       /\ pending' = Idle

deliver ==
  /\ cpu = "deliver"
  /\ LET gate == idt[pending.vector]
     IN  CASE ~idtr -> cpu' = "reset" /\ UNCHANGED <<tss, back_link, gdt, tr, cr3, task, esp, frames, pending>>
           [] idtr /\ gate = MISSING -> Escalate(GENERAL_PROTECTION_FAULT)
           [] idtr /\ gate.kind = "task" -> SwitchTask
           [] idtr /\ gate.kind \in {"report", "catch_all"} -> Enter(gate)
  /\ UNCHANGED <<machine, step, mapped_end, directory, table_index, free, memory, tss_cr3, pg, report,
                 boot, idtr, idt, outVars, deep>>
-----------------------------------------------------------------------------
\* The handlers.

Handling(kind) == cpu = "run" /\ frames # <<>> /\ Running.kind = kind
handlerUnchanged == <<vars, boot, tableVars, pending, task, raised, deep>>

Show(r) == screen' = Append(screen, r) /\ settled' = settled \cup {r.fault}

\* divide_error, invalid_opcode, general_protection_fault: report, which never returns.
report_exception ==
  /\ Handling("report")
  /\ Show([vector |-> Running.vector, eip |-> Running.eip, fault |-> Running.fault])
  /\ cpu' = "halted"
  /\ UNCHANGED <<handlerUnchanged, esp, frames, reported>>

\* dispatch claims the report of its vector first,
mark_reported ==
  /\ Handling("catch_all") /\ Running.step = "entered"
  /\ LET v == Running.vector
     IN  /\ reported' = reported \cup {v}
         /\ frames' = [frames EXCEPT ![Len(frames)].step = IF v \in reported THEN "silent" ELSE "print"]
  /\ UNCHANGED <<handlerUnchanged, cpu, esp, screen, settled>>

\* prints it unless it had been claimed before, and returns from an interrupt
\* but not from an exception.
dispatch ==
  /\ Handling("catch_all") /\ Running.step # "entered"
  /\ LET f == Running
         resume == f.vector >= EXCEPTION_VECTOR_COUNT
     IN  /\ IF f.step = "print" THEN Show([vector |-> f.vector, eip |-> f.eip, fault |-> f.fault])
            ELSE /\ settled' = IF resume THEN settled \cup {f.fault} ELSE settled
                 /\ UNCHANGED screen
         /\ IF resume THEN esp' = f.esp + 3 /\ frames' = SubSeq(frames, 1, Len(frames) - 1) /\ UNCHANGED cpu
            ELSE cpu' = "halted" /\ UNCHANGED <<esp, frames>>
  /\ UNCHANGED <<handlerUnchanged, reported>>

interrupted_state == [eip |-> tss.main.eip, esp |-> tss.main.esp, link |-> back_link]

double_fault_entry ==
  /\ cpu = "run" /\ task = "double_fault" /\ frames = <<>>
  /\ Show([vector |-> DOUBLE_FAULT, fault |-> Len(raised), eip |-> interrupted_state.eip,
           esp |-> interrupted_state.esp, link |-> interrupted_state.link])
  /\ cpu' = "halted"
  /\ UNCHANGED <<handlerUnchanged, esp, frames, reported>>

Handlers == report_exception \/ mark_reported \/ dispatch \/ double_fault_entry

\* hlt_loop with interrupts off, or a machine that has been reset.
stopped == cpu \in {"halted", "reset"} /\ UNCHANGED allVars

FaultsNext == KernelMain \/ Code \/ deliver \/ Handlers \/ stopped

\* The CPU executes the handler it has entered.
FaultsSpec == FaultsInit /\ [][FaultsNext]_allVars /\ WF_allVars(deliver) /\ WF_allVars(Handlers)
-----------------------------------------------------------------------------
\* The running handler is the catch-all's, silent because an unfinished one,
\* below it or on the stack the double-fault task left, had claimed its vector.
Recurred ==
  /\ frames # <<>> /\ Running.step = "silent"
  /\ task = "double_fault" \/ \E i \in 1 .. Len(frames) - 1 : frames[i].vector = Running.vector

(***************************************************************************)
(* Once exceptions::init has run, a fault anywhere, in boot, in the middle *)
(* of paging::init, in the guard page or inside a handler, ends with a     *)
(* report of it or of a fault its report ran into, as kernel_main says:    *)
(* "a bug in the code below reports itself".  Two cases are out of reach   *)
(* of the design: a double fault inside the double-fault task, and an      *)
(* exception of the catch-all that recurs inside its own report, which     *)
(* `dispatch` takes for already reported and halts on in silence.          *)
(***************************************************************************)
FaultsAreReported ==
  \A n \in 1 .. MAX_FAULTS :
    (Len(raised) = n /\ cpu = "deliver" /\ boot \in {"catch_all", "paging", "up"})
      ~> \/ \E m \in settled : m >= n
         \/ cpu = "reset" /\ raised[Len(raised)].eip[1] = "double_fault"
         \/ cpu = "halted" /\ Recurred

(***************************************************************************)
(* A report tells the truth about the code that faulted, whatever else     *)
(* went wrong on the way: the address a handler prints is that of the      *)
(* faulting code, so the gate has the shape the CPU pushes for its vector; *)
(* and the double-fault task finds it, and the stack pointer at the fault, *)
(* in the main TSS.                                                        *)
(***************************************************************************)
ReportsAreTrue ==
  \A i \in 1 .. Len(screen) :
    LET r == screen[i]
    IN  /\ r.eip = raised[r.fault].eip
        /\ r.vector \in {raised[r.fault].vector, DOUBLE_FAULT, GENERAL_PROTECTION_FAULT, PAGE_FAULT}
        /\ r.vector = DOUBLE_FAULT => r.esp = raised[r.fault].esp /\ r.link = "main"

(***************************************************************************)
(* With paging on, no code of the main task runs on below its stack: a     *)
(* call that overruns it faults at the guard page, even when its frame is  *)
(* larger than the page, unless the overflow was there before the page.    *)
(***************************************************************************)
OverflowStopsAtGuard ==
  pg /\ Kernel => esp >= stack_bottom \/ deep
=============================================================================
