------------------------------- MODULE Input --------------------------------
(***************************************************************************)
(* From a key to the shell: the 8042's one-byte buffer and its IRQ1 edge,  *)
(* keyboard::init and the IRQ1 handler, the event ring of input.rs, and    *)
(* the shell's loop, which drains the ring, yields, and halts until an     *)
(* interrupt.                                                              *)
(*                                                                         *)
(* push and pop run under IrqMutex (module IrqMutex), hence atomically.    *)
(* `dropped` saturates at 2^32 - 1 in the code, far beyond MAX_BYTES.      *)
(***************************************************************************)
EXTENDS Integers, Sequences, FiniteSets

CONSTANTS
  CAPACITY,      \* events the ring holds
  Letters,       \* keys whose event depends on Shift
  Plain,         \* keys whose event does not
  Scancodes,     \* the bytes the keyboard sends: [make, released] records
  NoByte,
  MAX_BYTES      \* bound: bytes the keyboard sends

EXT == [make |-> "extended", released |-> FALSE]
Shifts == {"lshift", "rshift"}

ASSUME InputAssumption ==
  /\ CAPACITY \in Nat \ {0} /\ MAX_BYTES \in Nat
  /\ Scancodes \subseteq [make : STRING, released : BOOLEAN] /\ NoByte \notin Scancodes
  /\ Letters \cap Plain = {} /\ (Shifts \cup {EXT.make}) \cap (Letters \cup Plain) = {}

\* An event is a key and its case; Nul is the ring's dummy fill.
Nul == <<"nul", FALSE>>
Events == (Letters \X BOOLEAN) \cup (Plain \X {FALSE}) \cup {Nul}
Slots == 0 .. CAPACITY - 1

VARIABLES
  output,        \* the 8042's output buffer, full unless NoByte
  irr,           \* an IRQ1 edge is latched
  sent,          \* bytes sent so far
  init,          \* keyboard::init: "drain", "unmask" or "done"
  shell,         \* shell_task: "boot", "drain", "yield", "others", "idle" or "hlt"
  eflags_if,
  irq1,          \* the IRQ1 handler has been entered
  EXTENDED, SHIFT, ENQUEUED,
  buf, head, tail, len, dropped,   \* the ring
  seen,          \* history: the bytes handle_scancode was given
  translated     \* history: the events it translated them to

hardware == <<output, irr, sent>>
control == <<init, shell, eflags_if>>
driver == <<EXTENDED, SHIFT, ENQUEUED>>
ring == <<buf, head, tail, len, dropped>>
history == <<seen, translated>>
vars == <<output, irr, sent, init, shell, eflags_if, irq1, EXTENDED, SHIFT, ENQUEUED,
          buf, head, tail, len, dropped, seen, translated>>

\* The firmware may leave a byte in the buffer, whose edge pic::init forgot.
Init ==
  /\ output \in {NoByte} \cup Scancodes /\ irr = FALSE /\ sent = 0
  /\ init = "drain" /\ shell = "boot" /\ eflags_if = TRUE /\ irq1 = FALSE
  /\ EXTENDED = FALSE /\ SHIFT = FALSE /\ ENQUEUED = 0
  /\ buf = [i \in Slots |-> Nul]
  /\ head = 0 /\ tail = 0 /\ len = 0 /\ dropped = 0
  /\ seen = << >> /\ translated = << >>
-----------------------------------------------------------------------------
\* The 8042 takes the keyboard's next byte when its buffer is empty: an edge.
key_byte(s) ==
  /\ output = NoByte /\ sent < MAX_BYTES
  /\ output' = s /\ irr' = TRUE /\ sent' = sent + 1
  /\ UNCHANGED <<control, irq1, driver, ring, history>>

\* Reading 0x60 drops the line; the latched edge may survive it.
Read == output' = NoByte /\ irr' \in {irr, FALSE} /\ UNCHANGED sent

\* Mutant: keyboard::init does not drain the buffer.
drain_skipped ==
  /\ init = "drain"
  /\ init' = "unmask"
  /\ UNCHANGED <<hardware, shell, eflags_if, irq1, driver, ring, history>>

\* keyboard::init, with IRQ1 still masked: one round of drain_output_buffer, whose
\* limit of 256 rounds is beyond MAX_BYTES.
drain_output_buffer ==
  /\ init = "drain"
  /\ IF output = NoByte THEN init' = "unmask" /\ UNCHANGED hardware ELSE Read /\ UNCHANGED init
  /\ UNCHANGED <<shell, eflags_if, irq1, driver, ring, history>>

unmask ==
  /\ init = "unmask"
  /\ init' = "done" /\ shell' = "drain"
  /\ UNCHANGED <<hardware, eflags_if, irq1, driver, ring, history>>
-----------------------------------------------------------------------------
\* The CPU enters a handler: it takes the edge, masks, and leaves hlt.
Wake == shell' = IF shell = "hlt" THEN "drain" ELSE shell

enter_irq1 ==
  /\ init = "done" /\ irr /\ eflags_if
  /\ irr' = FALSE /\ irq1' = TRUE /\ eflags_if' = FALSE
  /\ Wake
  /\ UNCHANGED <<output, sent, init, driver, ring, history>>

\* Mutant: a full ring overwrites its oldest event.
push_overwrites(e) ==
  /\ buf' = [buf EXCEPT ![head] = e]
  /\ head' = (head + 1) % CAPACITY
  /\ len' = IF len = CAPACITY THEN len ELSE len + 1
  /\ ENQUEUED' = ENQUEUED + 1
  /\ UNCHANGED <<tail, dropped>>

push(e) ==
  /\ IF len = CAPACITY
     THEN dropped' = dropped + 1 /\ UNCHANGED <<buf, head, len, ENQUEUED>>
     ELSE /\ buf' = [buf EXCEPT ![head] = e]
          /\ head' = (head + 1) % CAPACITY
          /\ len' = len + 1
          /\ ENQUEUED' = ENQUEUED + 1
          /\ UNCHANGED dropped
  /\ UNCHANGED tail

translate(make) == <<make, make \in Letters /\ SHIFT>>

NoEvent == UNCHANGED <<ring, ENQUEUED, translated>>

\* Mutant: the prefix is forgotten only by a key of the basic layout.
handle_scancode_sticky(s) ==
  IF s = EXT THEN EXTENDED' = TRUE /\ UNCHANGED SHIFT /\ NoEvent
  ELSE IF EXTENDED
       THEN EXTENDED' = (s.make \notin Letters) /\ UNCHANGED SHIFT /\ NoEvent
  ELSE IF s.make \in Shifts THEN SHIFT' = ~s.released /\ UNCHANGED EXTENDED /\ NoEvent
  ELSE /\ UNCHANGED <<EXTENDED, SHIFT>>
       /\ IF s.released \/ s.make \notin Letters \cup Plain
          THEN NoEvent
          ELSE push(translate(s.make)) /\ translated' = Append(translated, translate(s.make))

handle_scancode(s) ==
  IF s = EXT THEN EXTENDED' = TRUE /\ UNCHANGED SHIFT /\ NoEvent
  ELSE /\ EXTENDED' = FALSE
       /\ IF EXTENDED THEN UNCHANGED SHIFT /\ NoEvent
          ELSE IF s.make \in Shifts THEN SHIFT' = ~s.released /\ NoEvent
          ELSE /\ UNCHANGED SHIFT
               /\ IF s.released \/ s.make \notin Letters \cup Plain
                  THEN NoEvent
                  ELSE /\ push(translate(s.make))
                       /\ translated' = Append(translated, translate(s.make))

\* The handler's body, and its iret.
keyboard_interrupt ==
  /\ irq1
  /\ irq1' = FALSE /\ eflags_if' = TRUE
  /\ IF output = NoByte
     THEN UNCHANGED <<hardware, driver, ring, history>>
     ELSE /\ Read
          /\ seen' = Append(seen, output)
          /\ handle_scancode(output)
  /\ UNCHANGED <<init, shell>>

\* The timer's interrupt: here it only wakes the CPU.
timer_interrupt ==
  /\ init = "done" /\ eflags_if
  /\ Wake
  /\ UNCHANGED <<hardware, init, eflags_if, irq1, driver, ring, history>>
-----------------------------------------------------------------------------
\* shell_task, when no handler is running.
Shell(from, to) == ~irq1 /\ shell = from /\ shell' = to /\ UNCHANGED <<hardware, init, irq1, driver, history>>

\* input::pop, once round drain_input's loop.
pop ==
  /\ len > 0
  /\ Shell("drain", "drain")
  /\ tail' = (tail + 1) % CAPACITY /\ len' = len - 1
  /\ UNCHANGED <<eflags_if, buf, head, dropped>>

drained == len = 0 /\ Shell("drain", "yield") /\ UNCHANGED <<eflags_if, ring>>

\* yield_now masks interrupts; the other tasks run masked, and yield back.
yield_out == Shell("yield", "others") /\ eflags_if' = FALSE /\ UNCHANGED ring

\* Mutant: the shell is not put back on the ready queue.
yield_back_never == Shell("others", "others") /\ UNCHANGED <<eflags_if, ring>>

yield_back == Shell("others", "idle") /\ eflags_if' = TRUE /\ UNCHANGED ring

hlt == Shell("idle", "hlt") /\ UNCHANGED <<eflags_if, ring>>

Kernel == drain_output_buffer \/ unmask \/ keyboard_interrupt
            \/ pop \/ drained \/ yield_out \/ yield_back \/ hlt

Next == Kernel \/ enter_irq1 \/ timer_interrupt \/ \E s \in Scancodes : key_byte(s)

Spec == Init /\ [][Next]_vars

\* The CPU keeps executing; it takes an edge the next time interrupts are on;
\* the timer keeps ticking, and a tick finds a halted CPU.
FairSpec ==
  /\ Spec
  /\ WF_vars(Kernel)
  /\ SF_vars(enter_irq1)
  /\ WF_vars(shell = "hlt" /\ timer_interrupt)
-----------------------------------------------------------------------------
\* The events in the ring, oldest first.
Queued == [i \in 1 .. len |-> buf[(tail + i - 1) % CAPACITY]]

LQ == INSTANCE LossyQueue WITH Event <- Events, Capacity <- CAPACITY,
                               queue <- Queued, lost <- dropped

(***************************************************************************)
(* The ring of input.rs, filled from the IRQ1 handler and emptied by the   *)
(* shell, is a bounded FIFO that drops the newest event when it is full.   *)
(***************************************************************************)
RingIsLossyQueue == LQ!LQSpec

\* handle_scancode without its state: byte i belongs to an extended key, and
\* the Shift byte that last applied before it.
Prefixed(bytes, i) == i > 1 /\ bytes[i - 1] = EXT /\ bytes[i] # EXT
ShiftBytes(bytes, i) == {j \in 1 .. i - 1 : bytes[j].make \in Shifts /\ ~Prefixed(bytes, j)}
Shifted(bytes, i) ==
  \E j \in ShiftBytes(bytes, i) : ~bytes[j].released /\ \A k \in ShiftBytes(bytes, i) : k <= j
IsKey(bytes, i) ==
  bytes[i].make \in Letters \cup Plain /\ ~bytes[i].released /\ ~Prefixed(bytes, i)
KeyEvent(bytes, i) == <<bytes[i].make, bytes[i].make \in Letters /\ Shifted(bytes, i)>>
KeysUpTo(bytes, i) == {j \in 1 .. i : IsKey(bytes, j)}

(***************************************************************************)
(* Whatever the interleaving of prefixes, presses and releases, the events *)
(* are those of the keys pressed, in order, with the case the last Shift   *)
(* byte asks for; extended keys and the Shift bytes inside them leave no   *)
(* trace.                                                                  *)
(***************************************************************************)
KeysAreTranslated ==
  /\ Len(translated) = Cardinality(KeysUpTo(seen, Len(seen)))
  /\ \A i \in KeysUpTo(seen, Len(seen)) :
       translated[Cardinality(KeysUpTo(seen, i))] = KeyEvent(seen, i)

(***************************************************************************)
(* The keyboard never wedges: a byte in the 8042's buffer is read, whether *)
(* it was left by the firmware, came while IRQ1 was masked, or came while  *)
(* the handler ran.  (Its buffer accepts no other byte, and raises no      *)
(* other edge, until it is.)                                               *)
(***************************************************************************)
BytesAreRead == output # NoByte ~> output = NoByte

(***************************************************************************)
(* A key reaches the shell even when its interrupt comes after the drain   *)
(* and before the hlt: the next timer tick wakes the loop.                 *)
(***************************************************************************)
EventsReachTheShell == len > 0 ~> len = 0
=============================================================================
