----------------------------- MODULE InputProofs ----------------------------
(***************************************************************************)
(* Proofs about Input and Terminal: from the keyboard's bytes to the line  *)
(* on the screen.                                                          *)
(*                                                                         *)
(* The queue, for a ring of any capacity and any keyboard: head, tail and  *)
(* len of input.rs agree, the ring implements LossyQueue, and the events   *)
(* are those of the keys pressed.                                          *)
(*                                                                         *)
(* The screen, for every size of it: the row of the cursor reads the line. *)
(***************************************************************************)
EXTENDS Input, Terminal, FiniteSetTheorems, TLAPS

\* The provers have half a minute for each leaf that names none itself.
USE SMTT(30), ZenonT(30)

\* Sequences are equal when they have the same elements at the same places.
LEMMA SameSequence ==
  ASSUME NEW S, NEW s \in Seq(S), NEW t \in Seq(S),
         Len(s) = Len(t), \A k \in 1 .. Len(s) : s[k] = t[k]
  PROVE  s = t
OBVIOUS

\* What is left of a queue behind its head.
LEMMA TailIs ==
  ASSUME NEW S, NEW s \in Seq(S), s # << >>
  PROVE  /\ Head(s) \in S /\ Tail(s) \in Seq(S) /\ Len(Tail(s)) = Len(s) - 1
         /\ \A k \in 1 .. Len(s) - 1 : Tail(s)[k] = s[k + 1]
OBVIOUS

\* The indices agree: `head` is where the event after the last one goes.
RingInv ==
  /\ buf \in [Slots -> Events]
  /\ head \in Slots /\ tail \in Slots /\ len \in 0 .. CAPACITY
  /\ head = (tail + len) % CAPACITY
  /\ dropped \in Nat
  /\ output \in Scancodes \cup {NoByte} /\ SHIFT \in BOOLEAN

\* The index k places behind `tail`.
Place(k) == (tail + k) % CAPACITY

\* Stepping around a ring of CAPACITY slots.
LEMMA AroundRing ==
  ASSUME NEW h \in Slots, NEW k \in 0 .. CAPACITY
  PROVE  /\ (h + k) % CAPACITY = IF h + k < CAPACITY THEN h + k ELSE h + k - CAPACITY
         /\ (h + k) % CAPACITY \in Slots
<1>1. CAPACITY \in Nat /\ CAPACITY >= 1
  BY InputAssumption
<1>2. (h + k) % CAPACITY = IF h + k < CAPACITY THEN h + k ELSE h + k - CAPACITY
  BY <1>1 DEF Slots
<1> QED BY <1>1, <1>2 DEF Slots

\* Different places of the queue are different slots of the ring.
LEMMA PlacesDiffer ==
  ASSUME tail \in Slots, NEW j \in 0 .. CAPACITY - 1, NEW k \in 0 .. CAPACITY - 1, j # k
  PROVE  Place(j) # Place(k)
<1>1. CAPACITY \in Nat /\ CAPACITY >= 1
  BY InputAssumption
<1>2. /\ Place(j) = IF tail + j < CAPACITY THEN tail + j ELSE tail + j - CAPACITY
      /\ Place(k) = IF tail + k < CAPACITY THEN tail + k ELSE tail + k - CAPACITY
  BY <1>1, AroundRing DEF Place
<1> QED BY <1>1, <1>2 DEF Slots

\* A function on 1 .. n is a sequence of length n.
LEMMA IsSequence ==
  ASSUME NEW S, NEW n \in Nat, NEW f \in [1 .. n -> S]
  PROVE  f \in Seq(S) /\ Len(f) = n
OBVIOUS

\* Append, entry by entry.
LEMMA Appended ==
  ASSUME NEW S, NEW q \in Seq(S), NEW e \in S
  PROVE  /\ Append(q, e) \in Seq(S)
         /\ Len(Append(q, e)) = Len(q) + 1
         /\ \A k \in 1 .. Len(q) : Append(q, e)[k] = q[k]
         /\ Append(q, e)[Len(q) + 1] = e
OBVIOUS

\* The ring as a sequence of events.
LEMMA QueuedIsSeq ==
  ASSUME RingInv
  PROVE  /\ Queued \in Seq(Events) /\ Len(Queued) = len
         /\ \A i \in 1 .. len : Queued[i] = buf[Place(i - 1)]
<1>1. CAPACITY \in Nat /\ len \in Nat /\ len <= CAPACITY /\ tail \in Slots /\ buf \in [Slots -> Events]
  BY InputAssumption DEF RingInv
<1>2. ASSUME NEW i \in 1 .. len
      PROVE  buf[(tail + i - 1) % CAPACITY] = buf[Place(i - 1)] /\ buf[Place(i - 1)] \in Events
  <2>1. i - 1 \in 0 .. CAPACITY /\ tail + i - 1 = tail + (i - 1)
    BY <1>1 DEF Slots
  <2> QED BY <1>1, <2>1, AroundRing DEF Place
<1>3. Queued \in [1 .. len -> Events]
  BY <1>2 DEF Queued
<1> QED BY <1>1, <1>2, <1>3, IsSequence DEF Queued

\* The queue is in the ring alone.
LEMMA Unread == UNCHANGED ring => UNCHANGED <<Queued, dropped>>
BY DEF ring, Queued

\* push appends to a ring with room, and counts what it drops from a full one.
LEMMA PushPushes ==
  ASSUME RingInv, NEW e \in Events, push(e)
  PROVE  /\ LQ!LQPush(e) \/ LQ!LQDrop
         /\ buf' \in [Slots -> Events] /\ head' \in Slots /\ tail' \in Slots
         /\ len' \in 0 .. CAPACITY /\ head' = (tail' + len') % CAPACITY /\ dropped' \in Nat
<1>1. /\ CAPACITY \in Nat /\ CAPACITY >= 1 /\ len \in Nat /\ len <= CAPACITY /\ tail \in Slots
      /\ head \in Slots /\ head = Place(len) /\ buf \in [Slots -> Events] /\ dropped \in Nat
  BY InputAssumption DEF RingInv, Place
<1>2. /\ Queued \in Seq(Events) /\ Len(Queued) = len
      /\ \A i \in 1 .. len : Queued[i] = buf[Place(i - 1)]
  BY QueuedIsSeq
<1>3. CASE len = CAPACITY
  <2>1. dropped' = dropped + 1 /\ UNCHANGED <<buf, head, tail, len>>
    BY <1>3 DEF push
  <2>2. UNCHANGED Queued
    BY <2>1 DEF Queued
  <2>3. LQ!LQDrop
    BY <1>2, <1>3, <2>1, <2>2 DEF LQ!LQDrop
  <2> QED BY <1>1, <2>1, <2>3 DEF RingInv
<1>4. CASE len # CAPACITY
  <2>1. /\ buf' = [buf EXCEPT ![head] = e] /\ head' = (head + 1) % CAPACITY
        /\ len' = len + 1 /\ tail' = tail /\ dropped' = dropped
    BY <1>4 DEF push
  <2>2. len < CAPACITY /\ len + 1 \in 0 .. CAPACITY
    BY <1>1, <1>4
  <2>3. head' \in Slots /\ head' = (tail' + len') % CAPACITY
    <3>1. /\ (head + 1) % CAPACITY = IF head + 1 < CAPACITY THEN head + 1 ELSE head + 1 - CAPACITY
          /\ (head + 1) % CAPACITY \in Slots
      <4>1. 1 \in 0 .. CAPACITY
        BY <1>1
      <4> QED BY <1>1, <4>1, AroundRing
    <3>2. head = IF tail + len < CAPACITY THEN tail + len ELSE tail + len - CAPACITY
      <4>1. len \in 0 .. CAPACITY
        BY <1>1
      <4> QED BY <1>1, <4>1, AroundRing, ZenonT(30) DEF Place
    <3>3. (tail + (len + 1)) % CAPACITY
             = IF tail + (len + 1) < CAPACITY THEN tail + (len + 1) ELSE tail + (len + 1) - CAPACITY
      BY <1>1, <2>2, AroundRing
    <3>4. (head + 1) % CAPACITY = (tail + (len + 1)) % CAPACITY
      BY <1>1, <2>2, <3>1, <3>2, <3>3 DEF Slots
    <3> QED BY <2>1, <3>1, <3>4
  <2>4. /\ Append(Queued, e) \in Seq(Events) /\ Len(Append(Queued, e)) = len + 1
        /\ \A k \in 1 .. len : Append(Queued, e)[k] = Queued[k]
        /\ Append(Queued, e)[len + 1] = e
    BY <1>2, Appended
  <2>5. ASSUME NEW k \in 1 .. len + 1 PROVE buf'[Place(k - 1)] = Append(Queued, e)[k]
    <3>1. CASE k = len + 1
      <4>1. k - 1 = len
        BY <1>1, <3>1
      <4> QED BY <1>1, <2>1, <2>4, <3>1, <4>1
    <3>2. CASE k \in 1 .. len
      <4>1. k - 1 \in 0 .. CAPACITY - 1 /\ len \in 0 .. CAPACITY - 1 /\ k - 1 # len /\ k - 1 \in 0 .. CAPACITY
        BY <1>1, <2>2, <3>2
      <4>2. Place(k - 1) # head /\ Place(k - 1) \in Slots
        BY <1>1, <4>1, PlacesDiffer, AroundRing, ZenonT(30) DEF Place
      <4> QED BY <1>1, <1>2, <2>1, <2>4, <3>2, <4>2
    <3>3. k = len + 1 \/ k \in 1 .. len
      BY <1>1
    <3> QED BY <3>1, <3>2, <3>3, ZenonT(30)
  <2>6. Queued' = [k \in 1 .. len + 1 |-> buf'[Place(k - 1)]]
    <3>1. \A k \in 1 .. len + 1 : tail + k - 1 = tail + (k - 1)
      BY <1>1 DEF Slots
    <3> QED BY <2>1, <3>1 DEF Queued, Place
  <2>7. Queued' = Append(Queued, e)
    <3>1. ASSUME NEW k \in 1 .. len + 1 PROVE Append(Queued, e)[k] \in Events
      <4> DEFINE q == Append(Queued, e)
      <4>1. q \in Seq(Events) /\ k \in 1 .. Len(q)
        BY <2>4
      <4> HIDE DEF q
      <4>2. q[k] \in Events
        BY <4>1
      <4> QED BY <4>2, ZenonT(30) DEF q
    <3>2. Queued' \in [1 .. len + 1 -> Events] /\ len + 1 \in Nat
      <4>1. \A k \in 1 .. len + 1 : buf'[Place(k - 1)] \in Events
        BY <2>5, <3>1, ZenonT(30)
      <4>2. len + 1 \in Nat
        BY <1>1
      <4> QED BY <2>6, <4>1, <4>2
    <3>3. Queued' \in Seq(Events) /\ Len(Queued') = len + 1
      BY <3>2, IsSequence
    <3>4. \A k \in 1 .. len + 1 : Queued'[k] = Append(Queued, e)[k]
      BY <2>5, <2>6, ZenonT(30)
    <3> QED BY <2>4, <3>3, <3>4, SameSequence
  <2>8. LQ!LQPush(e)
    BY <1>2, <2>1, <2>2, <2>7 DEF LQ!LQPush
  <2>9. buf' \in [Slots -> Events]
    BY <1>1, <2>1
  <2> QED BY <1>1, <2>1, <2>2, <2>3, <2>8, <2>9
<1> QED BY <1>3, <1>4

\* pop removes the oldest event.
LEMMA PopPops ==
  ASSUME RingInv, pop
  PROVE  LQ!LQPop /\ RingInv'
<1>1. /\ CAPACITY \in Nat /\ CAPACITY >= 1 /\ len \in Nat /\ len <= CAPACITY /\ tail \in Slots
      /\ buf \in [Slots -> Events] /\ len > 0
  BY InputAssumption DEF RingInv, pop
<1>2. /\ tail' = (tail + 1) % CAPACITY /\ len' = len - 1
      /\ UNCHANGED <<buf, head, dropped, output, SHIFT>>
  BY DEF pop, Shell, hardware, driver
<1>3. /\ Queued \in Seq(Events) /\ Len(Queued) = len
      /\ \A i \in 1 .. len : Queued[i] = buf[Place(i - 1)]
  BY QueuedIsSeq
<1>4. 1 \in 0 .. CAPACITY /\ len \in 0 .. CAPACITY /\ len - 1 \in 0 .. CAPACITY
  BY <1>1
<1>5. /\ tail' = IF tail + 1 < CAPACITY THEN tail + 1 ELSE tail + 1 - CAPACITY
      /\ tail' \in Slots
  BY <1>1, <1>2, <1>4, AroundRing
<1>6. ASSUME NEW k \in 1 .. CAPACITY PROVE (tail' + (k - 1)) % CAPACITY = Place(k)
  <2>1. k - 1 \in 0 .. CAPACITY /\ k \in 0 .. CAPACITY
    BY <1>1
  <2>2. (tail' + (k - 1)) % CAPACITY
          = IF tail' + (k - 1) < CAPACITY THEN tail' + (k - 1) ELSE tail' + (k - 1) - CAPACITY
    BY <1>5, <2>1, AroundRing
  <2>3. Place(k) = IF tail + k < CAPACITY THEN tail + k ELSE tail + k - CAPACITY
    BY <1>1, <2>1, AroundRing DEF Place
  <2> QED BY <1>1, <1>5, <2>2, <2>3 DEF Slots
<1>7. head' = (tail' + len') % CAPACITY
  <2>1. len \in 1 .. CAPACITY
    BY <1>1
  <2> QED BY <1>2, <1>6, <2>1 DEF RingInv, Place
<1>8. RingInv'
  BY <1>2, <1>4, <1>5, <1>7 DEF RingInv
<1>9. /\ Queued' \in Seq(Events) /\ Len(Queued') = len - 1
      /\ \A i \in 1 .. len - 1 : Queued'[i] = buf[Place(i)]
  <2>1. Queued' = [i \in 1 .. len - 1 |-> buf[(tail' + i - 1) % CAPACITY]]
    BY <1>2 DEF Queued
  <2>2. ASSUME NEW i \in 1 .. len - 1
        PROVE  (tail' + i - 1) % CAPACITY = Place(i) /\ buf[Place(i)] \in Events
    <3>1. i \in 1 .. CAPACITY /\ i \in 0 .. CAPACITY /\ tail' + i - 1 = tail' + (i - 1)
      BY <1>1, <1>5 DEF Slots
    <3>2. Place(i) \in Slots
      BY <1>1, <3>1, AroundRing DEF Place
    <3> QED BY <1>1, <1>6, <3>1, <3>2
  <2>3. Queued' \in [1 .. len - 1 -> Events] /\ len - 1 \in Nat
    <3>1. len - 1 \in Nat
      BY <1>1
    <3>2. \A i \in 1 .. len - 1 : buf[(tail' + i - 1) % CAPACITY] \in Events
      BY <2>2
    <3> QED BY <2>1, <3>1, <3>2
  <2>4. Queued' \in Seq(Events) /\ Len(Queued') = len - 1
    BY <2>3, IsSequence
  <2> QED BY <2>1, <2>2, <2>4, ZenonT(30)
<1>10. Queued # << >>
  BY <1>1, <1>3
<1>11. /\ Tail(Queued) \in Seq(Events) /\ Len(Tail(Queued)) = len - 1
       /\ \A i \in 1 .. len - 1 : Tail(Queued)[i] = Queued[i + 1]
  BY <1>3, <1>10, TailIs
<1>12. ASSUME NEW i \in 1 .. len - 1 PROVE Queued'[i] = Tail(Queued)[i]
  <2>1. i + 1 \in 1 .. len /\ (i + 1) - 1 = i
    BY <1>1
  <2> QED BY <1>3, <1>9, <1>11, <2>1, ZenonT(30)
<1>13. Queued' = Tail(Queued)
  BY <1>9, <1>11, <1>12, SameSequence
<1> QED BY <1>2, <1>8, <1>10, <1>13 DEF LQ!LQPop

\* The IRQ1 handler pushes one event or none.
LEMMA HandlerPushes ==
  ASSUME RingInv, keyboard_interrupt
  PROVE  RingInv' /\ (LQ!LQNext \/ UNCHANGED <<Queued, dropped>>)
<1>1. output \in Scancodes \cup {NoByte} /\ SHIFT \in BOOLEAN /\ NoByte \notin Scancodes
  BY InputAssumption DEF RingInv
<1>2. CASE output = NoByte
  <2>1. UNCHANGED <<hardware, driver, ring>>
    BY <1>2 DEF keyboard_interrupt
  <2>2. RingInv'
    BY <2>1 DEF RingInv, hardware, driver, ring
  <2> QED BY <2>1, <2>2, Unread
<1>3. CASE output # NoByte
  <2>1. output \in Scancodes /\ output' = NoByte /\ handle_scancode(output)
    BY <1>1, <1>3 DEF keyboard_interrupt, Read
  <2>2. output.make \in STRING /\ output.released \in BOOLEAN
    BY <2>1, InputAssumption
  <2>3. SHIFT' \in BOOLEAN
    BY <1>1, <2>1, <2>2, ZenonT(30) DEF handle_scancode
  <2>4. CASE UNCHANGED ring
    <3>1. RingInv'
      BY <2>1, <2>3, <2>4 DEF RingInv, ring
    <3> QED BY <2>4, <3>1, Unread
  <2>5. CASE output.make \in Letters \cup Plain /\ push(translate(output.make))
    <3>1. translate(output.make) \in Events
      BY <1>1, <2>5, InputAssumption, ZenonT(30) DEF translate, Events
    <3>2. /\ LQ!LQPush(translate(output.make)) \/ LQ!LQDrop
          /\ buf' \in [Slots -> Events] /\ head' \in Slots /\ tail' \in Slots
          /\ len' \in 0 .. CAPACITY /\ head' = (tail' + len') % CAPACITY /\ dropped' \in Nat
      BY <2>5, <3>1, PushPushes
    <3>3. RingInv'
      BY <2>1, <2>3, <3>2 DEF RingInv
    <3> QED BY <3>1, <3>2, <3>3 DEF LQ!LQNext
  <2>6. UNCHANGED ring \/ (output.make \in Letters \cup Plain /\ push(translate(output.make)))
    BY <2>1 DEF handle_scancode, NoEvent
  <2> QED BY <2>4, <2>5, <2>6
<1> QED BY <1>2, <1>3

\* Every step keeps the invariant and is one of the queue's, or none.
LEMMA RingStep ==
  ASSUME RingInv, [Next]_vars
  PROVE  RingInv' /\ (LQ!LQNext \/ UNCHANGED <<Queued, dropped>>)
<1>1. CASE keyboard_interrupt
  BY <1>1, HandlerPushes
<1>2. CASE pop
  BY <1>2, PopPops DEF LQ!LQNext
<1>3. ASSUME UNCHANGED <<ring, SHIFT>>, output' \in Scancodes \cup {NoByte}
      PROVE  RingInv' /\ UNCHANGED <<Queued, dropped>>
  <2>1. RingInv'
    BY <1>3 DEF RingInv, ring
  <2> QED BY <1>3, <2>1, Unread
<1>4. output \in Scancodes \cup {NoByte}
  BY DEF RingInv
<1>5. CASE \E s \in Scancodes : key_byte(s)
  <2>1. UNCHANGED <<ring, SHIFT>> /\ output' \in Scancodes \cup {NoByte}
    BY <1>5 DEF key_byte, driver
  <2> QED BY <1>3, <2>1
<1>6. CASE drain_output_buffer \/ unmask \/ enter_irq1 \/ timer_interrupt
  <2>1. UNCHANGED <<ring, SHIFT>> /\ output' \in Scancodes \cup {NoByte}
    BY <1>4, <1>6, ZenonT(30)
       DEF drain_output_buffer, Read, unmask, enter_irq1, timer_interrupt, driver, hardware
  <2> QED BY <1>3, <2>1
<1>7. CASE drained \/ yield_out \/ yield_back \/ hlt
  <2>1. UNCHANGED <<ring, SHIFT>> /\ output' \in Scancodes \cup {NoByte}
    BY <1>4, <1>7 DEF drained, yield_out, yield_back, hlt, Shell, driver, hardware
  <2> QED BY <1>3, <2>1
<1>8. CASE UNCHANGED vars
  <2>1. UNCHANGED <<ring, SHIFT>> /\ output' \in Scancodes \cup {NoByte}
    BY <1>4, <1>8 DEF vars, ring
  <2> QED BY <1>3, <2>1
<1> QED BY <1>1, <1>2, <1>5, <1>6, <1>7, <1>8 DEF Next, Kernel

\* The ring starts empty, with its indices in step.
LEMMA RingInit == Init => RingInv /\ LQ!LQInit
<1> SUFFICES ASSUME Init PROVE RingInv /\ LQ!LQInit
  OBVIOUS
<1>1. CAPACITY \in Nat /\ CAPACITY >= 1
  BY InputAssumption
<1>2. 0 \in Slots /\ 0 \in 0 .. CAPACITY /\ (0 + 0) % CAPACITY = 0
  BY <1>1 DEF Slots
<1>3. buf \in [Slots -> Events]
  BY DEF Init, Events
<1>4. RingInv
  BY <1>2, <1>3 DEF Init, RingInv
<1>5. Queued = << >>
  BY DEF Init, Queued
<1> QED BY <1>4, <1>5 DEF Init, LQ!LQInit

\* For a ring of any capacity, head, tail and len stay in step (input.rs push and
\* pop), and an index never leaves the buffer.
THEOREM IndicesAgree == Spec => []RingInv
BY RingInit, RingStep, PTL DEF Spec

\* The ring of input.rs, of any capacity, implements the bounded queue that drops
\* and counts the newest event when it is full.
THEOREM RingRefinesQueue == Spec => RingIsLossyQueue
<1>1. RingInv /\ [Next]_vars => [LQ!LQNext]_(LQ!lq_vars)
  BY RingStep DEF LQ!lq_vars
<1> QED BY <1>1, RingInit, IndicesAgree, PTL DEF Spec, RingIsLossyQueue, LQ!LQSpec
-----------------------------------------------------------------------------
\* The driver's two flags are what the bytes so far make of them.
KeysInv ==
  /\ seen \in Seq(Scancodes) /\ translated \in Seq(Events)
  /\ EXTENDED \in BOOLEAN /\ SHIFT \in BOOLEAN
  /\ EXTENDED <=> (Len(seen) > 0 /\ seen[Len(seen)] = EXT)
  /\ SHIFT <=> Shifted(seen, Len(seen) + 1)
  /\ KeysAreTranslated

\* The handler has read the byte s.
Received(q, s, r) == q \in Seq(Scancodes) /\ s \in Scancodes /\ r = Append(q, s)

\* The bytes after one more is received.
LEMMA ReceivedBytes ==
  ASSUME NEW q, NEW s, NEW r, Received(q, s, r)
  PROVE  /\ Len(q) \in Nat /\ Len(r) = Len(q) + 1 /\ r \in Seq(Scancodes)
         /\ \A i \in 1 .. Len(q) : r[i] = q[i] /\ q[i] \in Scancodes
         /\ r[Len(q) + 1] = s
BY DEF Received

\* What an earlier byte means does not depend on a later one.
LEMMA MeaningsStay ==
  ASSUME NEW q, NEW s, NEW r, Received(q, s, r)
  PROVE  /\ \A i \in 1 .. Len(q) : Prefixed(r, i) = Prefixed(q, i) /\ IsKey(r, i) = IsKey(q, i)
                                      /\ KeyEvent(r, i) = KeyEvent(q, i)
         /\ \A i \in 1 .. Len(q) + 1 : ShiftBytes(r, i) = ShiftBytes(q, i) /\ Shifted(r, i) = Shifted(q, i)
         /\ \A i \in 0 .. Len(q) : KeysUpTo(r, i) = KeysUpTo(q, i)
<1>1. /\ Len(q) \in Nat /\ Len(r) = Len(q) + 1
      /\ \A i \in 1 .. Len(q) : r[i] = q[i]
  BY ReceivedBytes
<1>2. ASSUME NEW i \in 1 .. Len(q) PROVE Prefixed(r, i) = Prefixed(q, i) /\ IsKey(r, i) = IsKey(q, i)
  <2>1. i > 1 => i - 1 \in 1 .. Len(q)
    BY <1>1
  <2>2. Prefixed(r, i) = Prefixed(q, i)
    BY <1>1, <2>1 DEF Prefixed
  <2> QED BY <1>1, <2>2 DEF IsKey
<1>3. ASSUME NEW i \in 1 .. Len(q) + 1
      PROVE  ShiftBytes(r, i) = ShiftBytes(q, i) /\ Shifted(r, i) = Shifted(q, i)
  <2>1. \A j \in 1 .. i - 1 : j \in 1 .. Len(q)
    BY <1>1
  <2>2. ShiftBytes(r, i) = ShiftBytes(q, i)
    BY <1>1, <1>2, <2>1 DEF ShiftBytes
  <2>3. \A j \in ShiftBytes(q, i) : r[j] = q[j]
    BY <1>1, <2>1 DEF ShiftBytes
  <2> QED BY <2>2, <2>3 DEF Shifted
<1>4. ASSUME NEW i \in 1 .. Len(q) PROVE KeyEvent(r, i) = KeyEvent(q, i)
  <2>1. i \in 1 .. Len(q) + 1
    BY <1>1
  <2> QED BY <1>1, <1>3, <2>1 DEF KeyEvent
<1>5. ASSUME NEW i \in 0 .. Len(q) PROVE KeysUpTo(r, i) = KeysUpTo(q, i)
  <2>1. \A j \in 1 .. i : j \in 1 .. Len(q)
    BY <1>1
  <2> QED BY <1>2, <2>1 DEF KeysUpTo
<1> QED BY <1>2, <1>3, <1>4, <1>5

\* What the byte received means.
LEMMA NewByte ==
  ASSUME NEW q, NEW s, NEW r, Received(q, s, r),
         NEW ext \in BOOLEAN, ext <=> (Len(q) > 0 /\ q[Len(q)] = EXT),
         NEW sh \in BOOLEAN, sh <=> Shifted(q, Len(q) + 1)
  PROVE  /\ Prefixed(r, Len(r)) <=> (ext /\ s # EXT)
         /\ Shifted(r, Len(r)) <=> sh
         /\ Shifted(r, Len(r) + 1) <=> IF s.make \in Shifts /\ ~Prefixed(r, Len(r))
                                         THEN ~s.released ELSE sh
<1> DEFINE n == Len(q)
<1>1. /\ n \in Nat /\ Len(r) = n + 1
      /\ \A i \in 1 .. n : r[i] = q[i]
      /\ r[n + 1] = s
  BY ReceivedBytes
<1>2. \A i \in 1 .. n : Prefixed(r, i) = Prefixed(q, i)
  BY MeaningsStay
<1>3. ShiftBytes(r, n + 1) = ShiftBytes(q, n + 1) /\ Shifted(r, n + 1) = Shifted(q, n + 1)
  <2>1. n + 1 \in 1 .. n + 1
    BY <1>1
  <2> QED BY <2>1, MeaningsStay
<1>4. ext <=> (n > 0 /\ q[n] = EXT)
  OBVIOUS
<1>5. sh <=> Shifted(q, n + 1)
  OBVIOUS
<1> HIDE DEF n
<1>6. Prefixed(r, n + 1) <=> (ext /\ s # EXT)
  <2>1. n + 1 > 1 <=> n > 0
    BY <1>1
  <2>2. n > 0 => n \in 1 .. n /\ (n + 1) - 1 = n
    BY <1>1
  <2> QED BY <1>1, <1>4, <2>1, <2>2 DEF Prefixed
<1>7. \A j \in ShiftBytes(q, n + 1) : j \in 1 .. n /\ j <= n + 1 /\ r[j] = q[j]
  <2>1. (n + 1) - 1 = n
    BY <1>1
  <2> QED BY <1>1, <2>1 DEF ShiftBytes
<1>8. 1 .. (n + 1 + 1) - 1 = 1 .. n + 1 /\ 1 .. (n + 1) - 1 = 1 .. n
  BY <1>1
<1>9. 1 .. n + 1 = 1 .. n \cup {n + 1}
  BY <1>1
<1>10. ShiftBytes(r, n + 1 + 1) = ShiftBytes(q, n + 1) \cup
            (IF s.make \in Shifts /\ ~Prefixed(r, n + 1) THEN {n + 1} ELSE {})
  <2>1. ShiftBytes(r, n + 1 + 1) = {j \in 1 .. n + 1 : r[j].make \in Shifts /\ ~Prefixed(r, j)}
    BY <1>8, ZenonT(30) DEF ShiftBytes
  <2>2. ShiftBytes(q, n + 1) = {j \in 1 .. n : q[j].make \in Shifts /\ ~Prefixed(q, j)}
    BY <1>8, ZenonT(30) DEF ShiftBytes
  <2>3. {j \in 1 .. n : r[j].make \in Shifts /\ ~Prefixed(r, j)} = ShiftBytes(q, n + 1)
    BY <1>1, <1>2, <2>2
  <2> QED BY <1>1, <1>9, <2>1, <2>3
<1>11. CASE s.make \in Shifts /\ ~Prefixed(r, n + 1)
  <2>1. ShiftBytes(r, n + 1 + 1) = ShiftBytes(q, n + 1) \cup {n + 1}
    BY <1>10, <1>11
  <2>2. ASSUME NEW j \in ShiftBytes(r, n + 1 + 1) PROVE j <= n + 1 /\ (n + 1 <= j => j = n + 1)
    BY <1>1, <1>7, <2>1
  <2>3. n + 1 \in ShiftBytes(r, n + 1 + 1)
    BY <2>1
  <2>4. Shifted(r, n + 1 + 1) <=> \E j \in ShiftBytes(r, n + 1 + 1) :
                                  ~r[j].released /\ \A k \in ShiftBytes(r, n + 1 + 1) : k <= j
    BY DEF Shifted
  <2>5. Shifted(r, n + 1 + 1) <=> ~s.released
    BY <1>1, <2>2, <2>3, <2>4
  <2> QED BY <1>1, <1>3, <1>5, <1>6, <1>11, <2>5
<1>12. CASE ~(s.make \in Shifts /\ ~Prefixed(r, n + 1))
  <2>1. ShiftBytes(r, n + 1 + 1) = ShiftBytes(q, n + 1)
    BY <1>10, <1>12, ZenonT(30)
  <2>2. Shifted(r, n + 1 + 1) <=> \E j \in ShiftBytes(r, n + 1 + 1) :
                                  ~r[j].released /\ \A k \in ShiftBytes(r, n + 1 + 1) : k <= j
    BY DEF Shifted
  <2>3. Shifted(q, n + 1) <=> \E j \in ShiftBytes(q, n + 1) :
                              ~q[j].released /\ \A k \in ShiftBytes(q, n + 1) : k <= j
    BY DEF Shifted
  <2>4. Shifted(r, n + 1 + 1) <=> sh
    BY <1>5, <1>7, <2>1, <2>2, <2>3
  <2> QED BY <1>1, <1>3, <1>5, <1>6, <1>12, <2>4
<1> QED BY <1>11, <1>12

\* The keys among the first bytes are finitely many.
LEMMA KeysAreFinite ==
  ASSUME NEW q, NEW i \in Nat
  PROVE  IsFiniteSet(KeysUpTo(q, i)) /\ Cardinality(KeysUpTo(q, i)) \in Nat
<1>1. IsFiniteSet(1 .. i)
  BY FS_Interval
<1>2. KeysUpTo(q, i) \in SUBSET (1 .. i)
  BY DEF KeysUpTo
<1>3. IsFiniteSet(KeysUpTo(q, i))
  BY <1>1, <1>2, FS_Subset
<1> QED BY <1>3, FS_CardinalityType

\* The events t are those of the keys among the bytes q.
Translated(q, t) ==
  /\ Len(t) = Cardinality(KeysUpTo(q, Len(q)))
  /\ \A i \in KeysUpTo(q, Len(q)) : t[Cardinality(KeysUpTo(q, i))] = KeyEvent(q, i)

\* A byte that is not a key adds no event.
LEMMA NoKey ==
  ASSUME NEW q, NEW s, NEW r, Received(q, s, r), NEW t, Translated(q, t), ~IsKey(r, Len(r))
  PROVE  Translated(r, t)
<1> DEFINE n == Len(q)
<1>1. n \in Nat /\ Len(r) = n + 1
  BY ReceivedBytes
<1>2. /\ \A i \in 1 .. n : IsKey(r, i) = IsKey(q, i) /\ KeyEvent(r, i) = KeyEvent(q, i)
      /\ \A i \in 0 .. n : KeysUpTo(r, i) = KeysUpTo(q, i)
  BY MeaningsStay
<1>4. ~IsKey(r, n + 1)
  BY <1>1
<1>5. KeysUpTo(r, n + 1) = KeysUpTo(q, n)
  <2>1. 1 .. n + 1 = 1 .. n \cup {n + 1}
    BY <1>1
  <2>2. KeysUpTo(r, n + 1) = {j \in 1 .. n : IsKey(r, j)}
    BY <1>4, <2>1 DEF KeysUpTo
  <2> QED BY <1>2, <2>2 DEF KeysUpTo
<1>6. \A i \in KeysUpTo(q, n) : i \in 1 .. n /\ i \in 0 .. n
  BY <1>1 DEF KeysUpTo
<1> HIDE DEF n
<1>7. Len(t) = Cardinality(KeysUpTo(q, n))
      /\ \A i \in KeysUpTo(q, n) : t[Cardinality(KeysUpTo(q, i))] = KeyEvent(q, i)
  BY DEF Translated, n
<1>8. Cardinality(KeysUpTo(r, n + 1)) = Cardinality(KeysUpTo(q, n))
  BY <1>5
<1>9. \A i \in KeysUpTo(r, n + 1) : t[Cardinality(KeysUpTo(r, i))] = KeyEvent(r, i)
  BY <1>2, <1>5, <1>6, <1>7
<1> QED BY <1>1, <1>7, <1>8, <1>9 DEF Translated

\* A key adds its event.
LEMMA OneKey ==
  ASSUME NEW q, NEW s, NEW r, Received(q, s, r), NEW t \in Seq(Events), Translated(q, t),
         NEW u, IsKey(r, Len(r)),
         KeyEvent(r, Len(r)) \in Events,
         u = Append(t, KeyEvent(r, Len(r)))
  PROVE  Translated(r, u)
<1> DEFINE n == Len(q)
<1>1. n \in Nat /\ Len(r) = n + 1
  BY ReceivedBytes
<1>2. /\ \A i \in 1 .. n : IsKey(r, i) = IsKey(q, i) /\ KeyEvent(r, i) = KeyEvent(q, i)
      /\ \A i \in 0 .. n : KeysUpTo(r, i) = KeysUpTo(q, i)
  BY MeaningsStay
<1>3. IsKey(r, n + 1) /\ KeyEvent(r, n + 1) \in Events /\ u = Append(t, KeyEvent(r, n + 1))
  BY <1>1
<1>5. Len(t) = Cardinality(KeysUpTo(q, n))
      /\ \A i \in KeysUpTo(q, n) : t[Cardinality(KeysUpTo(q, i))] = KeyEvent(q, i)
  BY DEF Translated
<1> HIDE DEF n
<1>6. KeysUpTo(r, n + 1) = KeysUpTo(q, n) \cup {n + 1}
  <2>1. 1 .. n + 1 = 1 .. n \cup {n + 1}
    BY <1>1
  <2>2. KeysUpTo(r, n + 1) = {j \in 1 .. n : IsKey(r, j)} \cup {n + 1}
    BY <1>3, <2>1 DEF KeysUpTo
  <2> QED BY <1>2, <2>2 DEF KeysUpTo
<1>7. n + 1 \notin KeysUpTo(q, n) /\ \A i \in KeysUpTo(q, n) : i \in 1 .. n /\ i \in 0 .. n
  BY <1>1 DEF KeysUpTo
<1>8. Cardinality(KeysUpTo(r, n + 1)) = Len(t) + 1
  <2>1. IsFiniteSet(KeysUpTo(q, n))
    BY <1>1, KeysAreFinite
  <2>2. Cardinality(KeysUpTo(q, n) \cup {n + 1}) = Cardinality(KeysUpTo(q, n)) + 1
    BY <1>7, <2>1, FS_AddElement, ZenonT(30)
  <2> QED BY <1>5, <1>6, <2>2, ZenonT(30)
<1>9. /\ Len(u) = Len(t) + 1
      /\ \A k \in 1 .. Len(t) : u[k] = t[k]
      /\ u[Len(t) + 1] = KeyEvent(r, n + 1)
  <2>1. PICK e \in Events : e = KeyEvent(r, n + 1) /\ u = Append(t, e)
    BY <1>3, ZenonT(30)
  <2>2. /\ Len(Append(t, e)) = Len(t) + 1
        /\ \A k \in 1 .. Len(t) : Append(t, e)[k] = t[k]
        /\ Append(t, e)[Len(t) + 1] = e
    BY Appended
  <2> QED BY <2>1, <2>2, ZenonT(30)
<1>10. ASSUME NEW i \in KeysUpTo(q, n)
       PROVE  u[Cardinality(KeysUpTo(r, i))] = KeyEvent(r, i)
  <2>1. i \in 1 .. n /\ i \in 0 .. n /\ IsKey(q, i)
    BY <1>7 DEF KeysUpTo
  <2>2. KeysUpTo(q, i) \subseteq KeysUpTo(q, n) /\ i \in KeysUpTo(q, i)
    BY <1>1, <2>1 DEF KeysUpTo
  <2>3. IsFiniteSet(KeysUpTo(q, n)) /\ IsFiniteSet(KeysUpTo(q, i)) /\ Cardinality(KeysUpTo(q, i)) \in Nat
    BY <1>1, <2>1, KeysAreFinite
  <2>4. Cardinality(KeysUpTo(q, i)) <= Cardinality(KeysUpTo(q, n))
    BY <2>2, <2>3, FS_Subset
  <2>5. Cardinality(KeysUpTo(q, i)) # 0
    BY <2>2, <2>3, FS_EmptySet
  <2>6. Len(t) \in Nat
    OBVIOUS
  <2>7. Cardinality(KeysUpTo(q, i)) \in 1 .. Len(t)
    <3>1. \A a, b \in Nat : a <= b /\ a # 0 => a \in 1 .. b
      OBVIOUS
    <3>2. Cardinality(KeysUpTo(q, i)) <= Len(t)
      BY <1>5, <2>4, ZenonT(30)
    <3> QED BY <2>3, <2>5, <2>6, <3>1, <3>2, ZenonT(30)
  <2>8. u[Cardinality(KeysUpTo(q, i))] = KeyEvent(q, i)
    BY <1>5, <1>9, <2>7
  <2> QED BY <1>2, <2>1, <2>8, ZenonT(30)
<1>11. \A i \in KeysUpTo(r, n + 1) : u[Cardinality(KeysUpTo(r, i))] = KeyEvent(r, i)
  BY <1>6, <1>8, <1>9, <1>10, ZenonT(30)
<1> QED BY <1>1, <1>8, <1>9, <1>11, ZenonT(30) DEF Translated

\* handle_scancode keeps the invariant, whatever byte the handler reads.
LEMMA ScancodeKeeps ==
  ASSUME NEW s, Received(seen, s, seen'), KeysInv, handle_scancode(s)
  PROVE  KeysInv'
<1>0. PICK n : n = Len(seen)
  BY ZenonT(30)
<1>1. /\ n \in Nat /\ Len(seen') = n + 1 /\ seen' \in Seq(Scancodes) /\ seen'[n + 1] = s
  BY <1>0, ReceivedBytes
<1>2. /\ Prefixed(seen', n + 1) <=> (EXTENDED /\ s # EXT)
      /\ Shifted(seen', n + 1) <=> SHIFT
      /\ Shifted(seen', n + 1 + 1) <=> IF s.make \in Shifts /\ ~Prefixed(seen', n + 1) THEN ~s.released ELSE SHIFT
  BY <1>0, <1>1, NewByte DEF KeysInv
<1>3. /\ s.make \in STRING /\ s.released \in BOOLEAN /\ EXTENDED \in BOOLEAN /\ SHIFT \in BOOLEAN
      /\ translated \in Seq(Events)
  BY InputAssumption DEF KeysInv, Received
<1>4. s = EXT => s.make \notin Letters \cup Plain /\ s.make \notin Shifts
  <2>1. EXT.make \notin Letters \cup Plain
    BY InputAssumption
  <2>2. EXT.make \notin Shifts
    BY DEF EXT, Shifts
  <2> QED BY <2>1, <2>2
<1>5. s.make \in Shifts => s.make \notin Letters \cup Plain
  BY InputAssumption
<1>6. IsKey(seen', n + 1) <=> s.make \in Letters \cup Plain /\ ~s.released /\ ~(EXTENDED /\ s # EXT)
  BY <1>1, <1>2 DEF IsKey
<1>7. KeyEvent(seen', n + 1) = <<s.make, s.make \in Letters /\ SHIFT>>
  <2>1. (s.make \in Letters /\ Shifted(seen', n + 1)) = (s.make \in Letters /\ SHIFT)
    BY <1>2, <1>3
  <2> QED BY <1>1, <2>1 DEF KeyEvent
<1>8. EXTENDED' \in BOOLEAN /\ (EXTENDED' <=> s = EXT)
  BY ZenonT(30) DEF handle_scancode
<1>9. SHIFT' \in BOOLEAN /\ (SHIFT' <=> Shifted(seen', n + 1 + 1))
  <2>1. CASE s.make \in Shifts /\ ~Prefixed(seen', n + 1)
    <3>1. SHIFT' = ~s.released
      BY <1>2, <1>4, <2>1 DEF handle_scancode
    <3> QED BY <1>2, <1>3, <2>1, <3>1, ZenonT(30)
  <2>2. CASE ~(s.make \in Shifts /\ ~Prefixed(seen', n + 1))
    <3>1. SHIFT' = SHIFT
      BY <1>2, <2>2 DEF handle_scancode
    <3> QED BY <1>2, <1>3, <2>2, <3>1
  <2> QED BY <2>1, <2>2
<1>10. KeysAreTranslated' /\ translated' \in Seq(Events)
  <2>1. CASE IsKey(seen', n + 1)
    <3>1. translated' = Append(translated, translate(s.make))
      BY <1>4, <1>5, <1>6, <2>1 DEF handle_scancode
    <3>2. translate(s.make) = KeyEvent(seen', n + 1)
      BY <1>7 DEF translate
    <3>3. KeyEvent(seen', n + 1) \in Events
      <4>1. s.make \in Letters \cup Plain /\ (s.make \in Plain => s.make \notin Letters)
        BY <1>6, <2>1, InputAssumption
      <4>2. translate(s.make) \in Events
        BY <1>3, <4>1, ZenonT(30) DEF translate, Events
      <4> QED BY <3>2, <4>2
    <3>4. KeysAreTranslated'
      <4>1. Translated(seen', translated')
        <5>1. Translated(seen, translated)
          BY DEF KeysInv, KeysAreTranslated, Translated
        <5>2. IsKey(seen', Len(seen')) /\ KeyEvent(seen', Len(seen')) \in Events
              /\ translated' = Append(translated, KeyEvent(seen', Len(seen')))
          BY <1>1, <2>1, <3>1, <3>2, <3>3
        <5> QED BY <1>3, <5>1, <5>2, OneKey, ZenonT(30)
      <4> QED BY <4>1 DEF KeysAreTranslated, Translated
    <3> QED BY <1>3, <3>1, <3>2, <3>3, <3>4, Appended
  <2>2. CASE ~IsKey(seen', n + 1)
    <3>1. translated' = translated
      BY <1>4, <1>6, <2>2 DEF handle_scancode, NoEvent
    <3>2. KeysAreTranslated'
      <4>1. Translated(seen', translated)
        <5>1. Translated(seen, translated)
          BY DEF KeysInv, KeysAreTranslated, Translated
        <5> QED BY <1>1, <2>2, <5>1, NoKey
      <4> QED BY <3>1, <4>1 DEF KeysAreTranslated, Translated
    <3> QED BY <1>3, <3>1, <3>2
  <2> QED BY <2>1, <2>2
<1>11. EXTENDED' <=> (Len(seen') > 0 /\ seen'[Len(seen')] = EXT)
  BY <1>1, <1>8
<1>12. SHIFT' <=> Shifted(seen', Len(seen') + 1)
  BY <1>1, <1>9
<1> QED BY <1>1, <1>8, <1>9, <1>10, <1>11, <1>12 DEF KeysInv

\* Nothing else touches the driver's flags.
LEMMA KeysStep == ASSUME RingInv, KeysInv, [Next]_vars PROVE KeysInv'
<1>1. ASSUME UNCHANGED <<EXTENDED, SHIFT, seen, translated>> PROVE KeysInv'
  BY <1>1, ZenonT(30)
     DEF KeysInv, KeysAreTranslated, KeysUpTo, KeyEvent, IsKey, Shifted, ShiftBytes, Prefixed
<1>2. CASE keyboard_interrupt
  <2>1. CASE output = NoByte
    BY <1>1, <1>2, <2>1 DEF keyboard_interrupt, driver, history
  <2>2. CASE output # NoByte
    <3>1. Received(seen, output, seen') /\ handle_scancode(output)
      BY <1>2, <2>2 DEF keyboard_interrupt, RingInv, KeysInv, Received
    <3> QED BY <3>1, ScancodeKeeps
  <2> QED BY <2>1, <2>2
<1>3. CASE \E s \in Scancodes : key_byte(s)
  BY <1>1, <1>3 DEF key_byte, driver, history
<1>4. CASE drain_output_buffer \/ unmask \/ enter_irq1 \/ timer_interrupt
  BY <1>1, <1>4 DEF drain_output_buffer, unmask, enter_irq1, timer_interrupt, driver, history
<1>5. CASE pop \/ drained \/ yield_out \/ yield_back \/ hlt
  BY <1>1, <1>5 DEF pop, drained, yield_out, yield_back, hlt, Shell, driver, history
<1>6. CASE UNCHANGED vars
  BY <1>1, <1>6 DEF vars
<1> QED BY <1>2, <1>3, <1>4, <1>5, <1>6, ZenonT(30) DEF Next, Kernel

\* No byte, no event.
LEMMA KeysInit == Init => KeysInv
<1> SUFFICES ASSUME Init PROVE KeysInv
  OBVIOUS
<1>1. seen = << >> /\ translated = << >> /\ EXTENDED = FALSE /\ SHIFT = FALSE
  BY DEF Init
<1>2. Len(seen) = 0 /\ Len(translated) = 0 /\ seen \in Seq(Scancodes) /\ translated \in Seq(Events)
  BY <1>1
<1>3. KeysUpTo(seen, 0) = {} /\ ShiftBytes(seen, 0 + 1) = {}
  BY DEF KeysUpTo, ShiftBytes
<1>4. ~Shifted(seen, 0 + 1)
  BY <1>3 DEF Shifted
<1>5. Cardinality(KeysUpTo(seen, 0)) = 0
  BY <1>3, FS_EmptySet
<1>6. KeysAreTranslated
  BY <1>2, <1>3, <1>5 DEF KeysAreTranslated
<1>7. SHIFT <=> Shifted(seen, Len(seen) + 1)
  BY <1>1, <1>2, <1>4
<1>8. EXTENDED <=> (Len(seen) > 0 /\ seen[Len(seen)] = EXT)
  BY <1>1, <1>2
<1> QED BY <1>1, <1>2, <1>6, <1>7, <1>8, ZenonT(30) DEF KeysInv

\* For every keyboard layout and every sequence of bytes, handle_scancode
\* translates exactly the keys pressed, in order, with the case of the last Shift
\* byte; prefixed bytes leave no trace in its two flags.
THEOREM TranslationIsCorrect == Spec => []KeysAreTranslated
<1>1. KeysInv => KeysAreTranslated
  BY DEF KeysInv
<1> QED BY <1>1, KeysInit, KeysStep, IndicesAgree, PTL DEF Spec
-----------------------------------------------------------------------------
\* The constants, one fact each.
LEMMA TerminalConstants ==
  /\ BUFFER_WIDTH \in Nat /\ BUFFER_WIDTH >= 1 /\ BUFFER_HEIGHT \in Nat /\ BUFFER_HEIGHT >= 1
  /\ LINE_CAPACITY \in Nat /\ Len(PROMPT) + LINE_CAPACITY <= BUFFER_WIDTH
  /\ Unprintable \subseteq Bytes \ {Newline} /\ Keys \subseteq Bytes \ {Newline}
  /\ PROMPT \in Seq(Bytes \ ({Newline} \cup Unprintable))
  /\ UNKNOWN \in Seq(Bytes) /\ Line \in Seq(Bytes) /\ Blank \in Bytes /\ Newline \in Bytes
  /\ \A text \in Texts : text \in Seq(Bytes) /\ text # << >> /\ text[Len(text)] = Newline
BY TerminalAssumption

Cells == Bytes \cup {Block}

Terminals == [screen : [Rows -> [Columns -> Cells]], row : Rows, column : 0 .. BUFFER_WIDTH]

\* Nothing is left behind the cursor.
Clean(w) ==
  \A r \in Rows : \A c \in Columns :
    r > w.row \/ (r = w.row /\ c >= w.column) => w.screen[r][c] = Blank

Good == {w \in Terminals : Clean(w)}

\* The row of the cursor reads s.
Reads(w, s) == w.column = Len(s) /\ \A i \in 1 .. w.column : w.screen[w.row][i - 1] = s[i]

TerminalInv ==
  /\ Writer \in Good
  /\ line_buf \in Seq(Keys) /\ Len(line_buf) <= LINE_CAPACITY
  /\ disturbed \in BOOLEAN /\ (~disturbed => Reads(Writer, PROMPT \o line_buf))
-----------------------------------------------------------------------------
\* A set of numbers has a least one.
LEMMA LeastOne ==
  ASSUME NEW T, T \subseteq Nat, T # {}
  PROVE  \E x \in T : \A y \in T : ~(y < x)
<1>1. PICK x \in T : \A y \in T : ~(<<y, x>> \in OpToRel(<, Nat))
  BY WFMin, NatLessThanWellFounded, ZenonT(30)
<1> QED
  BY <1>1, ZenonT(30) DEF OpToRel

\* A new line starts at column 0, with nothing after it.
LEMMA NewLine ==
  ASSUME NEW w \in Good
  PROVE  new_line(w) \in Good /\ new_line(w).column = 0
<1>1. /\ w \in Terminals /\ w.screen \in [Rows -> [Columns -> Cells]] /\ w.row \in Rows
      /\ w.column \in 0 .. BUFFER_WIDTH
  BY DEF Good, Terminals
<1>2. \A r \in Rows : \A c \in Columns : r > w.row => w.screen[r][c] = Blank
  BY ZenonT(30) DEF Good, Clean
<1>3. 0 \in 0 .. BUFFER_WIDTH
  BY TerminalConstants
<1>4. CASE w.row + 1 < BUFFER_HEIGHT
  <2> DEFINE v == [w EXCEPT !.row = @ + 1, !.column = 0]
  <2>1. new_line(w) = v
    BY <1>4 DEF new_line
  <2>2. v.row = w.row + 1 /\ v.column = 0 /\ v.screen = w.screen
    BY <1>1 DEF Terminals
  <2>3. w.row + 1 \in Rows
    BY <1>1, <1>4, TerminalConstants DEF Rows
  <2>4. v \in Terminals
    BY <1>1, <1>3, <2>3, ZenonT(30) DEF Terminals
  <2>5. \A r \in Rows : r > w.row + 1 \/ r = w.row + 1 => r > w.row
    BY <1>1 DEF Rows
  <2>6. Clean(v)
    BY <1>2, <2>2, <2>5 DEF Clean
  <2> HIDE DEF v
  <2> QED
    BY <2>1, <2>2, <2>4, <2>6 DEF Good
<1>5. CASE ~(w.row + 1 < BUFFER_HEIGHT)
  <2> DEFINE s == scroll(w.screen)
             v == [w EXCEPT !.screen = s, !.column = 0]
  <2>1. new_line(w) = v
    BY <1>5 DEF new_line
  <2>2. \A r \in Rows : s[r] = IF r = BUFFER_HEIGHT - 1 THEN BlankRow ELSE w.screen[r + 1]
    BY DEF scroll
  <2>3. BlankRow \in [Columns -> Cells] /\ \A c \in Columns : BlankRow[c] = Blank
    BY TerminalConstants DEF BlankRow, Cells
  <2>4. \A r \in Rows : r # BUFFER_HEIGHT - 1 => r + 1 \in Rows
    BY TerminalConstants DEF Rows
  <2>5. s \in [Rows -> [Columns -> Cells]]
    BY <1>1, <2>3, <2>4 DEF scroll
  <2> HIDE DEF s
  <2>6. v.row = w.row /\ v.column = 0 /\ v.screen = s
    BY <1>1 DEF Terminals
  <2>7. v \in Terminals
    BY <1>1, <1>3, <2>5, ZenonT(30) DEF Terminals
  <2>8. w.row = BUFFER_HEIGHT - 1 /\ \A r \in Rows : r >= BUFFER_HEIGHT - 1 => r = BUFFER_HEIGHT - 1
    BY <1>1, <1>5, TerminalConstants DEF Rows
  <2>9. \A r \in Rows : r > w.row \/ r = w.row => r = BUFFER_HEIGHT - 1
    BY <2>8, TerminalConstants DEF Rows
  <2>10. Clean(v)
    BY <2>2, <2>3, <2>6, <2>9 DEF Clean
  <2> HIDE DEF v
  <2> QED
    BY <2>1, <2>6, <2>7, <2>10 DEF Good
<1> QED
  BY <1>4, <1>5

\* A cleared screen is blank.
LEMMA ClearIsGood == clear_screen \in Good /\ clear_screen.column = 0
<1>1. BlankRow \in [Columns -> Cells] /\ \A c \in Columns : BlankRow[c] = Blank
  BY TerminalConstants DEF BlankRow, Cells
<1>2. 0 \in Rows /\ 0 \in 0 .. BUFFER_WIDTH
  BY TerminalConstants DEF Rows
<1>3. clear_screen \in Terminals
  BY <1>1, <1>2 DEF clear_screen, Terminals
<1>4. Clean(clear_screen)
  BY <1>1 DEF clear_screen, Clean
<1> QED
  BY <1>3, <1>4 DEF Good, clear_screen

\* A byte that has room goes behind the others of its row.
LEMMA PutChar ==
  ASSUME NEW w \in Good, ~Full(w), NEW b \in Cells
  PROVE  LET v == [put_char(w, b) EXCEPT !.column = @ + 1]
         IN  /\ v \in Good /\ v.row = w.row /\ v.column = w.column + 1
             /\ \A c \in Columns : v.screen[w.row][c] = IF c = w.column THEN b ELSE w.screen[w.row][c]
<1> DEFINE v == [put_char(w, b) EXCEPT !.column = @ + 1]
<1>1. /\ w \in Terminals /\ w.screen \in [Rows -> [Columns -> Cells]] /\ w.row \in Rows
      /\ w.column \in 0 .. BUFFER_WIDTH
  BY DEF Good, Terminals
<1>2. w.column \in Columns /\ w.column + 1 \in 0 .. BUFFER_WIDTH
  BY <1>1, TerminalConstants DEF Full, Columns
<1> DEFINE s == [w.screen EXCEPT ![w.row][w.column] = b]
<1>3. s \in [Rows -> [Columns -> Cells]]
  BY <1>1, <1>2
<1>4. /\ \A r \in Rows : r # w.row => s[r] = w.screen[r]
      /\ \A c \in Columns : s[w.row][c] = IF c = w.column THEN b ELSE w.screen[w.row][c]
  BY <1>1, <1>2
<1>5. put_char(w, b) = [w EXCEPT !.screen = s]
  BY <1>1 DEF put_char, Terminals
<1> HIDE DEF s
<1>6. v.row = w.row /\ v.column = w.column + 1 /\ v.screen = s
  BY <1>1, <1>5 DEF Terminals
<1>7. v \in Terminals
  BY <1>1, <1>2, <1>3, <1>5, ZenonT(30) DEF Terminals
<1>8. Clean(v)
  <2> SUFFICES ASSUME NEW r \in Rows, NEW c \in Columns,
                      r > w.row \/ (r = w.row /\ c >= w.column + 1)
               PROVE  s[r][c] = Blank
    BY <1>6 DEF Clean
  <2>1. w.screen[r][c] = Blank
    <3>1. r > w.row \/ (r = w.row /\ c >= w.column)
      BY <1>1 DEF Columns
    <3> QED
      BY <3>1, ZenonT(30) DEF Good, Clean
  <2>2. r = w.row => c # w.column
    BY <1>1 DEF Rows, Columns
  <2> QED
    BY <1>4, <2>1, <2>2
<1> HIDE DEF v
<1>9. v \in Good
  BY <1>7, <1>8 DEF Good
<1>10. \A c \in Columns : v.screen[w.row][c] = IF c = w.column THEN b ELSE w.screen[w.row][c]
  BY <1>4, <1>6
<1> QED
  BY <1>6, <1>9, <1>10 DEF v

\* A byte leaves the terminal good, whatever it is.
LEMMA WriteByte ==
  ASSUME NEW w \in Good, NEW b \in Cells
  PROVE  write_byte(w, b) \in Good /\ (b = Newline => write_byte(w, b).column = 0)
<1>1. CASE b = Newline
  BY <1>1, NewLine DEF write_byte
<1>2. CASE b # Newline
  <2> DEFINE at == IF Full(w) THEN new_line(w) ELSE w
  <2>1. write_byte(w, b) = [put_char(at, b) EXCEPT !.column = @ + 1]
    BY <1>2 DEF write_byte
  <2>2. at \in Good /\ ~Full(at)
    BY NewLine, TerminalConstants DEF Full
  <2> HIDE DEF at
  <2> QED
    BY <1>2, <2>1, <2>2, PutChar
<1> QED
  BY <1>1, <1>2
-----------------------------------------------------------------------------
\* f goes through the first m bytes of a text, from w.
Through(f, w, text, m) ==
  f[0] = w /\ \A n \in 1 .. m : f[n] = write_byte(f[n - 1], representable(text[n]))

\* What stands for a byte is one that write_byte takes.
LEMMA Representable ==
  ASSUME NEW b \in Bytes
  PROVE  /\ representable(b) \in Cells
         /\ b = Newline => representable(b) = Newline
         /\ b \notin Unprintable => representable(b) = b
BY TerminalConstants DEF representable, Cells

\* The loop over a text can be run, and keeps the terminal good.
LEMMA LoopRuns ==
  ASSUME NEW w \in Good, NEW text \in Seq(Bytes)
  PROVE  \A m \in 0 .. Len(text) : \E f \in [0 .. m -> Good] : Through(f, w, text, m)
<1> DEFINE Fails == {m \in 0 .. Len(text) : ~\E f \in [0 .. m -> Good] : Through(f, w, text, m)}
<1> SUFFICES ASSUME Fails # {} PROVE FALSE
  BY ZenonT(30)
<1>1. PICK m \in Fails : \A y \in Fails : ~(y < m)
  <2>1. Fails \subseteq Nat
    OBVIOUS
  <2> HIDE DEF Fails
  <2> QED
    BY <2>1, LeastOne, ZenonT(30)
<1>2. m \in 0 .. Len(text) /\ Len(text) \in Nat
  OBVIOUS
<1>3. ~\E f \in [0 .. m -> Good] : Through(f, w, text, m)
  BY ZenonT(30)
<1>4. m # 0
  <2>1. [i \in 0 .. 0 |-> w] \in [0 .. 0 -> Good] /\ [i \in 0 .. 0 |-> w][0] = w
    OBVIOUS
  <2>2. Through([i \in 0 .. 0 |-> w], w, text, 0)
    BY <2>1 DEF Through
  <2> QED
    BY <1>3, <2>1, <2>2, ZenonT(30)
<1>5. m - 1 \in 0 .. Len(text) /\ m - 1 < m /\ m \in 1 .. Len(text)
  BY <1>2, <1>4
<1>6. m - 1 \notin Fails
  BY <1>1, <1>5, ZenonT(30)
<1>7. PICK f \in [0 .. m - 1 -> Good] : Through(f, w, text, m - 1)
  BY <1>5, <1>6, ZenonT(30)
<1> HIDE DEF Fails
<1> DEFINE b == representable(text[m])
           last == write_byte(f[m - 1], b)
           g == [i \in 0 .. m |-> IF i = m THEN last ELSE f[i]]
<1>8. b \in Cells
  <2>1. text[m] \in Bytes
    BY ONLY <1>5, text \in Seq(Bytes), SMTT(30)
  <2> QED
    BY <2>1, Representable
<1>9. last \in Good
  <2>1. f[m - 1] \in Good
    BY <1>5
  <2> QED
    BY <1>8, <2>1, WriteByte
<1> HIDE DEF last
<1>10. g \in [0 .. m -> Good]
  BY <1>2, <1>9
<1>11. g[0] = w /\ g[m] = last /\ \A i \in 0 .. m - 1 : g[i] = f[i]
  BY <1>2, <1>4, <1>7 DEF Through
<1> HIDE DEF g
<1>12. \A n \in 1 .. m : n = m \/ (n \in 1 .. m - 1 /\ n \in 0 .. m - 1 /\ n - 1 \in 0 .. m - 1)
  BY ONLY <1>2, SMTT(30)
<1>13. ASSUME NEW n \in 1 .. m PROVE g[n] = write_byte(g[n - 1], representable(text[n]))
  <2>1. CASE n = m
    <3>1. g[m - 1] = f[m - 1]
      BY <1>5, <1>11
    <3> QED
      BY <1>11, <2>1, <3>1 DEF last
  <2>2. CASE n \in 1 .. m - 1 /\ n \in 0 .. m - 1 /\ n - 1 \in 0 .. m - 1
    <3>1. f[n] = write_byte(f[n - 1], representable(text[n]))
      BY <1>7, <2>2, ZenonT(30) DEF Through
    <3>2. g[n] = f[n] /\ g[n - 1] = f[n - 1]
      BY <1>11, <2>2, ZenonT(30)
    <3> QED
      BY <3>1, <3>2, ZenonT(30)
  <2> QED
    BY <1>12, <2>1, <2>2
<1>14. Through(g, w, text, m)
  BY <1>11, <1>13, ZenonT(30) DEF Through
<1> QED
  BY <1>3, <1>10, <1>14

\* The loop over a text has one outcome.
LEMMA LoopIsOne ==
  ASSUME NEW w, NEW text, NEW m \in Nat, NEW f, NEW g,
         Through(f, w, text, m), Through(g, w, text, m)
  PROVE  f[m] = g[m]
<1> DEFINE Differ == {n \in 0 .. m : f[n] # g[n]}
<1> SUFFICES ASSUME f[m] # g[m] PROVE FALSE
  OBVIOUS
<1>1. Differ \subseteq Nat /\ m \in Differ
  OBVIOUS
<1> HIDE DEF Differ
<1>2. PICK n \in Differ : \A y \in Differ : ~(y < n)
  BY <1>1, LeastOne, ZenonT(30)
<1>3. n \in 0 .. m /\ f[n] # g[n]
  BY ZenonT(30) DEF Differ
<1>4. n # 0
  BY <1>3 DEF Through
<1>5. n \in 1 .. m /\ n - 1 \in 0 .. m /\ n - 1 < n
  BY ONLY <1>3, <1>4, SMTT(30)
<1>6. f[n - 1] = g[n - 1]
  BY <1>2, <1>5, ZenonT(30) DEF Differ
<1>7. f[n] = write_byte(f[n - 1], representable(text[n]))
  BY <1>5, ZenonT(30) DEF Through
<1>8. g[n] = write_byte(g[n - 1], representable(text[n]))
  BY <1>5, ZenonT(30) DEF Through
<1> QED
  BY <1>3, <1>6, <1>7, <1>8, ZenonT(30)

\* A printed text is what the loop over its bytes leaves.
LEMMA PrintedText ==
  ASSUME NEW w \in Good, NEW text \in Seq(Bytes)
  PROVE  \E f \in [0 .. Len(text) -> Good] :
           Through(f, w, text, Len(text)) /\ write_string(w, text) = f[Len(text)]
<1> DEFINE Loop(f) == [n \in 0 .. Len(text) |->
                         IF n = 0 THEN w ELSE write_byte(f[n - 1], representable(text[n]))]
           after == CHOOSE f : f = Loop(f)
<1>1. Len(text) \in Nat
  OBVIOUS
<1>2. PICK f \in [0 .. Len(text) -> Good] : Through(f, w, text, Len(text))
  BY <1>1, LoopRuns
<1>3. f = Loop(f)
  <2>1. ASSUME NEW n \in 0 .. Len(text) PROVE f[n] = Loop(f)[n]
    <3>1. n = 0 \/ n \in 1 .. Len(text)
      BY ONLY <1>1, SMTT(30)
    <3> QED
      BY <1>2, <3>1 DEF Through
  <2> QED
    BY <2>1
<1>4. after = Loop(after)
  BY <1>3, ZenonT(30)
<1>5. write_string(w, text) = after[Len(text)]
  BY ZenonT(30) DEF write_string
<1> HIDE DEF after
<1>6. after[0] = w
  BY <1>1, <1>4
<1>7. ASSUME NEW n \in 1 .. Len(text) PROVE after[n] = write_byte(after[n - 1], representable(text[n]))
  <2>1. n \in 0 .. Len(text) /\ n # 0
    BY ONLY <1>1, SMTT(30)
  <2> QED
    BY <1>4, <2>1
<1>8. Through(after, w, text, Len(text))
  BY <1>6, <1>7, ZenonT(30) DEF Through
<1>9. f[Len(text)] = after[Len(text)]
  BY <1>1, <1>2, <1>8, LoopIsOne
<1> QED
  BY <1>2, <1>5, <1>9

-----------------------------------------------------------------------------
\* Printing keeps the terminal good; a text that ends its line leaves the cursor
\* at column 0.
LEMMA Prints ==
  ASSUME NEW w \in Good, NEW text \in Seq(Bytes)
  PROVE  /\ write_string(w, text) \in Good
         /\ text = << >> => write_string(w, text) = w
         /\ text # << >> /\ text[Len(text)] = Newline => write_string(w, text).column = 0
<1> PICK m \in Nat : m = Len(text)
  OBVIOUS
<1>1. PICK f \in [0 .. m -> Good] : Through(f, w, text, m) /\ write_string(w, text) = f[m]
  BY PrintedText
<1>2. f[m] \in Good
  OBVIOUS
<1>3. ASSUME text # << >>, text[m] = Newline PROVE f[m].column = 0
  <2>1. m \in 1 .. m /\ m - 1 \in 0 .. m /\ Newline \in Bytes
    BY <1>3, TerminalConstants
  <2>2. f[m] = write_byte(f[m - 1], representable(text[m]))
    BY <1>1, <2>1, ZenonT(30) DEF Through
  <2>3. representable(Newline) \in Cells /\ representable(Newline) = Newline
    BY <2>1, Representable
  <2>4. f[m - 1] \in Good
    BY <2>1
  <2> QED
    BY <1>3, <2>2, <2>3, <2>4, WriteByte
<1>4. text = << >> => f[m] = w
  BY <1>1 DEF Through
<1> QED
  BY <1>1, <1>2, <1>3, <1>4

\* One character printed is one byte written.
LEMMA OneByte ==
  ASSUME NEW w \in Good, NEW b \in Bytes, b \notin Unprintable
  PROVE  write_string(w, <<b>>) = write_byte(w, b)
<1>1. <<b>> \in Seq(Bytes) /\ Len(<<b>>) = 1 /\ <<b>>[1] = b
  OBVIOUS
<1>2. PICK f \in [0 .. 1 -> Good] : Through(f, w, <<b>>, 1) /\ write_string(w, <<b>>) = f[1]
  BY <1>1, PrintedText, ZenonT(30)
<1>3. f[1] = write_byte(f[0], representable(b)) /\ f[0] = w
  BY <1>1, <1>2 DEF Through
<1> QED
  BY <1>2, <1>3, Representable

\* A printable byte goes behind what its row reads, while there is room.
LEMMA Extends ==
  ASSUME NEW w \in Good, NEW s \in Seq(Bytes), Reads(w, s), Len(s) < BUFFER_WIDTH,
         NEW b \in Bytes, b # Newline
  PROVE  Reads(write_byte(w, b), Append(s, b))
<1> PICK v : v = write_byte(w, b)
  OBVIOUS
<1> PICK k \in Nat : k = Len(s) /\ k < BUFFER_WIDTH
  OBVIOUS
<1>1. w.column = k /\ \A i \in 1 .. k : w.screen[w.row][i - 1] = s[i]
  BY DEF Reads
<1>2. ~Full(w)
  BY <1>1, TerminalConstants DEF Full
<1>3. v = [put_char(w, b) EXCEPT !.column = @ + 1]
  BY <1>2 DEF write_byte
<1>4. b \in Cells
  BY DEF Cells
<1>5. /\ v.row = w.row /\ v.column = k + 1
      /\ \A c \in Columns : v.screen[w.row][c] = IF c = k THEN b ELSE w.screen[w.row][c]
  BY <1>1, <1>2, <1>3, <1>4, PutChar
<1>6. /\ Len(Append(s, b)) = k + 1 /\ Append(s, b)[k + 1] = b
      /\ \A i \in 1 .. k : Append(s, b)[i] = s[i]
  OBVIOUS
<1>7. \A i \in 1 .. k + 1 : i - 1 \in Columns /\ (i - 1 = k <=> i = k + 1) /\ (i \in 1 .. k \/ i = k + 1)
  BY TerminalConstants DEF Columns
<1>8. ASSUME NEW i \in 1 .. k + 1 PROVE v.screen[w.row][i - 1] = Append(s, b)[i]
  <2>1. CASE i = k + 1
    BY ONLY <1>5, <1>6, <1>7, <2>1, ZenonT(30)
  <2>2. CASE i \in 1 .. k /\ i - 1 # k
    BY <1>1, <1>5, <1>6, <1>7, <2>2
  <2> QED
    BY ONLY <1>7, <2>1, <2>2, ZenonT(30)
<1> QED
  BY <1>5, <1>6, <1>8 DEF Reads

\* At column 0 the row reads nothing yet.
LEMMA ReadsNothing ==
  ASSUME NEW w, w.column = 0
  PROVE  Reads(w, << >>)
BY DEF Reads

\* The first m bytes of a sequence, and the next one.
LEMMA NextByte ==
  ASSUME NEW E, NEW s \in Seq(E), NEW m \in 1 .. Len(s)
  PROVE  /\ SubSeq(s, 1, m) = Append(SubSeq(s, 1, m - 1), s[m])
         /\ SubSeq(s, 1, m - 1) \in Seq(E) /\ Len(SubSeq(s, 1, m - 1)) = m - 1
OBVIOUS

\* A prompt printed at the start of a row can be read there.
LEMMA PromptIsRead ==
  ASSUME NEW w \in Good, w.column = 0
  PROVE  write_string(w, PROMPT) \in Good /\ Reads(write_string(w, PROMPT), PROMPT)
<1>0. /\ PROMPT \in Seq(Bytes) /\ Len(PROMPT) \in Nat /\ Len(PROMPT) <= BUFFER_WIDTH
      /\ \A n \in 1 .. Len(PROMPT) : /\ PROMPT[n] \in Bytes /\ PROMPT[n] # Newline
                                     /\ PROMPT[n] \notin Unprintable
  <2>1. PROMPT \in Seq(Bytes \ ({Newline} \cup Unprintable)) /\ LINE_CAPACITY \in Nat
        /\ Len(PROMPT) + LINE_CAPACITY <= BUFFER_WIDTH /\ BUFFER_WIDTH \in Nat
    BY TerminalConstants
  <2> QED
    BY ONLY <2>1, SMTT(30)
<1> PICK m \in Nat : m = Len(PROMPT)
  BY <1>0
<1>1. PICK f \in [0 .. m -> Good] : Through(f, w, PROMPT, m) /\ write_string(w, PROMPT) = f[m]
  BY <1>0, PrintedText
<1> DEFINE Wrong == {n \in 0 .. m : ~Reads(f[n], SubSeq(PROMPT, 1, n))}
<1>2. Wrong = {}
  <2> SUFFICES ASSUME Wrong # {} PROVE FALSE
    OBVIOUS
  <2>1. PICK n \in Wrong : \A y \in Wrong : ~(y < n)
    <3>1. Wrong \subseteq Nat
      OBVIOUS
    <3> HIDE DEF Wrong
    <3> QED
      BY <3>1, LeastOne, ZenonT(30)
  <2>2. n \in 0 .. m /\ ~Reads(f[n], SubSeq(PROMPT, 1, n))
    BY ZenonT(30)
  <2>3. n # 0
    <3>1. SubSeq(PROMPT, 1, 0) = << >>
      BY <1>0
    <3>2. f[0] = w
      BY <1>1 DEF Through
    <3> QED
      BY <2>2, <3>1, <3>2, ReadsNothing
  <2>4. n \in 1 .. m /\ n - 1 \in 0 .. m /\ n - 1 < n
    BY ONLY <2>2, <2>3, SMTT(30)
  <2>5. Reads(f[n - 1], SubSeq(PROMPT, 1, n - 1))
    BY <2>1, <2>4, ZenonT(30)
  <2> HIDE DEF Wrong
  <2> PICK s \in Seq(Bytes) :
        s = SubSeq(PROMPT, 1, n - 1) /\ Len(s) = n - 1 /\ SubSeq(PROMPT, 1, n) = Append(s, PROMPT[n])
    BY <1>0, <2>4, NextByte, ZenonT(30)
  <2>6. Len(s) < BUFFER_WIDTH
    BY <1>0, <2>4, TerminalConstants
  <2>7. representable(PROMPT[n]) = PROMPT[n] /\ PROMPT[n] \in Bytes /\ PROMPT[n] # Newline
    BY <1>0, <2>4, Representable
  <2>8. f[n] = write_byte(f[n - 1], PROMPT[n])
    BY <1>1, <2>4, <2>7, ZenonT(30) DEF Through
  <2>9. f[n - 1] \in Good
    BY <2>4
  <2>10. Reads(f[n], Append(s, PROMPT[n]))
    BY <2>5, <2>6, <2>7, <2>8, <2>9, Extends
  <2> QED
    BY <2>2, <2>10, ZenonT(30)
<1>3. Reads(f[m], SubSeq(PROMPT, 1, m))
  BY <1>2
<1>4. SubSeq(PROMPT, 1, m) = PROMPT
  BY <1>0
<1> QED
  BY <1>1, <1>3, <1>4

-----------------------------------------------------------------------------
\* The least and the greatest of some places are among them.
LEMMA FirstAndLast ==
  ASSUME NEW n \in Nat, NEW S \in SUBSET (1 .. n), S # {}
  PROVE  Min(S) \in S /\ Max(S) \in S
<1>0. S \subseteq Nat /\ \A x \in S : x \in Nat /\ x <= n /\ n - x \in Nat
  OBVIOUS
<1>1. Min(S) \in S
  <2>1. PICK x \in S : \A y \in S : ~(y < x)
    BY <1>0, LeastOne, ZenonT(30)
  <2>2. \A y \in S : x <= y
    BY <1>0, <2>1
  <2> QED
    BY <2>2, ZenonT(30) DEF Min
<1>2. Max(S) \in S
  <2> DEFINE T == {n - x : x \in S}
  <2>1. T \subseteq Nat /\ T # {}
    BY <1>0, ZenonT(30)
  <2>2. \A x \in S : n - x \in T
    OBVIOUS
  <2> HIDE DEF T
  <2>3. PICK t \in T : \A y \in T : ~(y < t)
    BY <2>1, LeastOne, ZenonT(30)
  <2>4. PICK x \in S : t = n - x
    BY DEF T
  <2>5. \A y \in S : x >= y
    BY <1>0, <2>2, <2>3, <2>4
  <2> QED
    BY <2>5, ZenonT(30) DEF Max
<1> QED
  BY <1>1, <1>2

\* Part of a line is made of its characters.
LEMMA PartOfLine ==
  ASSUME NEW E, NEW s \in Seq(E), NEW a \in Nat, NEW b \in Nat, 1 <= a, b <= Len(s)
  PROVE  SubSeq(s, a, b) \in Seq(E)
OBVIOUS

\* What is left of a line between its outer blanks.
LEMMA TrimIsPart ==
  ASSUME NEW s \in Seq(Bytes)
  PROVE  trim(s) \in Seq(Bytes)
<1> DEFINE visible == {i \in 1 .. Len(s) : s[i] # Blank}
<1>1. CASE visible = {}
  <2>1. trim(s) = << >>
    BY <1>1 DEF trim
  <2> QED
    BY <2>1
<1>2. CASE visible # {}
  <2>1. trim(s) = SubSeq(s, Min(visible), Max(visible))
    BY <1>2, ZenonT(30) DEF trim
  <2>2. visible \in SUBSET (1 .. Len(s)) /\ Len(s) \in Nat
    OBVIOUS
  <2> HIDE DEF visible
  <2>3. Min(visible) \in 1 .. Len(s) /\ Max(visible) \in 1 .. Len(s)
    BY <1>2, <2>2, FirstAndLast, ZenonT(30)
  <2> PICK a \in Nat, b \in Nat : a = Min(visible) /\ b = Max(visible) /\ 1 <= a /\ b <= Len(s)
    BY <2>2, <2>3
  <2>4. SubSeq(s, a, b) \in Seq(Bytes)
    BY PartOfLine
  <2> QED
    BY <2>1, <2>4
<1> QED
  BY <1>1, <1>2

\* The command and the rest are parts of the line.
LEMMA SplitIsPart ==
  ASSUME NEW s \in Seq(Bytes)
  PROVE  split_command(s).cmd \in Seq(Bytes) /\ split_command(s).rest \in Seq(Bytes)
<1> DEFINE blanks == {i \in 1 .. Len(s) : s[i] = Blank}
           end == IF blanks = {} THEN Len(s) + 1 ELSE Min(blanks)
<1>0. Len(s) \in Nat
  OBVIOUS
<1>1. end \in 1 .. Len(s) + 1
  <2>1. blanks \in SUBSET (1 .. Len(s))
    OBVIOUS
  <2> HIDE DEF blanks
  <2>2. blanks # {} => Min(blanks) \in 1 .. Len(s)
    BY <1>0, <2>1, FirstAndLast, ZenonT(30)
  <2> QED
    BY <1>0, <2>2
<1>2. split_command(s) = [cmd |-> SubSeq(s, 1, end - 1), rest |-> trim(SubSeq(s, end, Len(s)))]
  BY ZenonT(30) DEF split_command
<1> HIDE DEF end
<1>3. SubSeq(s, 1, end - 1) \in Seq(Bytes)
  <2>1. end - 1 \in Nat /\ end - 1 <= Len(s)
    BY <1>0, <1>1
  <2> QED
    BY <2>1, PartOfLine
<1>4. SubSeq(s, end, Len(s)) \in Seq(Bytes)
  <2>1. end \in Nat /\ 1 <= end
    BY <1>0, <1>1
  <2> QED
    BY <1>0, <2>1, PartOfLine
<1>5. trim(SubSeq(s, end, Len(s))) \in Seq(Bytes)
  BY <1>4, TrimIsPart, ZenonT(30)
<1> QED
  BY <1>2, <1>3, <1>5

\* A text and a newline.
LEMMA EndsLine ==
  ASSUME NEW s \in Seq(Bytes)
  PROVE  LET t == Append(s, Newline) IN t \in Seq(Bytes) /\ t # << >> /\ t[Len(t)] = Newline
<1>1. Newline \in Bytes
  BY TerminalConstants
<1> PICK e \in Bytes : e = Newline
  BY <1>1
<1>2. LET t == Append(s, e) IN t \in Seq(Bytes) /\ t # << >> /\ t[Len(t)] = e
  OBVIOUS
<1> QED
  BY <1>2

\* Whatever a line makes the shell print, the cursor is at column 0 after it.
LEMMA CommandEndsLine ==
  ASSUME NEW w \in Good, w.column = 0, NEW s \in Seq(Bytes), NEW v \in run_line(w, s)
  PROVE  v \in Good /\ v.column = 0
<1> PICK line \in Seq(Bytes) : line = trim(s)
  BY TrimIsPart
<1> PICK cmd \in Seq(Bytes), rest_ \in Seq(Bytes) :
      cmd = split_command(line).cmd /\ rest_ = split_command(line).rest
  BY SplitIsPart
<1>1. \/ v = w
      \/ v = clear_screen
      \/ v = write_string(w, Append(rest_, Newline))
      \/ \E t \in Texts : v = write_string(w, t)
      \/ v = write_string(w, Append(UNKNOWN \o cmd, Newline))
  BY DEF run_line
<1>2. CASE v = w
  BY <1>2
<1>3. CASE v = clear_screen
  BY <1>3, ClearIsGood
<1>4. CASE v = write_string(w, Append(rest_, Newline))
  BY <1>4, EndsLine, Prints, ZenonT(30)
<1>5. ASSUME NEW t \in Texts, v = write_string(w, t) PROVE v \in Good /\ v.column = 0
  BY <1>5, TerminalConstants, Prints, ZenonT(30)
<1>6. CASE v = write_string(w, Append(UNKNOWN \o cmd, Newline))
  <2>1. UNKNOWN \o cmd \in Seq(Bytes)
    BY TerminalConstants
  <2> QED
    BY <1>6, <2>1, EndsLine, Prints, ZenonT(30)
<1> QED
  BY <1>1, <1>2, <1>3, <1>4, <1>5, <1>6

-----------------------------------------------------------------------------
\* What a print leaves is what the variables hold.
LEMMA ShowsIs ==
  ASSUME NEW w \in Good, Shows(w)
  PROVE  Writer' = w
BY DEF Shows, Writer, Good, Terminals

\* The keys are bytes, and a line of them a text.
LEMMA LineIsText ==
  ASSUME NEW s \in Seq(Keys)
  PROVE  /\ s \in Seq(Bytes) /\ PROMPT \in Seq(Bytes) /\ PROMPT \o s \in Seq(Bytes)
         /\ Len(PROMPT \o s) = Len(PROMPT) + Len(s)
<1>1. Keys \subseteq Bytes /\ PROMPT \in Seq(Bytes)
  <2>1. PROMPT \in Seq(Bytes \ ({Newline} \cup Unprintable)) /\ Keys \subseteq Bytes
    BY TerminalConstants
  <2> QED
    BY ONLY <2>1, SMTT(30)
<1> QED
  BY <1>1

\* A character behind the second of two sequences.
LEMMA AppendBehind ==
  ASSUME NEW p \in Seq(Bytes), NEW q \in Seq(Bytes), NEW c \in Bytes
  PROVE  Append(p \o q, c) = p \o Append(q, c)
<1> DEFINE s == Append(p \o q, c)
           t == p \o Append(q, c)
<1>1. /\ s \in Seq(Bytes) /\ t \in Seq(Bytes)
      /\ Len(s) = Len(p) + Len(q) + 1 /\ Len(t) = Len(p) + Len(q) + 1
  OBVIOUS
<1>2. \A k \in 1 .. Len(p) + Len(q) + 1 : s[k] = t[k]
  OBVIOUS
<1> HIDE DEF s, t
<1>3. s = t
  BY <1>1, <1>2, SameSequence
<1> QED
  BY <1>3 DEF s, t

\* A sequence without its last element.
LEMMA OneLess ==
  ASSUME NEW E, NEW q \in Seq(E), q # << >>
  PROVE  LET s == SubSeq(q, 1, Len(q) - 1)
         IN  /\ s \in Seq(E) /\ Len(s) = Len(q) - 1 /\ Len(s) \in Nat
             /\ \A i \in 1 .. Len(s) : s[i] = q[i]
<1> PICK n \in Nat : Len(q) = n + 1
  OBVIOUS
<1>1. Len(q) - 1 = n /\ n <= Len(q)
  OBVIOUS
<1>2. SubSeq(q, 1, n) \in Seq(E) /\ Len(SubSeq(q, 1, n)) = n
  BY <1>1
<1>3. \A i \in 1 .. n : SubSeq(q, 1, n)[i] = q[i]
  BY <1>1
<1> QED
  BY <1>1, <1>2, <1>3

\* A key adds its character to the line and to the row, or does nothing.
LEMMA CharKeeps ==
  ASSUME TerminalInv, NEW c \in Keys, Char(c)
  PROVE  TerminalInv'
<1>1. Writer \in Good /\ line_buf \in Seq(Keys) /\ Len(line_buf) <= LINE_CAPACITY
  BY DEF TerminalInv
<1>2. disturbed' = disturbed /\ disturbed \in BOOLEAN
  BY DEF Char, TerminalInv
<1> PICK pushed \in BOOLEAN : pushed = (HasRoom /\ c \notin Unprintable)
  BY ZenonT(30)
<1>3. CASE ~pushed
  <2>1. Shows(Writer) /\ line_buf' = line_buf
    BY <1>3, ZenonT(30) DEF Char, echo
  <2>2. Writer' = Writer
    BY <1>1, <2>1, ShowsIs
  <2> QED
    BY <1>2, <2>1, <2>2 DEF TerminalInv
<1>4. CASE pushed
  <2>1. Shows(write_string(Writer, <<c>>)) /\ line_buf' = Append(line_buf, c)
    BY <1>4, ZenonT(30) DEF Char, echo
  <2>2. c \in Bytes /\ c # Newline /\ c \notin Unprintable /\ Len(line_buf) < LINE_CAPACITY
    BY <1>4, TerminalConstants, ZenonT(30) DEF HasRoom
  <2>3. write_string(Writer, <<c>>) = write_byte(Writer, c)
    BY <1>1, <2>2, OneByte
  <2>4. write_byte(Writer, c) \in Good
    BY <1>1, <2>2, WriteByte DEF Cells
  <2>5. Writer' = write_byte(Writer, c)
    BY <2>1, <2>3, <2>4, ShowsIs
  <2>6. Append(line_buf, c) \in Seq(Keys) /\ Len(Append(line_buf, c)) <= LINE_CAPACITY
    BY <1>1, <2>2, TerminalConstants
  <2>7. ASSUME ~disturbed PROVE Reads(write_byte(Writer, c), PROMPT \o Append(line_buf, c))
    <3>1. Reads(Writer, PROMPT \o line_buf)
      BY <2>7 DEF TerminalInv
    <3>2. /\ PROMPT \o line_buf \in Seq(Bytes)
          /\ Len(PROMPT \o line_buf) = Len(PROMPT) + Len(line_buf)
      BY <1>1, LineIsText
    <3>3. Len(PROMPT \o line_buf) < BUFFER_WIDTH
      BY <1>1, <2>2, <3>2, TerminalConstants
    <3>4. Reads(write_byte(Writer, c), Append(PROMPT \o line_buf, c))
      BY <1>1, <2>2, <3>1, <3>2, <3>3, Extends, ZenonT(30)
    <3>5. Append(PROMPT \o line_buf, c) = PROMPT \o Append(line_buf, c)
      <4>1. line_buf \in Seq(Bytes) /\ PROMPT \in Seq(Bytes)
        BY <1>1, LineIsText
      <4> QED
        BY <2>2, <4>1, AppendBehind, ZenonT(30)
    <3> QED
      BY <3>4, <3>5
  <2> QED
    BY <1>2, <2>1, <2>4, <2>5, <2>6, <2>7 DEF TerminalInv
<1> QED
  BY <1>3, <1>4

\* What the row reads when its last character is erased.
LEMMA EraseOne ==
  ASSUME NEW w \in Good, NEW k \in Nat, w.column = k + 1
  PROVE  /\ erase(w) \in Good /\ erase(w).row = w.row /\ erase(w).column = k
         /\ \A c \in 0 .. k - 1 : erase(w).screen[w.row][c] = w.screen[w.row][c]
<1>1. /\ w \in Terminals /\ w.screen \in [Rows -> [Columns -> Cells]] /\ w.row \in Rows
      /\ w.column \in 0 .. BUFFER_WIDTH
  BY DEF Good, Terminals
<1>0. k \in Columns /\ k = w.column - 1 /\ k \in 0 .. BUFFER_WIDTH
  BY <1>1, TerminalConstants DEF Columns
<1> DEFINE s == [w.screen EXCEPT ![w.row][k] = Blank]
           v == [w EXCEPT !.column = k, !.screen = s]
<1>2. erase(w) = v
  BY <1>0, <1>1, ZenonT(30) DEF erase, put_char, Terminals
<1>3. s \in [Rows -> [Columns -> Cells]]
  BY <1>0, <1>1, TerminalConstants DEF Cells
<1>4. /\ \A r \in Rows : r # w.row => s[r] = w.screen[r]
      /\ \A c \in Columns : s[w.row][c] = IF c = k THEN Blank ELSE w.screen[w.row][c]
  BY <1>0, <1>1
<1> HIDE DEF s
<1>5. v.row = w.row /\ v.column = k /\ v.screen = s
  BY <1>1 DEF Terminals
<1>6. v \in Terminals
  BY <1>0, <1>1, <1>3, ZenonT(30) DEF Terminals
<1>7. Clean(v)
  <2> SUFFICES ASSUME NEW r \in Rows, NEW c \in Columns, r > w.row \/ (r = w.row /\ c >= k)
               PROVE  s[r][c] = Blank
    BY <1>5 DEF Clean
  <2>1. r > w.row \/ (r = w.row /\ (c = k \/ c >= w.column))
    BY <1>0, <1>1 DEF Columns
  <2>2. CASE r = w.row /\ c = k
    BY <1>4, <2>2
  <2>3. CASE (r > w.row \/ (r = w.row /\ c >= w.column)) /\ ~(r = w.row /\ c = k)
    <3>1. w.screen[r][c] = Blank
      BY <2>3, ZenonT(30) DEF Good, Clean
    <3> QED
      BY <1>4, <2>3, <3>1
  <2> QED
    BY <2>1, <2>2, <2>3
<1> HIDE DEF v
<1>8. \A c \in 0 .. k - 1 : c \in Columns /\ c # k
  BY <1>0, <1>1, TerminalConstants DEF Columns
<1>9. \A c \in 0 .. k - 1 : v.screen[w.row][c] = w.screen[w.row][c]
  BY <1>4, <1>5, <1>8
<1> QED
  BY <1>2, <1>5, <1>6, <1>7, <1>9 DEF Good

\* A backspace takes the last character off both.
LEMMA BackspaceKeeps ==
  ASSUME TerminalInv, Backspace
  PROVE  TerminalInv'
<1>1. Writer \in Good /\ line_buf \in Seq(Keys) /\ Len(line_buf) <= LINE_CAPACITY
  BY DEF TerminalInv
<1>2. disturbed' = disturbed /\ disturbed \in BOOLEAN
  BY DEF Backspace, TerminalInv
<1>3. CASE line_buf = << >>
  BY <1>2, <1>3 DEF Backspace, TerminalInv, Writer
<1>4. CASE line_buf # << >>
  <2>1. line_buf' = SubSeq(line_buf, 1, Len(line_buf) - 1) /\ Shows(backspace(Writer))
    BY <1>4 DEF Backspace
  <2> PICK s \in Seq(Keys) :
        /\ s = SubSeq(line_buf, 1, Len(line_buf) - 1) /\ Len(s) = Len(line_buf) - 1
        /\ Len(s) \in Nat /\ \A i \in 1 .. Len(s) : s[i] = line_buf[i]
    BY <1>1, <1>4, OneLess, ZenonT(30)
  <2>5. Len(s) <= LINE_CAPACITY
    BY <1>1, TerminalConstants
  <2> PICK v : v = backspace(Writer)
    OBVIOUS
  <2>2. v \in Good
    <3>1. CASE Writer.column = 0
      BY <1>1, <3>1 DEF backspace
    <3>2. CASE Writer.column # 0
      <4> PICK n \in Nat : Writer.column = n + 1
        <5>1. Writer.column \in 0 .. BUFFER_WIDTH /\ BUFFER_WIDTH \in Nat
          BY <1>1, TerminalConstants DEF Good, Terminals
        <5>2. Writer.column - 1 \in Nat /\ Writer.column = (Writer.column - 1) + 1
          BY <3>2, <5>1
        <5> QED
          BY <5>2
      <4> QED
        BY <1>1, <3>2, EraseOne, ZenonT(30) DEF backspace
    <3> QED
      BY <3>1, <3>2
  <2>3. Writer' = v
    BY <2>1, <2>2, ShowsIs
  <2>4. ASSUME ~disturbed PROVE Reads(v, PROMPT \o s)
    <3> PICK p \in Nat, k \in Nat : p = Len(PROMPT) /\ k = Len(s)
      BY TerminalConstants
    <3>1. Reads(Writer, PROMPT \o line_buf)
      BY <2>4 DEF TerminalInv
    <3>2. Len(PROMPT \o line_buf) = p + (k + 1) /\ Len(PROMPT \o s) = p + k
      BY <1>1, LineIsText
    <3>3. \A i \in 1 .. p + k : (PROMPT \o s)[i] = (PROMPT \o line_buf)[i]
      BY <1>1, TerminalConstants
    <3>4. Writer.column = p + (k + 1) /\ Writer.column # 0
      BY <3>1, <3>2 DEF Reads
    <3>5. v = erase(Writer)
      BY <3>4 DEF backspace
    <3>6. /\ v.row = Writer.row /\ v.column = p + k
          /\ \A c \in 0 .. p + k - 1 : v.screen[Writer.row][c] = Writer.screen[Writer.row][c]
      <4> PICK n \in Nat : n = p + k
        BY ONLY TRUE, SMTT(30)
      <4>1. Writer.column = n + 1
        BY <3>4
      <4> QED
        BY <1>1, <3>5, <4>1, EraseOne
    <3>7. ASSUME NEW i \in 1 .. p + k PROVE v.screen[Writer.row][i - 1] = (PROMPT \o s)[i]
      <4>1. i \in 1 .. p + (k + 1) /\ i - 1 \in 0 .. p + k - 1
        BY ONLY TRUE, SMTT(30)
      <4>2. Writer.screen[Writer.row][i - 1] = (PROMPT \o line_buf)[i]
        BY <3>1, <3>4, <4>1, ZenonT(30) DEF Reads
      <4>3. v.screen[Writer.row][i - 1] = Writer.screen[Writer.row][i - 1]
        BY <3>6, <4>1, ZenonT(30)
      <4> QED
        BY <3>3, <4>2, <4>3
    <3> QED
      BY <3>2, <3>6, <3>7 DEF Reads
  <2> QED
    BY <1>2, <2>1, <2>2, <2>3, <2>4, <2>5, ZenonT(30) DEF TerminalInv
<1> QED
  BY <1>3, <1>4


\* Enter prints what the line asks for, and a prompt at the start of a row.
LEMMA EnterKeeps ==
  ASSUME TerminalInv, Enter
  PROVE  TerminalInv'
<1>1. Writer \in Good /\ line_buf \in Seq(Bytes)
  BY LineIsText DEF TerminalInv
<1>2. PICK w \in run_line(write_byte(Writer, Newline), line_buf) : Shows(write_string(w, PROMPT))
  BY DEF Enter
<1>3. Newline \in Cells
  BY TerminalConstants DEF Cells
<1>4. write_byte(Writer, Newline) \in Good /\ write_byte(Writer, Newline).column = 0
  BY <1>1, <1>3, WriteByte
<1>5. w \in Good /\ w.column = 0
  BY <1>1, <1>4, CommandEndsLine
<1>6. write_string(w, PROMPT) \in Good /\ Reads(write_string(w, PROMPT), PROMPT)
  BY <1>5, PromptIsRead
<1>7. Writer' = write_string(w, PROMPT)
  BY <1>2, <1>6, ShowsIs
<1>8. line_buf' = << >> /\ disturbed' = FALSE
  BY DEF Enter
<1>9. /\ << >> \in Seq(Keys) /\ Len(<< >>) <= LINE_CAPACITY /\ PROMPT \o << >> = PROMPT
  BY TerminalConstants
<1> QED
  BY <1>6, <1>7, <1>8, <1>9, ZenonT(30) DEF TerminalInv

\* Another task's line leaves nothing behind the cursor.
LEMMA DemoKeeps ==
  ASSUME TerminalInv, demo_prints
  PROVE  TerminalInv'
<1>1. Writer \in Good /\ line_buf' = line_buf /\ disturbed' = TRUE
  BY DEF TerminalInv, demo_prints
<1>2. write_string(Writer, Line) \in Good
  BY <1>1, Prints, TerminalConstants
<1>3. Writer' = write_string(Writer, Line)
  BY <1>2, ShowsIs DEF demo_prints
<1> QED
  BY <1>1, <1>2, <1>3 DEF TerminalInv

\* The prompt of shell::init, under what the boot has printed.
LEMMA TerminalStart == TerminalInit => TerminalInv
<1> SUFFICES ASSUME TerminalInit PROVE TerminalInv
  OBVIOUS
<1>1. PICK banner \in Texts \cup {<< >>} :
        LET w == write_string(write_string(clear_screen, banner), PROMPT)
        IN  screen = w.screen /\ row = w.row /\ column = w.column
  BY DEF TerminalInit
<1> PICK b : b = write_string(clear_screen, banner)
  OBVIOUS
<1>2. banner = << >> \/ (banner \in Seq(Bytes) /\ banner # << >> /\ banner[Len(banner)] = Newline)
  BY TerminalConstants
<1>3. b \in Good /\ b.column = 0
  <2>1. << >> \in Seq(Bytes)
    OBVIOUS
  <2> QED
    BY <1>2, <2>1, ClearIsGood, Prints, ZenonT(30)
<1>4. write_string(b, PROMPT) \in Good /\ Reads(write_string(b, PROMPT), PROMPT)
  BY <1>3, PromptIsRead
<1>5. Writer = write_string(b, PROMPT)
  BY <1>1, <1>4 DEF Writer, Good, Terminals
<1>6. line_buf = << >> /\ disturbed = FALSE
  BY DEF TerminalInit
<1>7. /\ << >> \in Seq(Keys) /\ Len(<< >>) <= LINE_CAPACITY /\ PROMPT \o << >> = PROMPT
  BY TerminalConstants
<1> QED
  BY <1>4, <1>5, <1>6, <1>7, ZenonT(30) DEF TerminalInv

\* What the invariant says of the screen.
LEMMA TerminalSays == TerminalInv => EditIsShown
<1> SUFFICES ASSUME TerminalInv PROVE EditIsShown
  OBVIOUS
<1>1. Writer.screen = screen /\ Writer.row = row /\ Writer.column = column
  BY DEF Writer
<1>2. AfterCursorIsBlank
  BY <1>1 DEF TerminalInv, Good, Clean, AfterCursorIsBlank
<1>3. ~disturbed => EditShown
  BY <1>1 DEF TerminalInv, Reads, EditShown
<1> QED
  BY <1>2, <1>3 DEF EditIsShown

(***************************************************************************)
(* The screen under the shell is right for a screen of any size, any       *)
(* prompt and line that fit its width, and any texts that end their lines: *)
(* nothing stale is ever on it after the cursor, and until another task    *)
(* prints, the row of the cursor reads the prompt and the line buffer,     *)
(* whatever was typed, wrapped, scrolled, erased or cleared before.  The   *)
(* invariant types the writer, and the loop of write_string is followed    *)
(* byte by byte, by induction on the length of the text.                   *)
(***************************************************************************)
THEOREM TheLineIsOnTheScreen == TerminalSpec => []EditIsShown
<1>1. TerminalInit => TerminalInv
  BY TerminalStart
<1>2. TerminalInv /\ [TerminalNext]_terminal_vars => TerminalInv'
  <2> SUFFICES ASSUME TerminalInv, [TerminalNext]_terminal_vars PROVE TerminalInv'
    OBVIOUS
  <2>1. CASE \E c \in Keys : Char(c)
    BY <2>1, CharKeeps
  <2>2. CASE Backspace
    BY <2>2, BackspaceKeeps
  <2>3. CASE Enter
    BY <2>3, EnterKeeps
  <2>4. CASE demo_prints
    BY <2>4, DemoKeeps
  <2>5. CASE UNCHANGED terminal_vars
    <3>1. Writer' = Writer /\ line_buf' = line_buf /\ disturbed' = disturbed
      BY <2>5 DEF terminal_vars, Writer
    <3> QED
      BY <3>1 DEF TerminalInv
  <2> QED
    BY <2>1, <2>2, <2>3, <2>4, <2>5 DEF TerminalNext, rest
<1>3. TerminalInv => EditIsShown
  BY TerminalSays
<1> QED
  BY <1>1, <1>2, <1>3, PTL DEF TerminalSpec
=============================================================================
