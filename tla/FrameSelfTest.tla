--------------------------- MODULE FrameSelfTest ----------------------------
(***************************************************************************)
(* self_test of memory/frame.rs as one more caller of the allocator.  The  *)
(* kernel runs it at boot, on a fresh pool; it is a public function that   *)
(* reads the state it starts from, so here it may start after any history  *)
(* of allocations, frees and writes.  No other caller runs while it does.  *)
(***************************************************************************)
EXTENDS FrameAllocator

CONSTANT SELF_TEST_FRAMES

ASSUME SelfTestAssumption == SELF_TEST_FRAMES \in Nat /\ SELF_TEST_FRAMES >= 3

VARIABLES
  step,           \* of self_test; "idle" when it is not running
  test,           \* the SelfTest it fills in
  in_use_before,
  before          \* history: the frames owned, and how many were to be had, when it began

test_vars == <<step, test, in_use_before, before>>

new == [frames |-> << >>, freed |-> << >>, reused |-> NO_FRAME, failure |-> "none"]

\* The first reason given is kept.
fail(t, reason) == IF t.failure = "none" THEN [t EXCEPT !.failure = reason] ELSE t

\* Frames that allocate could still hand out, one after the other.
Available == free_count + Cardinality({f \in Pool : ~handed_out(f)})

TestInit ==
  /\ Init
  /\ step = "idle" /\ test = new /\ in_use_before = 0
  /\ before = [owned |-> {}, available |-> 0]

\* allocate() with its result.
allocate(frame) ==
  IF frame \in Frames THEN Allocate /\ owners'[frame] = owners[frame] + 1
                      ELSE free_list = NO_FRAME /\ Exhaust(1)
\* free() with its result.
free(frame, result) ==
  /\ FreeError(frame) = result
  /\ IF result = "Ok" THEN Free(frame) ELSE UNCHANGED vars

Results == {"Ok", "NotManaged", "NeverAllocated", "AlreadyFree"}
-----------------------------------------------------------------------------
begin ==
  /\ step = "idle" /\ step' = "take"
  /\ test' = new /\ in_use_before' = in_use
  /\ before' = [owned |-> Owned, available |-> Available]
  /\ UNCHANGED vars

\* With no frame left the test returns, and keeps the ones it has.
take ==
  /\ step = "take"
  /\ \E frame \in Word :
       /\ allocate(frame)
       /\ test' = IF frame = NO_FRAME THEN fail(test, "ran_out")
                                      ELSE [test EXCEPT !.frames = Append(@, frame)]
       /\ step' = IF frame = NO_FRAME THEN "done"
                  ELSE IF Len(test'.frames) = SELF_TEST_FRAMES THEN "check" ELSE "take"
  /\ UNCHANGED <<in_use_before, before>>

Outside(f) == \A r \in 1 .. Len(regions) : ~InRegion(f, r)
Repeated(s) == \E i, j \in 1 .. Len(s) : i < j /\ s[i] = s[j]

\* One step for the loop: the first reason in program order is not told apart.
check ==
  /\ step = "check" /\ step' = "give"
  /\ test' = IF \/ Repeated(test.frames)
                \/ \E i \in 1 .. Len(test.frames) : Outside(test.frames[i]) \/ is_reserved(test.frames[i])
             THEN fail(test, "bad_frame") ELSE test
  /\ UNCHANGED <<vars, in_use_before, before>>

\* The last two, newest first.
give ==
  /\ step = "give"
  /\ LET frame == test.frames[Len(test.frames) - Len(test.freed)] IN
       \E result \in Results :
         /\ free(frame, result)
         /\ test' = IF result = "Ok" THEN [test EXCEPT !.freed = Append(@, frame)]
                                     ELSE fail(test, "refused")
         /\ step' = IF result # "Ok" THEN "done" ELSE IF Len(test'.freed) = 2 THEN "reuse" ELSE "give"
  /\ UNCHANGED <<in_use_before, before>>

last_freed == test.freed[Len(test.freed)]
still_free == test.freed[1]

reuse ==
  /\ step = "reuse" /\ step' = "refree"
  /\ \E frame \in Word :
       /\ allocate(frame)
       /\ test' = IF frame = NO_FRAME THEN fail(test, "nothing_left")
                  ELSE IF frame = last_freed THEN [test EXCEPT !.reused = frame]
                  ELSE fail([test EXCEPT !.reused = frame], "not_lifo")
  /\ UNCHANGED <<in_use_before, before>>

refree ==
  /\ step = "refree" /\ step' = "return"
  /\ \E result \in Results :
       /\ free(still_free, result)
       /\ test' = IF result = "AlreadyFree" THEN test ELSE fail(test, "double_free")
  /\ UNCHANGED <<in_use_before, before>>

\* The loop over `frames`: the ones it has dealt with are dropped.  At the end
\* the count must be where it was.
return ==
  /\ step = "return"
  /\ test.frames # << >>
  /\ IF Head(test.frames) = still_free
     THEN test' = [test EXCEPT !.frames = Tail(@)] /\ UNCHANGED vars
     ELSE \E result \in Results :
            /\ free(Head(test.frames), result)
            /\ test' = [(IF result = "Ok" THEN test ELSE fail(test, "refused")) EXCEPT !.frames = Tail(@)]
  /\ UNCHANGED <<step, in_use_before, before>>

recount ==
  /\ step = "return" /\ test.frames = << >> /\ step' = "done"
  /\ test' = IF in_use = in_use_before THEN test ELSE fail(test, "went_missing")
  /\ UNCHANGED <<vars, in_use_before, before>>

\* The caller has the SelfTest, and others use the allocator again.
returned ==
  /\ step = "done" /\ step' = "idle"
  /\ test' = new /\ in_use_before' = 0 /\ before' = [owned |-> {}, available |-> 0]
  /\ UNCHANGED vars

self_test == begin \/ take \/ check \/ give \/ reuse \/ refree \/ return \/ recount \/ returned

TestNext == (step = "idle" /\ Next /\ UNCHANGED test_vars) \/ self_test

TestSpec == TestInit /\ [][TestNext]_<<vars, test_vars>>
-----------------------------------------------------------------------------
(***************************************************************************)
(* The verdict of self_test is true of the allocator, from whatever state  *)
(* it starts in: it fails only when there are fewer than SELF_TEST_FRAMES  *)
(* frames to be had, and when it succeeds ("and returns everything") every *)
(* frame is owned, or not, as it was before.                               *)
(***************************************************************************)
SelfTestIsTrue ==
  step = "done" =>
    IF before.available >= SELF_TEST_FRAMES
    THEN test.failure = "none" /\ Owned = before.owned
    ELSE test.failure = "ran_out"
=============================================================================
