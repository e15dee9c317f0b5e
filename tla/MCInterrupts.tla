---------------------------- MODULE MCInterrupts ----------------------------
(***************************************************************************)
(* The timer and the keyboard brought up as kernel_main does, then three   *)
(* lines unmasked with no driver: the lowest-priority line of each         *)
(* controller, where spurious interrupts arrive, and one more slave line.  *)
(***************************************************************************)
EXTENDS Interrupts

MCDrivers == <<0, 1>>
MCStrays == <<7, 14, 15>>
=============================================================================
