---------------------------- MODULE MCInterrupts ----------------------------
(* A log of four slots, a message of two characters, halves of three cycles.  *)
EXTENDS Interrupts
=============================================================================
