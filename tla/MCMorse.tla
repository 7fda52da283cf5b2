------------------------------ MODULE MCMorse -------------------------------
(* The characters: E, r, a space, carriage return and NUL.                   *)
EXTENDS Morse
=============================================================================
