------------------------------ MODULE MCStdio ------------------------------
(* A stream of four slots and three characters.                              *)
EXTENDS Stdio

CONSTANTS a, nl, cr

MCChars == {a, nl, cr}
=============================================================================
