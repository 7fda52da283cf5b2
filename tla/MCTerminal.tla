----------------------------- MODULE MCTerminal -----------------------------
(* A buffer of three characters and a script of two lines.                   *)
EXTENDS Terminal

MCKeys == {"d", "[", "3", "~", ESC, cli_escape, CR, BS}
MCScript == << <<"h", "i">>, <<"x">> >>
=============================================================================
