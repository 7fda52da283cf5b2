------------------------------ MODULE MCVideo ------------------------------
(* Two lines of three columns.                                               *)
EXTENDS Video
=============================================================================
