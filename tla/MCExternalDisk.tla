--------------------------- MODULE MCExternalDisk ---------------------------
(* Two tracks of two sectors of two bytes.                                   *)
EXTENDS ExternalDisk
=============================================================================
