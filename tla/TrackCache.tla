----------------------------- MODULE TrackCache -----------------------------
(***************************************************************************)
(* What the head of the drive may rely on in the cache line of the         *)
(* external disk: sectors become valid one by one, each after it was asked *)
(* for, and the line stays with its track while the host is asked.         *)
(***************************************************************************)
EXTENDS Naturals

CONSTANTS Tracks, Sectors, NoTrack, None

VARIABLES
  track, valid,  \* the line: its track, and the sectors it holds
  asked          \* the sector the host is asked for, or None

vars == <<track, valid, asked>>

Init == track = NoTrack /\ valid = {} /\ asked = None

\* Another track takes the line, or the same track after its disk was changed.
Turn(t) ==
  /\ asked = None
  /\ track' = t /\ valid' = {}
  /\ asked' \in {None} \cup [track : {t}, sector : Sectors]

Ask ==
  /\ asked = None
  /\ asked' \in [track : {track}, sector : Sectors \ valid]
  /\ UNCHANGED <<track, valid>>

Arrive ==
  /\ asked # None
  /\ valid' = valid \cup {asked.sector}
  /\ UNCHANGED <<track, asked>>

End == asked' = None /\ UNCHANGED <<track, valid>>

Flush == asked = None /\ valid' = {} /\ UNCHANGED <<track, asked>>

Next == (\E t \in Tracks : Turn(t)) \/ Ask \/ Arrive \/ End \/ Flush

Spec == Init /\ [][Next]_vars
=============================================================================
