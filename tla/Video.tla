------------------------------- MODULE Video -------------------------------
(***************************************************************************)
(* The screen of the Apple on a terminal: what the 6502 writes into its    *)
(* text page goes through a FIFO that hides scrolling (hw/rtl/apple2.py)   *)
(* to video_task (sw/src/main.c), which moves the cursor of the terminal   *)
(* by the shortest way to where the next character belongs.                *)
(*                                                                         *)
(* Modelled is output to a terminal of as many lines as the Apple's screen *)
(* and more columns.  The repeat circuit of the hardware is left out, as   *)
(* it is there.                                                            *)
(***************************************************************************)
EXTENDS Integers, Sequences

CONSTANTS
  Rows, Cols,      \* 24 and 40 in the source
  Near,            \* 5 in the source: backspaces rather than a position
  scroll_mode,     \* "enhanced", or "standard"
  Letter,          \* a letter; the same one flashing is Flash
  Flash, Space,
  HostReads,       \* stdout has room for whatever video_task writes
  RoomForTwo,      \* the FIFO has room for two entries when a scroll ends
  Depth, MaxWrites \* bounds: entries of the FIFO, writes of the 6502

ASSUME VideoAssumption ==
  /\ Rows \in Nat \ {0, 1} /\ Cols \in Nat \ {0} /\ Near \in Nat
  /\ Depth \in Nat /\ MaxWrites \in Nat
  /\ Letter # Flash /\ Space \notin {Letter, Flash}
  /\ HostReads \in BOOLEAN /\ RoomForTwo \in BOOLEAN

VARIABLES
  screen,          \* the text page
  clearing,        \* column to be cleared after a scroll; Cols: no scroll
  scroll_active,   \* of the hardware
  written,         \* number of writes, and the place of the last one
  last,
  fifo, vid,       \* entries not read, and the one in video_task; or none
  at,              \* whether video_task is in its loop, or broke out of it
  prev_h, prev_v, cursor_h, cursor_v, space_supress,
  scroll_start, scroll_top, scroll_bottom,
  shown, line, col \* the terminal: its characters and its cursor

apple == <<screen, clearing, scroll_active, written, last>>
terminal == <<shown, line, col>>
region == <<scroll_start, scroll_top, scroll_bottom>>
cursor == <<prev_h, prev_v, cursor_h, cursor_v, space_supress>>
vars == <<apple, fifo, vid, at, cursor, region, terminal>>

Bottom == Rows - 1
Place == (0..Bottom) \X (0..Cols - 1)
Hole == <<Bottom, Cols>>   \* location $07F8, behind the screen
none == <<>>

Code == {Letter, Flash, Space}

\* As after a redraw of an empty screen.
Init ==
  /\ screen = [p \in Place |-> Space] /\ shown = screen
  /\ clearing = Cols /\ scroll_active = FALSE
  /\ written = 0 /\ last = <<0, 0>>
  /\ fifo = <<>> /\ vid = none /\ at = "out"
  /\ prev_h = 0 /\ prev_v = 0 /\ cursor_h = 0 /\ cursor_v = 0 /\ space_supress = 0
  /\ scroll_start = 0 /\ scroll_top = 0 /\ scroll_bottom = 0
  /\ line = 0 /\ col = 1

----------------------------------------------------------------------------
(* The 6502 and the hardware *)

Entry(char, place, flag) == [char |-> char, v |-> place[1], h |-> place[2], flag |-> flag]

\* A write ends a scroll; the last write of the scroll comes before it.  The
\* write itself follows a cycle later, and is dropped when the FIFO is full.
Push(char, place) ==
  IF ~scroll_active THEN Append(fifo, Entry(char, place, "none"))
  ELSE IF Len(fifo) + 1 = Depth THEN Append(fifo, Entry(screen[last], last, "end"))
  ELSE fifo \o <<Entry(screen[last], last, "end"), Entry(char, place, "none")>>

\* The 6502 stands still when the FIFO is full.  A scroll takes it 20 ms without
\* an entry; with RoomForTwo, video_task reads two entries or more in that time.
Write(char, place) ==
  /\ Len(fifo) < Depth
  /\ RoomForTwo /\ scroll_active => Len(fifo) + 1 < Depth
  /\ fifo' = Push(char, place) /\ scroll_active' = FALSE
  /\ screen' = [p \in Place |-> IF p = place THEN char ELSE screen[p]]
  /\ last' = place
  /\ UNCHANGED <<vid, at, cursor, region, terminal>>

write ==
  /\ clearing = Cols /\ written < MaxWrites
  /\ \E char \in Code, place \in Place \cup {Hole} : Write(char, place)
  /\ written' = written + 1
  /\ UNCHANGED clearing

\* The monitor's scroll from the bottom line: every line is read and written
\* to the one above, from the top and from right to left.
scroll ==
  /\ clearing = Cols /\ written < MaxWrites /\ last[1] = Bottom /\ last # Hole
  /\ Len(fifo) < Depth
  /\ written' = written + 1
  /\ screen' = [p \in Place |-> IF p[1] = Bottom THEN screen[p] ELSE screen[<<p[1] + 1, p[2]>>]]
  /\ fifo' = Append(fifo, Entry(screen[<<1, Cols - 1>>], <<0, Cols - 1>>, "start"))
  /\ scroll_active' = TRUE /\ last' = <<Bottom - 1, 0>> /\ clearing' = 0
  /\ UNCHANGED <<vid, at, cursor, region, terminal>>

\* Then it clears the bottom line.
clear ==
  /\ clearing < Cols
  /\ Write(Space, <<Bottom, clearing>>)
  /\ clearing' = clearing + 1
  /\ UNCHANGED written

----------------------------------------------------------------------------
(* The terminal *)

Scrolled ==
  [p \in Place |-> IF p[1] = Bottom THEN Space ELSE shown[<<p[1] + 1, p[2]>>]]

newline ==
  /\ col' = 0
  /\ IF line = Bottom THEN line' = line /\ shown' = Scrolled
     ELSE line' = line + 1 /\ UNCHANGED shown

backspace ==
  /\ col' = (IF col > 0 THEN col - 1 ELSE 0)
  /\ UNCHANGED <<shown, line>>

\* The cursor goes to a place, and a character is put there.
PutAt(c, v, h) ==
  /\ shown' = [p \in Place |-> IF p = <<v, h>> THEN c ELSE shown[p]]
  /\ line' = v /\ col' = h + 1

\* One character, which finds no room when the host does not read: canputc counts
\* the characters that wait as room.
Received(character) ==
  IF HostReads THEN character ELSE character \/ UNCHANGED terminal

\* Without the characters that find no room, an escape sequence is another one, or
\* text.  What the terminal makes of it is not followed.
Garbled ==
  /\ shown' \in [Place -> {Letter, Space}]
  /\ line' \in 0..Bottom /\ col' \in 0..Cols

----------------------------------------------------------------------------
(* video_task *)

ascii(char) == IF char = Flash THEN Letter ELSE char

\* The next entry, if there is one.
Read == vid' = (IF fifo = <<>> THEN none ELSE Head(fifo)) /\ fifo' = (IF fifo = <<>> THEN fifo ELSE Tail(fifo))

\* A flashing character is taken for the cursor.
a2toascii ==
  IF vid.char = Flash THEN cursor_h' = vid.h /\ cursor_v' = vid.v
  ELSE IF cursor_h = vid.h /\ cursor_v = vid.v THEN cursor_h' = -1 /\ cursor_v' = -1
  ELSE UNCHANGED <<cursor_h, cursor_v>>

video_task ==
  /\ at = "out" /\ at' = "loop"
  /\ IF vid = none THEN Read ELSE UNCHANGED <<vid, fifo>>
  /\ UNCHANGED <<apple, cursor, region, terminal>>

OffScreen == vid.h >= Cols \/ vid.v >= Rows

InLoop == at = "loop" /\ vid # none

off_screen ==
  /\ InLoop /\ OffScreen
  /\ a2toascii /\ Read
  /\ UNCHANGED <<apple, at, prev_h, prev_v, space_supress, region, terminal>>

scroll_begins ==
  /\ InLoop /\ ~OffScreen /\ vid.flag = "start"
  /\ a2toascii /\ Read
  /\ scroll_start' = vid.v + 1
  /\ UNCHANGED <<apple, at, prev_h, prev_v, space_supress, scroll_top, scroll_bottom, terminal>>

\* Mutant: the column is not set back.
AfterNewline_Stays == prev_h

AfterNewline == -1

\* In the enhanced mode, a newline scrolls the terminal.
enhanced_scroll ==
  /\ Received(newline) /\ prev_h' = AfterNewline
  /\ UNCHANGED <<scroll_top, scroll_bottom>>

\* In the other one, the terminal scrolls the lines between two margins.  When
\* these are set, its cursor goes to the first line.
standard_scroll ==
  /\ IF scroll_start # scroll_top \/ vid.v # scroll_bottom
       THEN /\ scroll_top' = scroll_start /\ scroll_bottom' = vid.v
            /\ IF HostReads THEN shown' = Scrolled /\ line' = 0 /\ col' = 0 ELSE Garbled
       ELSE /\ UNCHANGED <<scroll_top, scroll_bottom>>
            /\ IF HostReads THEN shown' = Scrolled /\ UNCHANGED <<line, col>> ELSE Garbled
  /\ UNCHANGED prev_h

\* The spaces that clear the bottom line are left out.
scroll_ends ==
  /\ InLoop /\ ~OffScreen /\ vid.flag = "end"
  /\ a2toascii /\ Read
  /\ IF scroll_mode = "enhanced" THEN enhanced_scroll ELSE standard_scroll
  /\ scroll_start' = 0 /\ space_supress' = Cols
  /\ UNCHANGED <<apple, at, prev_v>>

supress ==
  /\ InLoop /\ ~OffScreen /\ vid.flag = "none"
  /\ ascii(vid.char) = Space /\ space_supress > 0
  /\ space_supress' = space_supress - 1
  /\ a2toascii /\ Read
  /\ UNCHANGED <<apple, at, prev_h, prev_v, region, terminal>>

\* Mutant: one backspace less.
Backspaces_Less(h) == prev_h - h

Backspaces(h) == prev_h - h + 1

\* Where the cursor of the terminal gets to for a character at v, h.
Moved(v, h) ==
  IF v = prev_v
    THEN IF h = prev_h + 1 THEN <<line, col>>
         ELSE IF h = 0 THEN <<line, 0>>
         ELSE IF h <= prev_h /\ prev_h - h < Near
           THEN <<line, IF col > Backspaces(h) THEN col - Backspaces(h) ELSE 0>>
         ELSE <<line, h>>
    ELSE IF h = 0 /\ v = prev_v + 1
      THEN <<IF line = Bottom THEN line ELSE line + 1, 0>>
    ELSE <<v, h>>

\* The character is out; or it found no room, so that the entry is kept for the
\* next time and the loop is left, with a word to the user.
Printed ==
  /\ prev_h' = vid.h /\ prev_v' = vid.v
  /\ Read /\ UNCHANGED at

Overflown ==
  /\ at' = "broke"
  /\ UNCHANGED <<prev_h, prev_v, vid, fifo>>

print ==
  /\ InLoop /\ ~OffScreen /\ vid.flag = "none"
  /\ ~(ascii(vid.char) = Space /\ space_supress > 0)
  /\ a2toascii
  /\ IF HostReads
       THEN /\ LET place == Moved(vid.v, vid.h)
               IN  PutAt(ascii(vid.char), place[1], place[2])
            /\ Printed
       ELSE Garbled /\ (Printed \/ Overflown)
  /\ UNCHANGED <<apple, space_supress, region>>

\* Mutant: the cursor is left behind the character.
BackOnCursor_Never == FALSE

BackOnCursor == cursor_h = prev_h /\ cursor_v = prev_v

\* The loop ends when nothing is left, or when stdout seems full.
leave ==
  /\ at # "out" /\ at' = "out"
  /\ IF BackOnCursor
       THEN prev_h' = prev_h - 1 /\ Received(backspace)
       ELSE UNCHANGED <<prev_h, terminal>>
  /\ UNCHANGED <<apple, fifo, vid, prev_v, cursor_h, cursor_v, space_supress, region>>

Next ==
  \/ write \/ scroll \/ clear
  \/ video_task \/ off_screen \/ scroll_begins \/ scroll_ends \/ supress \/ print \/ leave

Spec == Init /\ [][Next]_vars

----------------------------------------------------------------------------
(* Properties *)

AllDone == at = "out" /\ vid = none /\ fifo = <<>> /\ clearing = Cols

\* When everything has been taken from the FIFO, the terminal shows the text
\* page, whatever was written where, and however often it scrolled; provided that
\* the host reads, and that the FIFO has room for both entries that end a scroll.
ScreenShown == AllDone => \A p \in Place : shown[p] = ascii(screen[p])

\* The firmware knows where the cursor of the terminal stands, by whatever way it
\* moved it there; provided the same.
CursorTracked == line = prev_v /\ col = prev_h + 1

\* When everything has been shown, and a flashing character was written last,
\* the cursor of the terminal stands on it; provided the same.
CursorShown ==
  AllDone /\ last \in Place /\ screen[last] = Flash => <<line, col>> = last
=============================================================================
