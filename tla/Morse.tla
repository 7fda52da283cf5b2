------------------------------- MODULE Morse --------------------------------
(***************************************************************************)
(* The Morse transmitter: what is written to stdout while no terminal is   *)
(* connected blinks on the LED (sw/src/morse.c).                           *)
(*                                                                         *)
(* morse_task runs for ever and does nothing until its timer has expired;  *)
(* a step here is a run that finds it expired, and the time it sets is     *)
(* what passes until the next step.  Time is counted in dits.  A pattern   *)
(* is the set of its bits: the highest is the start bit, the others are    *)
(* dits (0) and dahs (1).                                                  *)
(*                                                                         *)
(* Beside the transmitter stands a listener, who sees only the light: a    *)
(* pause of three dits ends a letter, one of seven a word.                 *)
(***************************************************************************)
EXTENDS Integers, Sequences

CONSTANTS
  Char,        \* character codes that the programs print
  MaxText      \* bound: characters printed in a behaviour

ASSUME MorseAssumption == Char \subseteq 0..127 /\ MaxText \in Nat

VARIABLES
  stdout, led,            \* the stream, and whether its device is the LED
  morse_state, current_pattern, current_bit, morse_on,
  printed,                \* number of characters printed
  dark, pulses,           \* the listener: dits of darkness since the last
                          \* pulse, and the pulses since the last longer pause
  meant, owed, paused, gap  \* history, see below

transmitter == <<morse_state, current_pattern, current_bit, morse_on>>
history == <<dark, pulses, meant, owed, paused, gap>>
vars == <<stdout, led, printed, transmitter, history>>

SYMBOL_SPACE == 1
LETTER_SPACE == 3
WORD_SPACE == 7
Longest == WORD_SPACE + 1    \* bound: the listener counts no further

Bit == 0..7
Bits(n) == {i \in Bit : (n \div 2^i) % 2 = 1}

MORSE_START == {0, 2, 4, 5}  \* 0x35
MORSE_END == {0, 2, 6}       \* 0x45
MORSE_SPACE == {0}           \* 0x01

\* The patterns of the characters from the space on, in the order of ASCII.
morse_hw ==
  <<1, 107, 82, 59, 38, 44, 40, 94, 54, 109, 45, 42, 115, 97, 85, 50,
    63, 47, 39, 35, 33, 32, 48, 56, 60, 62, 120, 106, 41, 49, 58, 76,
    90, 5, 24, 26, 12, 2, 18, 14, 16, 4, 23, 13, 20, 7, 6, 15,
    22, 29, 10, 8, 3, 9, 17, 11, 25, 27, 28, 30, 136, 52, 31, 77>>

CR == 13
LF == 10

\* What a character is sent as; nothing, for NUL.
Code(c) ==
  IF c \in {CR, LF} THEN MORSE_END
  ELSE IF c = 0 THEN {}
  ELSE LET upper == IF c > 96 THEN c - 32 ELSE c
       IN  Bits(morse_hw[((upper - 32) % 64) + 1])

StartBit(pattern) == {CHOOSE i \in pattern : \A j \in pattern : j <= i}
Shift(bits) == {i - 1 : i \in bits \ {0}}      \* bits >>= 1

Dits(pattern, bits) == IF pattern \cap bits # {} THEN 3 ELSE 1

Init ==
  /\ stdout = <<>> /\ led = TRUE /\ printed = 0
  /\ morse_state = "IDLE" /\ current_pattern = {} /\ current_bit = {}
  /\ morse_on = FALSE
  /\ dark = Longest /\ pulses = <<>>
  /\ meant = [code |-> {}, text |-> FALSE] /\ owed = FALSE /\ paused = TRUE /\ gap = Longest

----------------------------------------------------------------------------
(* The timer and the light *)

\* The light is on or off for t dits.  The rest is what the listener makes of
\* it, and the history: what the sign stands for (m), whether a space was taken
\* (space) or nothing was found (none) since the last sign of the text began,
\* and the longest darkness since then.
set_morse(on, t, m, space, none) ==
  LET first == on /\ m.text /\ dark >= LETTER_SPACE
  IN  /\ morse_on' = on
      /\ dark' = IF on THEN 0 ELSE IF dark + t > Longest THEN Longest ELSE dark + t
      /\ pulses' = IF ~on THEN pulses
                   ELSE IF dark >= LETTER_SPACE THEN <<t>> ELSE Append(pulses, t)
      /\ meant' = m
      /\ owed' = (~first /\ (owed \/ space))
      /\ paused' = (~first /\ (paused \/ none))
      /\ gap' = IF first THEN 0 ELSE IF dark' > gap THEN dark' ELSE gap

----------------------------------------------------------------------------
(* morse_transmit_task *)

Available == led /\ stdout # <<>>
dequeued == IF Available THEN Code(Head(stdout)) ELSE {}
dequeue == stdout' = IF Available THEN Tail(stdout) ELSE stdout

Text(pattern) == [code |-> pattern, text |-> TRUE]
Filler(pattern) == [code |-> pattern, text |-> FALSE]

\* Mutant: the start bit is sent as the first dah.
FirstBit_StartBit(pattern) == StartBit(pattern)

FirstBit(pattern) == Shift(StartBit(pattern))

\* The light goes on for the first symbol of a sign.
send(pattern, m, space, none) ==
  /\ current_pattern' = pattern
  /\ current_bit' = FirstBit(pattern)
  /\ set_morse(TRUE, Dits(pattern, FirstBit(pattern)), m, space, none)

nothing_to_do ==
  /\ morse_state = "IDLE" /\ dequeued = {}
  /\ dequeue
  /\ current_pattern' = {}
  /\ UNCHANGED <<led, printed, morse_state, current_bit, morse_on, history>>

\* The first sign begins one dit later.  Of the start sign, the source keeps
\* the mask of all bits below the first in place of the first bit.
first_sign ==
  /\ morse_state = "IDLE" /\ dequeued # {}
  /\ dequeue
  /\ IF dequeued = MORSE_SPACE
     THEN /\ morse_state' = "START"
          /\ current_pattern' = MORSE_START
          /\ current_bit' = 0..3
          /\ set_morse(FALSE, 1, Filler(MORSE_START), TRUE, FALSE)
     ELSE /\ morse_state' = "CHARACTER"
          /\ current_pattern' = dequeued
          /\ current_bit' = StartBit(dequeued)
          /\ set_morse(FALSE, 1, Text(dequeued), FALSE, FALSE)
  /\ UNCHANGED <<led, printed>>

\* Mutant: the end sign leaves the transmitter waiting for another.
AfterLastBit_EndsAgain(state) == IF state \in {"START", "STOP"} THEN "SPACE" ELSE state

AfterLastBit(state) ==
  IF state = "START" THEN "SPACE" ELSE IF state = "STOP" THEN "IDLE" ELSE state

symbol_sent ==
  /\ morse_state # "IDLE" /\ morse_on
  /\ IF current_bit # {0}
     THEN /\ set_morse(FALSE, SYMBOL_SPACE, meant, FALSE, FALSE)
          /\ UNCHANGED morse_state
     ELSE /\ set_morse(FALSE,
                       IF morse_state \in {"START", "STOP"} THEN WORD_SPACE ELSE LETTER_SPACE,
                       meant, FALSE, FALSE)
          /\ morse_state' = AfterLastBit(morse_state)
  /\ UNCHANGED <<stdout, led, printed, current_pattern, current_bit>>

next_symbol ==
  /\ morse_state # "IDLE" /\ ~morse_on /\ Shift(current_bit) # {}
  /\ current_bit' = Shift(current_bit)
  /\ set_morse(TRUE, Dits(current_pattern, Shift(current_bit)), meant, FALSE, FALSE)
  /\ UNCHANGED <<stdout, led, printed, morse_state, current_pattern>>

SignIsOver == morse_state # "IDLE" /\ ~morse_on /\ Shift(current_bit) = {}

\* Nothing to send: after a space the end sign, else a long pause.
end_of_text ==
  /\ SignIsOver /\ dequeued = {}
  /\ dequeue
  /\ IF morse_state = "SPACE"
     THEN /\ morse_state' = "STOP"
          /\ send(MORSE_END, Filler(MORSE_END), FALSE, TRUE)
     ELSE /\ current_pattern' = {} /\ current_bit' = {}
          /\ set_morse(FALSE, 2 * WORD_SPACE + 1, meant, FALSE, TRUE)
          /\ UNCHANGED morse_state
  /\ UNCHANGED <<led, printed>>

\* Mutant: the pause after a letter is not made up to that after a word.
Missing_Letter == LETTER_SPACE - SYMBOL_SPACE

Missing == WORD_SPACE - LETTER_SPACE

\* The first space is a longer pause, any other a start sign.
space ==
  /\ SignIsOver /\ dequeued = MORSE_SPACE
  /\ dequeue
  /\ IF morse_state = "SPACE"
     THEN /\ morse_state' = "START"
          /\ send(MORSE_START, Filler(MORSE_START), TRUE, FALSE)
     ELSE /\ morse_state' = "SPACE"
          /\ current_pattern' = MORSE_SPACE /\ current_bit' = {}
          /\ set_morse(FALSE, Missing, meant, TRUE, FALSE)
  /\ UNCHANGED <<led, printed>>

character ==
  /\ SignIsOver /\ dequeued \notin {{}, MORSE_SPACE}
  /\ dequeue
  /\ send(dequeued, Text(dequeued), FALSE, FALSE)
  /\ UNCHANGED <<led, printed, morse_state>>

morse_task ==
  \/ nothing_to_do \/ first_sign \/ symbol_sent \/ next_symbol
  \/ end_of_text \/ space \/ character

----------------------------------------------------------------------------
(* The rest of the system *)

\* Any task prints a character.
putchar ==
  /\ printed < MaxText
  /\ \E c \in Char : stdout' = Append(stdout, c)
  /\ printed' = printed + 1
  /\ UNCHANGED <<led, transmitter, history>>

\* A terminal is connected or goes away.
line_state ==
  /\ led' = ~led
  /\ UNCHANGED <<stdout, printed, transmitter, history>>

\* The terminal takes a character.
tty_task ==
  /\ ~led /\ stdout # <<>>
  /\ stdout' = Tail(stdout)
  /\ UNCHANGED <<led, printed, transmitter, history>>

Next == morse_task \/ putchar \/ line_state \/ tty_task

Spec == Init /\ [][Next]_vars
FairSpec == Spec /\ WF_vars(morse_task)

----------------------------------------------------------------------------
(* Properties *)

\* The variables have their types, and an idle transmitter is dark.
TypeOK ==
  /\ stdout \in Seq(Char) /\ led \in BOOLEAN /\ printed \in 0..MaxText
  /\ morse_state \in {"IDLE", "START", "STOP", "CHARACTER", "SPACE"}
  /\ current_pattern \in SUBSET Bit /\ current_bit \in SUBSET Bit
  /\ morse_on \in BOOLEAN /\ (morse_state = "IDLE" => ~morse_on)
  /\ dark \in 0..Longest /\ pulses \in Seq({1, 3})
  /\ meant \in [code : SUBSET Bit, text : BOOLEAN]
  /\ owed \in BOOLEAN /\ paused \in BOOLEAN /\ gap \in 0..Longest

\* The pulses of a sign: its bits below the start bit, the highest first.
Pulses(pattern) ==
  LET n == CHOOSE i \in pattern : \A j \in pattern : j <= i
  IN  [k \in 1..n |-> IF n - k \in pattern THEN 3 ELSE 1]

\* What the listener has heard when a pause ends a sign is the code of the
\* character that was taken from stdout, or of the end sign: no symbol is lost,
\* added or run into the next sign, whatever is printed or connected meanwhile.
\* (The start sign is left out: see the README.)
SignsAreHeard ==
  [][ dark < LETTER_SPACE /\ dark' >= LETTER_SPACE /\ meant.code # MORSE_START
        => pulses = Pulses(meant.code) ]_vars

\* When a sign of the text begins, the listener has heard a pause between words
\* if there was a space before it, and else the pause between two letters, unless
\* the text had run out in between.
WordsAreKept ==
  [][ ~morse_on /\ morse_on' /\ dark >= LETTER_SPACE /\ meant'.text
        => IF owed THEN gap >= WORD_SPACE ELSE paused \/ gap = LETTER_SPACE ]_vars

\* Every text goes out, unless a terminal is connected, and then the light
\* stays off: the transmitter neither stops within a sign nor repeats one.
TextGoesOut ==
  /\ (stdout # <<>>) ~> (stdout = <<>> \/ ~led)
  /\ <>[]~morse_on
=============================================================================
