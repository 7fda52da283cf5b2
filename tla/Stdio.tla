------------------------------- MODULE Stdio -------------------------------
(***************************************************************************)
(* The streams of a2fomu, sw/src/stdio.c.  A FILE is a ring of _max + 1    *)
(* slots between producers (fputc) and a consumer (fgetc).  One slot stays *)
(* free, so that head = tail means empty.                                  *)
(*                                                                         *)
(* tty_task (main.c) drains stdout to the USB serial port.  A newline      *)
(* needs room for two characters there: when there is room for only one,   *)
(* the newline goes back into the stream.  The loop does not yield.        *)
(***************************************************************************)
EXTENDS Naturals, Sequences

CONSTANTS
  Chars, newline, CR,  \* the characters, and two of them
  EOF,
  Max,             \* _max: the last index of the buffer
  Room             \* what the serial port may take when tty_task runs

ASSUME StdioAssumption ==
  /\ Max \in Nat \ {0}
  /\ newline \in Chars /\ CR \in Chars
  /\ EOF \notin Chars
  /\ Room \subseteq Nat

VARIABLES
  head, tail, buffer,  \* the FILE
  rc,                  \* what the last call returned
  room,                \* n of tty_task's loop; 0 when it does not run
  port                 \* the last two characters the port was given

vars == <<head, tail, buffer, rc, room, port>>
Slot == 0..Max

\* stdin and stdout start with cleared buffers, the log with what the memory
\* held.
Init ==
  /\ head = 0 /\ tail = 0
  /\ buffer \in [Slot -> Chars]
  /\ rc = EOF
  /\ room = 0
  /\ port = <<newline, CR>>

----------------------------------------------------------------------------
NextSlot(i) == IF i >= Max THEN 0 ELSE i + 1

PrevSlot(i) == IF i = 0 THEN Max ELSE i - 1

\* Mutant: the tail is not rolled back.
fputc_NoRollback(c) ==
  /\ buffer' = [buffer EXCEPT ![tail] = c]
  /\ tail' = NextSlot(tail)
  /\ rc' = IF tail' = head THEN EOF ELSE c
  /\ UNCHANGED head

\* The character is stored first; on a full buffer the tail is rolled back.
fputc(c) ==
  /\ buffer' = [buffer EXCEPT ![tail] = c]
  /\ IF NextSlot(tail) = head
       THEN UNCHANGED tail /\ rc' = EOF
       ELSE tail' = NextSlot(tail) /\ rc' = c
  /\ UNCHANGED head

fgetc ==
  /\ IF head = tail
       THEN UNCHANGED head /\ rc' = EOF
       ELSE head' = NextSlot(head) /\ rc' = buffer[head]
  /\ UNCHANGED <<tail, buffer>>

\* ungetc with the head at h.  On a full buffer it is the tail that is "rolled
\* back", although the head has moved; its one caller, tty_task, puts back what
\* it has just read.
ungetc(h, c) ==
  /\ head' = PrevSlot(h)
  /\ IF tail = PrevSlot(h)
       THEN rc' = EOF /\ UNCHANGED buffer
       ELSE rc' = c /\ buffer' = [buffer EXCEPT ![PrevSlot(h)] = c]
  /\ UNCHANGED tail

----------------------------------------------------------------------------
(* The tasks.  Those that fill and empty a stream run between two runs of    *)
(* tty_task's loop.                                                          *)

Produce(c) == room = 0 /\ fputc(c) /\ UNCHANGED <<room, port>>
Consume == room = 0 /\ fgetc /\ UNCHANGED <<room, port>>

tty_begin ==
  /\ room = 0
  /\ room' \in Room
  /\ UNCHANGED <<head, tail, buffer, rc, port>>

\* What the port is given for a character.
Sent(c) == IF c = newline THEN <<CR, c>> ELSE <<c>>

\* Mutant: the newline that does not fit is dropped.
tty_drain_Drops ==
  /\ room > 0
  /\ fgetc
  /\ IF rc' = EOF \/ (rc' = newline /\ room = 1)
       THEN room' = 0 /\ UNCHANGED port
       ELSE /\ port' = SubSeq(port \o Sent(rc'), Len(Sent(rc')) + 1, Len(Sent(rc')) + 2)
            /\ room' = room - Len(Sent(rc'))

\* One round of tty_task's output loop: fgetc, and ungetc if what the port is
\* to be given does not fit.
tty_drain ==
  /\ room > 0
  /\ IF head # tail /\ Len(Sent(buffer[head])) > room
       THEN /\ ungetc(NextSlot(head), buffer[head])
            /\ room' = 0
            /\ UNCHANGED port
       ELSE /\ fgetc
            /\ IF rc' = EOF
                 THEN room' = 0 /\ UNCHANGED port
                 ELSE LET cs == Sent(rc') IN
                      /\ port' = SubSeq(port \o cs, Len(cs) + 1, Len(cs) + 2)
                      /\ room' = room - Len(cs)

Next ==
  \/ \E c \in Chars : Produce(c)
  \/ Consume
  \/ tty_begin
  \/ tty_drain

Spec == Init /\ [][Next]_vars

----------------------------------------------------------------------------
(* Properties *)

\* The variables hold values of their types; in particular tty_task never gives
\* the port more than it can take.
TypeOK ==
  /\ head \in Slot /\ tail \in Slot
  /\ buffer \in [Slot -> Chars]
  /\ rc \in Chars \cup {EOF}
  /\ room \in Nat
  /\ port \in Seq(Chars)

\* The characters of the ring b between head h and tail t, first come first.
CountOf(h, t) == IF h <= t THEN t - h ELSE (Max + 1 - h) + t
SlotOf(h, i) == IF h + i <= Max THEN h + i ELSE h + i - (Max + 1)
ContentsOf(h, t, b) == [i \in 1..CountOf(h, t) |-> b[SlotOf(h, i - 1)]]
Contents == ContentsOf(head, tail, buffer)

\* The ring behaves as a bounded queue of Max characters: none is lost,
\* repeated or reordered, whatever the wrapping, and a full stream refuses.
Queue == INSTANCE BoundedQueue WITH
           queue <- Contents, result <- rc, Cap <- Max
ImplementsQueue == Queue!Spec

\* What leaves the stream in tty_task's loop reaches the port, in order and
\* with a carriage return before a newline; what does not fit stays.
TtyLosesNothing ==
  [][tty_drain =>
       \/ Contents' = Contents /\ port' = port
       \/ /\ Contents # <<>>
          /\ Contents' = Tail(Contents)
          /\ port'[2] = Head(Contents)
          /\ port'[2] = newline => port'[1] = CR]_vars
=============================================================================
