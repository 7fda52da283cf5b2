----------------------------- MODULE Interrupts -----------------------------
(***************************************************************************)
(* The timer interrupt and what it may find half done: a character on its  *)
(* way into the persistent log (sw/src/persistence.c, fputc in stdio.c), a *)
(* reset of the log (cli.c), or a reading of the clock (sw/src/rtc.c).     *)
(*                                                                         *)
(* When the watchdog has run out, or a trap is no interrupt, isr (main.c)  *)
(* writes a message into the log and restarts the program.  The log lies   *)
(* behind the variables that the start clears, so it survives; the pointer *)
(* to it does not, and is set again only when the log is read.  What is    *)
(* written meanwhile goes to the address 0, which is ROM.                  *)
(*                                                                         *)
(* A character is its number in the order of writing.                      *)
(***************************************************************************)
EXTENDS Naturals, Sequences

CONSTANTS
  Max,             \* _max: the last index of the log
  MessageLength,   \* characters of the message of isr
  Word,            \* 2^32 in the source: the size of half of mcycle
  MaxChars, MaxRestarts, MaxTime  \* bounds of a behaviour

ASSUME InterruptsAssumption ==
  /\ Max \in Nat \ {0} /\ MessageLength \in Nat \ {0} /\ Word \in Nat \ {0, 1}
  /\ MaxChars \in Nat /\ MaxRestarts \in Nat /\ MaxTime \in Nat

VARIABLES
  magic, head, tail, buffer,  \* the log, behind the variables
  persistence,                \* whether the pointer to it is set
  at,                         \* where the program is
  rollback,                   \* of fputc
  dumping, c,                 \* dump_persistence runs, and its character, or none
  time, high, low,            \* mcycle, and what activetime has read of it
  started,                    \* history: the time when it began to read
  serial, restarts,           \* number of characters written, and of restarts
  owed,                       \* history: what the log has taken and not given
  torn                        \* history: a restart has met a half done reset

log == <<magic, head, tail, buffer>>
clock == <<time, high, low, started>>
interruptsVars ==
  <<log, persistence, at, rollback, dumping, c, clock, serial, restarts, owed, torn>>

Slot == 0..Max
none == 0

\* At power on, the memory holds anything but the magic number.
InterruptsInit ==
  /\ magic = FALSE /\ head \in {0, Max} /\ tail \in {0, Max}
  /\ buffer = [i \in Slot |-> none]
  /\ persistence = FALSE
  /\ at = "start" /\ rollback = 0
  /\ dumping = FALSE /\ c = none
  /\ time = 0 /\ high = 0 /\ low = 0 /\ started = 0
  /\ serial = 0 /\ restarts = 0
  /\ owed = <<>> /\ torn = FALSE

NextSlot(i) == IF i >= Max THEN 0 ELSE i + 1

\* How many calls of NextSlot lead from a slot to another, and the slot to
\* which i of them lead.
CountOf(h, t) == IF h <= t THEN t - h ELSE Max + 1 - h + t
SlotOf(h, i) == IF h + i <= Max THEN h + i ELSE h + i - (Max + 1)

----------------------------------------------------------------------------
(* The log *)

\* Mutant: the log is always initialised.
persistence_init_Always ==
  /\ at = "start" /\ at' = "idle"
  /\ magic' = TRUE /\ persistence' = TRUE /\ head' = 0 /\ tail' = 0
  /\ UNCHANGED <<buffer, rollback, dumping, c, clock, serial, restarts, owed, torn>>

\* A log that is found is left alone, and so is the pointer.
persistence_init ==
  /\ at = "start" /\ at' = "idle"
  /\ IF magic THEN UNCHANGED <<log, persistence>>
     ELSE /\ magic' = TRUE /\ persistence' = TRUE
          /\ head' = 0 /\ tail' = 0
          /\ UNCHANGED buffer
  /\ UNCHANGED <<rollback, dumping, c, clock, serial, restarts, owed, torn>>

\* fputc, up to the moment when the tail has moved.
fputc ==
  /\ at = "idle" /\ serial < MaxChars
  /\ serial' = serial + 1
  /\ IF persistence
       THEN /\ rollback' = tail
            /\ buffer' = [buffer EXCEPT ![tail] = serial + 1]
            /\ tail' = NextSlot(tail)
            /\ at' = "moved"
       ELSE UNCHANGED <<rollback, buffer, tail, at>>
  /\ UNCHANGED <<magic, head, persistence, dumping, c, clock, restarts, owed, torn>>

\* A log that is full rolls the tail back.
fputc_returns ==
  /\ at = "moved" /\ at' = "idle"
  /\ IF tail = head THEN tail' = rollback /\ UNCHANGED owed
     ELSE UNCHANGED tail /\ owed' = Append(owed, serial)
  /\ rollback' = 0
  /\ UNCHANGED <<magic, head, buffer, persistence, dumping, c, clock,
                 serial, restarts, torn>>

\* cli_zero, in two stores.
cli_zero ==
  /\ at = "idle" /\ persistence
  /\ head' = 0 /\ at' = "zero"
  /\ UNCHANGED <<magic, tail, buffer, persistence, rollback, dumping, c, clock,
                 serial, restarts, owed, torn>>

cli_zero_returns ==
  /\ at = "zero" /\ at' = "idle"
  /\ tail' = 0 /\ owed' = <<>>
  /\ UNCHANGED <<magic, head, buffer, persistence, rollback, dumping, c, clock,
                 serial, restarts, torn>>

dump_persistence ==
  /\ at = "idle" /\ ~dumping
  /\ dumping' = TRUE /\ persistence' = TRUE
  /\ UNCHANGED <<log, at, rollback, c, clock, serial, restarts, owed, torn>>

\* The loop fetches a character ahead; while it yields, others write the log.
dump_fgetc ==
  /\ at = "idle" /\ dumping /\ c = none
  /\ IF head = tail THEN dumping' = FALSE /\ UNCHANGED <<head, c, owed>>
     ELSE /\ c' = buffer[head] /\ head' = NextSlot(head)
          /\ owed' = IF owed = <<>> THEN owed ELSE Tail(owed)
          /\ UNCHANGED dumping
  /\ UNCHANGED <<magic, tail, buffer, persistence, at, rollback, clock, serial,
                 restarts, torn>>

dump_write ==
  /\ at = "idle" /\ c # none
  /\ c' = none
  /\ UNCHANGED <<log, persistence, at, rollback, dumping, clock, serial, restarts, owed, torn>>

----------------------------------------------------------------------------
(* The clock *)

\* Any time may have passed since the clock was last read.
activetime ==
  /\ at = "idle" /\ at' = "high"
  /\ time' \in 0..MaxTime /\ started' = time'
  /\ UNCHANGED <<log, persistence, rollback, dumping, c, high, low, serial,
                 restarts, owed, torn>>

Reading == {"high", "low", "check", "high_again", "low_again", "time"}

\* The watchdog ends a reading that lasts as long as half of mcycle.
cycle ==
  /\ at \in Reading /\ time + 1 - started < Word
  /\ time' = time + 1
  /\ UNCHANGED <<log, persistence, at, rollback, dumping, c, high, low, started,
                 serial, restarts, owed, torn>>

Rest == UNCHANGED <<log, persistence, rollback, dumping, c, time, started,
                    serial, restarts, owed, torn>>

read_high ==
  /\ at \in {"high", "high_again"}
  /\ high' = time \div Word
  /\ at' = IF at = "high" THEN "low" ELSE "low_again"
  /\ UNCHANGED low /\ Rest

read_low ==
  /\ at \in {"low", "low_again"}
  /\ low' = time % Word
  /\ at' = IF at = "low" THEN "check" ELSE "time"
  /\ UNCHANGED high /\ Rest

\* Mutant: the two halves are taken as they are.
Wrapped_Never == FALSE

Wrapped == high # time \div Word

check_high ==
  /\ at = "check"
  /\ at' = IF Wrapped THEN "high_again" ELSE "time"
  /\ UNCHANGED <<high, low>> /\ Rest

activetime_returns ==
  /\ at = "time" /\ at' = "idle"
  /\ time' = 0 /\ started' = 0 /\ high' = 0 /\ low' = 0
  /\ UNCHANGED <<log, persistence, rollback, dumping, c, serial, restarts, owed, torn>>

----------------------------------------------------------------------------
(* The interrupt *)

\* fputc of the message's characters one by one, from the tail as it is.  Once
\* the log is full, each goes into the free slot and the tail is rolled back.
Room == Max - CountOf(head, tail)
Taken == IF MessageLength <= Room THEN MessageLength ELSE Room
Printed ==
  [k \in Slot |->
     LET i == CountOf(tail, k)
     IN  IF i < Taken THEN serial + i + 1
         ELSE IF i = Taken /\ Taken < MessageLength THEN serial + MessageLength
         ELSE buffer[k]]

\* What the log held for fputc's caller: all of it is forgotten if the tail
\* stands on the head, although the log is full.
HeldBefore ==
  IF at # "moved" THEN owed ELSE IF tail = head THEN <<>> ELSE Append(owed, serial)

\* The message, and reboot.  The start clears the variables.
isr_reboot ==
  /\ at # "start" /\ restarts < MaxRestarts
  /\ IF persistence
       THEN /\ tail' = SlotOf(tail, Taken) /\ buffer' = Printed
            /\ owed' = HeldBefore \o [i \in 1..Taken |-> serial + i]
       ELSE UNCHANGED <<tail, buffer, owed>>
  /\ serial' = serial + MessageLength
  /\ torn' = (torn \/ at = "zero")
  /\ restarts' = restarts + 1
  /\ persistence' = FALSE /\ at' = "start" /\ rollback' = 0
  /\ dumping' = FALSE /\ c' = none
  /\ time' = 0 /\ started' = 0 /\ high' = 0 /\ low' = 0
  /\ UNCHANGED <<magic, head>>

InterruptsNext ==
  \/ persistence_init \/ fputc \/ fputc_returns \/ cli_zero \/ cli_zero_returns
  \/ dump_persistence \/ dump_fgetc \/ dump_write
  \/ activetime \/ cycle \/ read_high \/ read_low \/ check_high \/ activetime_returns
  \/ isr_reboot

InterruptsSpec == InterruptsInit /\ [][InterruptsNext]_interruptsVars

----------------------------------------------------------------------------
(* Properties *)

\* The log from its head to a slot.
UpTo(t) == [i \in 1..CountOf(head, t) |-> buffer[SlotOf(head, i - 1)]]

\* Whatever was interrupted and however often the program restarted, the log
\* holds what it has taken and not given, in order.  (A restart that meets a
\* fputc whose tail stands on the head forgets what was there, and one in the
\* middle of a reset brings back what had been given.)
LogSurvives ==
  ~torn /\ at \notin {"start", "zero"}
    => UpTo(IF at = "moved" THEN rollback ELSE tail) = owed

\* activetime returns a time that the counter had while it was being read.
ActiveTimeCoherent ==
  at = "time" => high * Word + low \in started..time

\* "Any trap or exception that other than USB and timer is logged": the message
\* of a restart is in the log afterwards, unless the log was full.
MessageIsLogged ==
  [][ restarts' > restarts /\ at # "moved" /\ NextSlot(tail) # head
        => Len(owed') > Len(owed) ]_interruptsVars
=============================================================================
