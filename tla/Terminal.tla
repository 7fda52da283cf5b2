------------------------------ MODULE Terminal ------------------------------
(***************************************************************************)
(* The input of the terminal: tty_task sorts what is typed into commands   *)
(* for the firmware (cli.c) and keys for the Apple, which reach it through *)
(* stdin and the keyboard latch (sw/src/main.c), while init may still be   *)
(* executing the start-up script (exec in cli.c).                          *)
(*                                                                         *)
(* Keys arrive in USB packets, cut anywhere.  tty_task handles a packet    *)
(* without a pause, one key per step here, except that a command that it   *)
(* runs may yield.  exec keeps its lines in the buffer of the typed        *)
(* command.                                                                *)
(***************************************************************************)
EXTENDS Integers, Sequences

CONSTANTS
  Keys,            \* what is typed; of the control characters, NUL is left out
  PacketSize, MaxKeys,  \* bounds: keys in a packet and in a behaviour
  CMD_BUFFER_LEN,  \* 80 in the source
  Script,          \* the lines of HELLO, each a sequence of characters
  StdinRoom,       \* characters that stdin holds
  StaleReturn      \* whether the memory behind a packet, which nothing has written
                   \* for it, may hold a carriage return

ASSUME TerminalAssumption ==
  /\ PacketSize \in Nat \ {0} /\ MaxKeys \in Nat /\ StdinRoom \in Nat \ {0}
  /\ StaleReturn \in BOOLEAN
  /\ CMD_BUFFER_LEN \in Nat \ {0} /\ "NUL" \notin Keys
  /\ Script \in Seq(Seq(STRING \ {"NUL"}))
  /\ \A i \in DOMAIN Script : Len(Script[i]) \in 1..CMD_BUFFER_LEN - 1

VARIABLES
  buf,             \* the rest of the packet
  at,              \* where tty_task is: between packets, at a key, in cli, in
                   \* a command, or past one
  in_esc,          \* none, or the keys of the sequence that has begun
  cli_active, cli_command, cmd_ptr,
  script,          \* lines taken from the script
  pending,         \* whether exec has a line to execute
  stdin, strobe,   \* keys for the Apple, and whether its latch holds one
  sent,            \* number of keys typed
  outside, given,  \* history: keys not taken by cli, and what they were translated to
  line,            \* history: what was typed since the command began
  collected,       \* history: what cli has taken of it
  mixed            \* history: exec and cli have both written to the buffer

tty == <<buf, at, in_esc, cli_active, cmd_ptr, sent, outside, given, line, collected>>
vars == <<tty, cli_command, script, pending, stdin, strobe, mixed>>

CR == "\r"
BS == "BS"
ESC == "ESC"
CTRL == "^L"       \* any of the keys that tty_task serves itself
cli_escape == "\\"
NUL == "NUL"
Digits == <<"0", "1", "2", "3", "4", "5", "6", "7", "8", "9">>
Digit == {Digits[i] : i \in 1..10}

Lower == [a |-> "A", b |-> "B", c |-> "C", d |-> "D", e |-> "E", f |-> "F", g |-> "G",
          h |-> "H", i |-> "I", j |-> "J", k |-> "K", l |-> "L", m |-> "M", n |-> "N",
          o |-> "O", p |-> "P", q |-> "Q", r |-> "R", s |-> "S", t |-> "T", u |-> "U",
          v |-> "V", w |-> "W", x |-> "X", y |-> "Y", z |-> "Z"]
toupper(k) == IF k \in DOMAIN Lower THEN Lower[k] ELSE k

Init ==
  /\ buf = <<>> /\ at = "idle" /\ in_esc = <<>>
  /\ cli_active = FALSE /\ cmd_ptr = 0
  /\ cli_command = [i \in 1..CMD_BUFFER_LEN |-> NUL]
  /\ script = 0 /\ pending = FALSE
  /\ stdin = <<>> /\ strobe = FALSE
  /\ sent = 0 /\ outside = <<>> /\ given = <<>>
  /\ line = <<>> /\ collected = <<>> /\ mixed = FALSE

----------------------------------------------------------------------------
(* tty_task *)

packet ==
  /\ at = "idle"
  /\ \E n \in 1..PacketSize :
       /\ sent + n <= MaxKeys
       /\ buf' \in [1..n -> Keys]
       /\ sent' = sent + n
       /\ line' = IF cli_active THEN line \o buf' ELSE line
  /\ at' = "key"
  /\ UNCHANGED <<in_esc, cli_active, cmd_ptr, outside, given, collected,
                 cli_command, script, pending, stdin, strobe, mixed>>

AfterKey == IF Tail(buf) = <<>> THEN "idle" ELSE "key"

\* fputc to stdin, which drops what does not fit.
RECEIVE(codes) ==
  LET fit == SubSeq(codes, 1, StdinRoom - Len(stdin))
  IN  /\ stdin' = stdin \o (IF Len(codes) <= StdinRoom - Len(stdin) THEN codes ELSE fit)
      /\ given' = given \o codes

\* The sequences that end with a letter or, behind a number, a tilde.  Lower case
\* has become upper case, so no key of the keypad is found.
Arrow == [A |-> <<ESC, "D">>, B |-> <<ESC, "C">>, C |-> <<"^U">>, D |-> <<"^H">>,
          M |-> <<CR>>, X |-> <<"=">>, P |-> <<>>, Q |-> <<>>, R |-> <<>>, S |-> <<>>]
Tilde == << <<ESC, "@">>, <<ESC, "F">>, <<"^H">>, <<ESC, "E">>, <<ESC, "I">>, <<ESC, "M">> >>

\* in_esc is a number with two flags in its bits: 64 for a bracket, 128 for an O.
\* A number of 64 and more runs into them.
Value(digit) == (CHOOSE i \in 1..10 : Digits[i] = digit) - 1
Flags(x) == {key \in {"[", "O"} : (x \div (IF key = "[" THEN 64 ELSE 128)) % 2 = 1}
Plain(x) == (x % 64) + 256 * (x \div 256)
Number(seq) ==
  LET esc[i \in 2..Len(seq)] ==
        IF i = 2 THEN [n |-> 0, flags |-> {seq[2]}]
        ELSE LET x == 10 * esc[i - 1].n + Value(seq[i])
             IN  [n |-> Plain(x), flags |-> esc[i - 1].flags \cup Flags(x)]
  IN  esc[Len(seq)]

\* The code of a sequence that is over; one that is unknown is passed on as it
\* was typed.  (A printed number is one item here.)
Sequence(seq, k) ==
  LET number == Number(seq)
  IN  IF k \in DOMAIN Arrow THEN Arrow[k]
      ELSE IF k = "~" THEN (IF number.n \in DOMAIN Tilde THEN Tilde[number.n] ELSE <<>>)
      ELSE <<ESC, IF "[" \in number.flags THEN "[" ELSE "O">>
             \o (IF number.n = 0 THEN <<>> ELSE <<number.n>>) \o <<k>>

\* Mutant: the sequence that has begun is forgotten between two packets.
NextEsc_PerPacket(seq) == IF Tail(buf) = <<>> THEN <<>> ELSE seq

NextEsc(seq) == seq

\* A key that is not for cli.
apple_key ==
  /\ at = "past" \/ (at = "key" /\ ~cli_active /\ Head(buf) # cli_escape)
  /\ outside' = Append(outside, Head(buf))
  /\ LET c == toupper(Head(buf))
     IN  \/ /\ Len(in_esc) >= 2 /\ c \in Digit
            /\ in_esc' = NextEsc(Append(in_esc, c)) /\ RECEIVE(<<>>)
         \/ /\ Len(in_esc) >= 2 /\ c \notin Digit
            /\ in_esc' = <<>> /\ RECEIVE(Sequence(in_esc, c))
         \/ /\ in_esc = <<ESC>> /\ c \in {"[", "O"}
            /\ in_esc' = NextEsc(Append(in_esc, c)) /\ RECEIVE(<<>>)
         \/ /\ in_esc = <<ESC>> /\ c \notin {"[", "O"}
            /\ in_esc' = <<>> /\ RECEIVE(<<ESC, c>>)
         \/ /\ in_esc = <<>> /\ c = ESC
            /\ in_esc' = NextEsc(Append(in_esc, c)) /\ RECEIVE(<<>>)
         \/ /\ in_esc = <<>> /\ c # ESC
            /\ UNCHANGED in_esc
            /\ RECEIVE(IF c = CTRL THEN <<>> ELSE IF c = BS THEN <<"^H">> ELSE <<c>>)
  /\ buf' = Tail(buf) /\ at' = AfterKey
  /\ UNCHANGED <<cli_active, cmd_ptr, sent, line, collected, cli_command, script, pending,
                 strobe, mixed>>

----------------------------------------------------------------------------
(* cli *)

Rest == UNCHANGED <<in_esc, sent, outside, given, script, pending, stdin, strobe>>

\* Mutant: the new command goes on where the last one ended.
Start_GoesOn == cmd_ptr

Start == 0

\* cli is called with the rest of the packet; a command begins behind the escape.
enter_cli ==
  /\ at = "key" /\ (cli_active \/ Head(buf) = cli_escape)
  /\ at' = "cli"
  /\ IF cli_active THEN UNCHANGED <<buf, cmd_ptr, line, collected, mixed>>
     ELSE /\ buf' = Tail(buf) /\ cmd_ptr' = Start
          /\ line' = Tail(buf) /\ collected' = <<>> /\ mixed' = pending
  /\ cli_active' = TRUE
  /\ UNCHANGED cli_command
  /\ Rest

backspace ==
  /\ at = "cli" /\ buf # <<>> /\ Head(buf) = BS
  /\ cmd_ptr' = IF cmd_ptr > 0 THEN cmd_ptr - 1 ELSE 0
  /\ collected' = Append(collected, BS)
  /\ buf' = Tail(buf)
  /\ UNCHANGED <<at, cli_active, line, cli_command, mixed>>
  /\ Rest

collect ==
  /\ at = "cli" /\ buf # <<>> /\ Head(buf) \notin {BS, CR} /\ cmd_ptr < CMD_BUFFER_LEN
  /\ cli_command' = [cli_command EXCEPT ![cmd_ptr + 1] = Head(buf)]
  /\ cmd_ptr' = cmd_ptr + 1
  /\ collected' = Append(collected, Head(buf))
  /\ mixed' = (mixed \/ pending)
  /\ buf' = Tail(buf)
  /\ UNCHANGED <<at, cli_active, line>>
  /\ Rest

\* With the buffer full, the loop goes on with the same key for ever.
overrun ==
  /\ at = "cli" /\ buf # <<>> /\ Head(buf) \notin {BS, CR} /\ cmd_ptr = CMD_BUFFER_LEN
  /\ at' = "hung"
  /\ UNCHANGED <<buf, cli_active, cmd_ptr, line, collected, cli_command, mixed>>
  /\ Rest

Terminated == [i \in 1..CMD_BUFFER_LEN |-> IF i = cmd_ptr + 1 THEN NUL ELSE cli_command[i]]

\* Behind the packet, the key that is looked at is whatever the memory holds.
ReturnLookedAt == IF buf = <<>> THEN StaleReturn ELSE Head(buf) = CR

\* The command is executed at a carriage return, were it one that nobody typed.
\* (The NUL of a full buffer goes to the byte behind it.)
cli_execute ==
  /\ at = "cli" /\ ReturnLookedAt
  /\ cli_command' = Terminated
  /\ at' = "command"
  /\ buf' = IF buf = <<>> THEN <<>> ELSE Tail(buf)
  /\ mixed' = (mixed \/ pending)
  /\ UNCHANGED <<cli_active, cmd_ptr, line, collected>>
  /\ Rest

cli_waits ==
  /\ at = "cli" /\ buf = <<>>
  /\ at' = "idle"
  /\ UNCHANGED <<buf, cli_active, cmd_ptr, line, collected, cli_command, mixed>>
  /\ Rest

\* The key behind the carriage return is not for cli, even if it is the escape.
command_returns ==
  /\ at = "command"
  /\ cli_active' = FALSE
  /\ at' = IF buf = <<>> THEN "idle" ELSE "past"
  /\ line' = <<>>
  /\ UNCHANGED <<buf, cmd_ptr, collected, cli_command, mixed>>
  /\ Rest

handle_key ==
  \/ apple_key \/ enter_cli \/ backspace \/ collect \/ overrun
  \/ cli_execute \/ cli_waits \/ command_returns

tty_task == packet \/ handle_key

----------------------------------------------------------------------------
(* exec, and the keyboard of the Apple *)

\* Other tasks run between packets or while a command yields; init goes on once
\* the typed command has returned.
Yielding == at \in {"idle", "command"}

Line(i) == [j \in 1..CMD_BUFFER_LEN |-> IF j <= Len(Script[i]) THEN Script[i][j] ELSE NUL]

\* Mutant: the line is not terminated.
Written_NoNul(i) == Len(Script[i])

Written(i) == Len(Script[i]) + 1

\* fgets leaves what is behind the line and its NUL as it was.
exec_line ==
  /\ at = "idle" /\ ~pending /\ script < Len(Script)
  /\ script' = script + 1 /\ pending' = TRUE
  /\ cli_command' = [j \in 1..CMD_BUFFER_LEN |->
                       IF j <= Written(script + 1) THEN Line(script + 1)[j] ELSE cli_command[j]]
  /\ mixed' = (cli_active /\ cmd_ptr > 0)
  /\ UNCHANGED <<tty, stdin, strobe>>

exec_parse ==
  /\ at = "idle" /\ pending
  /\ pending' = FALSE
  /\ UNCHANGED <<tty, cli_command, script, stdin, strobe, mixed>>

keyboard_task ==
  /\ Yielding /\ ~strobe /\ stdin # <<>>
  /\ stdin' = Tail(stdin) /\ strobe' = TRUE
  /\ UNCHANGED <<tty, cli_command, script, pending, mixed>>

\* The 6502 takes the key and clears the strobe.
apple_reads ==
  /\ strobe /\ strobe' = FALSE
  /\ UNCHANGED <<tty, cli_command, script, pending, stdin, mixed>>

Next == tty_task \/ exec_line \/ exec_parse \/ keyboard_task \/ apple_reads

Spec == Init /\ [][Next]_vars

----------------------------------------------------------------------------
(* Properties *)

\* Where the sequence that begins at i is over: behind its digits.
Over(k, i) ==
  CHOOSE j \in i + 2..Len(k) + 1 :
    (j = Len(k) + 1 \/ k[j] \notin Digit) /\ \A m \in i + 2..j - 1 : k[m] \in Digit

\* What the keys from the i-th one on mean, if rest says it of those behind.
Meaning(k, i, rest) ==
  IF i > Len(k) THEN <<>>
  ELSE IF k[i] = CTRL THEN rest[i + 1]
  ELSE IF k[i] = BS THEN <<"^H">> \o rest[i + 1]
  ELSE IF k[i] # ESC THEN <<k[i]>> \o rest[i + 1]
  ELSE IF i = Len(k) THEN <<>>
  ELSE IF k[i + 1] \notin {"[", "O"} THEN <<ESC, k[i + 1]>> \o rest[i + 2]
  ELSE IF Over(k, i) = Len(k) + 1 THEN <<>>
  ELSE Sequence(SubSeq(k, i, Over(k, i) - 1), k[Over(k, i)]) \o rest[Over(k, i) + 1]

\* What a row of keys means to the Apple, read from the left as one piece.
Translate(keys) ==
  LET k == [i \in 1..Len(keys) |-> toupper(keys[i])]
      rest[i \in 1..Len(keys) + 2] == Meaning(k, i, rest)
  IN  rest[1]

\* However the packets cut the keys, and whatever commands are typed in the
\* middle of a sequence, they are translated to what they mean as one piece.
\* (What a full stdin drops of it is another matter.)
CutsDoNotMatter == given = Translate(outside)

Edit(text, key) ==
  IF key # BS THEN Append(text, key)
  ELSE IF text = <<>> THEN <<>> ELSE SubSeq(text, 1, Len(text) - 1)

\* The text that a row of keys leaves after editing.
Edited(keys) ==
  LET text[i \in 0..Len(keys)] == IF i = 0 THEN <<>> ELSE Edit(text[i - 1], keys[i])
  IN  text[Len(keys)]

\* What is in the buffer up to its NUL.
Text == SubSeq(cli_command, 1, CHOOSE n \in 0..CMD_BUFFER_LEN :
          /\ \A i \in 1..n : cli_command[i] # NUL
          /\ n = CMD_BUFFER_LEN \/ cli_command[n + 1] = NUL)

\* A command is executed when its carriage return has been typed, and is then all
\* that was typed up to there, as it was edited, in one packet or many; unless the
\* script has put a line in the buffer since it began.
TypedCommandIntact ==
  at = "command" /\ ~mixed =>
    \E n \in 1..Len(line) :
      /\ line[n] = CR /\ \A i \in 1..n - 1 : line[i] # CR
      /\ Text = Edited(SubSeq(line, 1, n - 1))

\* A line of the script is executed as it stands in the file, unless a command
\* was being typed meanwhile.
ScriptLineIntact ==
  [][ exec_parse /\ ~mixed => Text = Script[script] ]_vars
=============================================================================
