--------------------------- MODULE TerminalProofs ---------------------------
(***************************************************************************)
(* Proofs about the input of the terminal: a command is executed as it was *)
(* typed, a line of the script as it stands, and keys are translated to    *)
(* what they mean, for every cut of the keys into packets.                 *)
(*                                                                         *)
(* What keys mean is defined by recursion.  Induction is that a set of     *)
(* numbers with 0 and every successor is Nat.                              *)
(***************************************************************************)
EXTENDS Terminal, SequenceTheorems, WellFoundedInduction, TLAPS

Below == {pair \in Nat \X Nat : pair[1] < pair[2]}

LEMMA Smallest == ASSUME NEW S \in SUBSET Nat, S # {} PROVE \E n \in S : \A m \in S : n <= m
<1>1. IsWellFoundedOn(Below, Nat)
  BY NatLessThanWellFounded DEF OpToRel, Below
<1>2. PICK n \in S : \A m \in S : <<m, n>> \notin Below
  BY <1>1, WFMin
<1>3. ASSUME NEW m \in S PROVE n <= m
  <2>1. m \in Nat /\ n \in Nat /\ <<m, n>> \in Nat \X Nat
    OBVIOUS
  <2>2. ~(m < n)
    BY <1>2, <2>1 DEF Below
  <2> QED BY <2>1, <2>2
<1> QED BY <1>3

LEMMA Induction ==
  ASSUME NEW S \in SUBSET Nat, 0 \in S, \A n \in S : n + 1 \in S
  PROVE  S = Nat
<1> SUFFICES ASSUME Nat \ S # {} PROVE FALSE
  OBVIOUS
<1>1. PICK n \in Nat \ S : \A m \in Nat \ S : n <= m
  BY Smallest
<1>2. n # 0 /\ n - 1 \in Nat
  BY <1>1
<1>3. n - 1 \in S
  BY <1>1, <1>2
<1> QED BY <1>1, <1>2, <1>3

LEMMA Sizes == CMD_BUFFER_LEN \in Nat /\ CMD_BUFFER_LEN > 0 /\ StdinRoom \in Nat
BY TerminalAssumption

LEMMA NoNul == NUL \notin Keys /\ NUL = "NUL"
BY TerminalAssumption DEF NUL

LEMMA Lines ==
  ASSUME NEW i \in 1..Len(Script)
  PROVE  /\ Script[i] \in Seq(STRING) /\ Len(Script[i]) \in 1..CMD_BUFFER_LEN - 1
         /\ \A j \in 1..Len(Script[i]) : Script[i][j] \in STRING /\ Script[i][j] # NUL
<1>1. Script \in Seq(Seq(STRING \ {"NUL"})) /\ i \in DOMAIN Script
  BY TerminalAssumption
<1>2. Script[i] \in Seq(STRING \ {"NUL"})
  BY <1>1, ElementOfSeq
<1>3. \A j \in 1..Len(Script[i]) : Script[i][j] \in STRING \ {"NUL"}
  BY <1>2, ElementOfSeq
<1>4. Script[i] \in Seq(STRING)
  BY <1>2
<1>5. Len(Script[i]) \in 1..CMD_BUFFER_LEN - 1
  BY <1>1, TerminalAssumption
<1> QED BY <1>3, <1>4, <1>5, NoNul

----------------------------------------------------------------------------
(* The text of a command *)

Char == Keys \cup STRING \cup {NUL}

\* The text after each of the keys.
Texts(keys, text) ==
  /\ text \in [0..Len(keys) -> Seq(Keys)] /\ text[0] = <<>>
  /\ \A i \in 1..Len(keys) : text[i] = Edit(text[i - 1], keys[i])

LEMMA EditType ==
  ASSUME NEW text \in Seq(Keys), NEW key \in Keys
  PROVE  Edit(text, key) \in Seq(Keys)
<1>1. CASE key # BS
  BY <1>1 DEF Edit
<1>2. CASE key = BS /\ text = <<>>
  BY <1>2 DEF Edit
<1>3. CASE key = BS /\ text # <<>>
  <2>1. Len(text) \in Nat /\ Len(text) > 0
    BY <1>3, EmptySeq
  <2>2. SubSeq(text, 1, Len(text) - 1) \in Seq(Keys)
    BY <2>1, SubSeqProperties
  <2> QED BY <1>3, <2>2 DEF Edit
<1> QED BY <1>1, <1>2, <1>3

LEMMA EditedIs ==
  ASSUME NEW keys \in Seq(Keys), NEW text, Texts(keys, text)
  PROVE  Edited(keys) = text[Len(keys)]
<1> DEFINE n == Len(keys)
           Is(f) == f = [i \in 0..n |-> IF i = 0 THEN <<>> ELSE Edit(f[i - 1], keys[i])]
           chosen == CHOOSE f : Is(f)
<1>1. n \in Nat
  BY LenProperties
<1>2. Edited(keys) = chosen[n]
  BY DEF Edited
<1>3. Is(text)
  BY <1>1 DEF Texts
<1>4. Is(chosen)
  <2> HIDE DEF Is
  <2> QED BY <1>3
<1> HIDE DEF chosen
<1>9. PICK f : f = chosen /\ Is(f)
  BY <1>4
<1>5. f[0] = <<>> /\ \A i \in 1..n : f[i] = Edit(f[i - 1], keys[i])
  <2>1. 0 \in 0..n /\ \A i \in 1..n : i \in 0..n /\ i # 0
    BY <1>1
  <2>2. \A i \in 0..n : f[i] = IF i = 0 THEN <<>> ELSE Edit(f[i - 1], keys[i])
    BY <1>9
  <2> QED BY <2>1, <2>2
<1> DEFINE S == {i \in Nat : i <= n => f[i] = text[i]}
<1>6. 0 \in S
  BY <1>5 DEF Texts
<1>7. ASSUME NEW i \in S PROVE i + 1 \in S
  <2>1. CASE i + 1 <= n
    <3>1. i \in Nat /\ i <= n /\ i + 1 \in 1..n /\ (i + 1) - 1 = i
      BY <1>1, <2>1
    <3>2. f[i] = text[i]
      BY <3>1
    <3>3. f[i + 1] = Edit(f[i], keys[i + 1]) /\ text[i + 1] = Edit(text[i], keys[i + 1])
      BY <1>5, <3>1 DEF Texts
    <3> QED BY <3>1, <3>2, <3>3
  <2> QED BY <2>1
<1>8. n \in S
  <2> HIDE DEF S
  <2>1. S \in SUBSET Nat
    BY DEF S
  <2> QED BY <1>1, <1>6, <1>7, <2>1, Induction
<1> QED BY <1>1, <1>2, <1>8, <1>9

\* A key more.
LEMMA TextsOn ==
  ASSUME NEW keys \in Seq(Keys), NEW key \in Keys, NEW text, Texts(keys, text)
  PROVE  \E more : /\ Texts(Append(keys, key), more)
                   /\ more[Len(keys) + 1] = Edit(text[Len(keys)], key)
<1> DEFINE n == Len(keys)
           q == Append(keys, key)
           more == [i \in 0..n + 1 |-> IF i <= n THEN text[i] ELSE Edit(text[n], key)]
<1>1. n \in Nat /\ Len(q) = n + 1 /\ q[n + 1] = key /\ \A i \in 1..n : q[i] = keys[i]
  BY AppendProperties, LenProperties
<1>2. text \in [0..n -> Seq(Keys)] /\ text[0] = <<>>
      /\ \A i \in 1..n : text[i] = Edit(text[i - 1], keys[i])
  BY DEF Texts
<1> HIDE DEF n, q
<1>3. Edit(text[n], key) \in Seq(Keys)
  BY <1>1, <1>2, EditType
<1>4. more \in [0..n + 1 -> Seq(Keys)] /\ more[0] = <<>>
  BY <1>1, <1>2, <1>3
<1>5. ASSUME NEW i \in 1..n + 1 PROVE more[i] = Edit(more[i - 1], q[i])
  <2>1. CASE i <= n
    BY <1>1, <1>2, <2>1
  <2>2. CASE ~(i <= n)
    BY <1>1, <2>2
  <2> QED BY <2>1, <2>2
<1>6. Texts(q, more)
  BY <1>1, <1>4, <1>5 DEF Texts
<1>7. more[n + 1] = Edit(text[n], key)
  BY <1>1
<1> QED BY <1>6, <1>7 DEF n, q

LEMMA TextsNone == Texts(<<>>, [i \in 0..0 |-> <<>>])
<1>1. Len(<<>>) = 0 /\ <<>> \in Seq(Keys)
  OBVIOUS
<1> QED BY <1>1 DEF Texts

\* The text is what is in front of the first NUL.
LEMMA TextIs ==
  ASSUME NEW n \in 0..CMD_BUFFER_LEN, cli_command \in [1..CMD_BUFFER_LEN -> Char],
         \A i \in 1..n : cli_command[i] # NUL,
         n = CMD_BUFFER_LEN \/ cli_command[n + 1] = NUL
  PROVE  Text = SubSeq(cli_command, 1, n)
<1> DEFINE Is(k) == /\ \A i \in 1..k : cli_command[i] # NUL
                    /\ k = CMD_BUFFER_LEN \/ cli_command[k + 1] = NUL
<1>1. ASSUME NEW k \in 0..CMD_BUFFER_LEN, Is(k) PROVE k = n
  <2>1. CASE k < n
    BY <1>1, <2>1, Sizes
  <2>2. CASE n < k
    BY <1>1, <2>2, Sizes
  <2> QED BY <2>1, <2>2
<1>2. n = CHOOSE k \in 0..CMD_BUFFER_LEN : Is(k)
  <2>1. Is(n)
    OBVIOUS
  <2> HIDE DEF Is
  <2> QED BY <1>1, <2>1
<1> QED BY <1>2 DEF Text

----------------------------------------------------------------------------
(* What is executed *)

CommandTyped ==
  /\ buf \in Seq(Keys) /\ at \in {"idle", "key", "past", "cli", "command", "hung"}
  /\ cli_active \in BOOLEAN /\ pending \in BOOLEAN /\ mixed \in BOOLEAN
  /\ cli_command \in [1..CMD_BUFFER_LEN -> Char] /\ cmd_ptr \in 0..CMD_BUFFER_LEN
  /\ collected \in Seq(Keys) /\ script \in 0..Len(Script)
  /\ at \in {"key", "past"} => buf # <<>>
  /\ at \in {"cli", "command", "hung"} => cli_active

\* The pointer stands behind the text, and unless both have written to it, the
\* buffer holds it.
Holds(text) ==
  /\ Len(text) = cmd_ptr
  /\ ~mixed => \A i \in 1..cmd_ptr : cli_command[i] = text[i]
Collecting == cli_active => \E text : Texts(collected, text) /\ Holds(text[Len(collected)])

Ended == at = "command" /\ ~mixed /\ cmd_ptr < CMD_BUFFER_LEN => cli_command[cmd_ptr + 1] = NUL

LineThere ==
  pending =>
    /\ script \in 1..Len(Script)
    /\ ~mixed => /\ \A j \in 1..Len(Script[script]) : cli_command[j] = Script[script][j]
                 /\ cli_command[Len(Script[script]) + 1] = NUL

CommandInv == CommandTyped /\ Collecting /\ Ended /\ LineThere

LEMMA CommandInit == Init => CommandInv
<1> SUFFICES ASSUME Init PROVE CommandInv
  OBVIOUS
<1>1. Len(Script) \in Nat /\ NUL \in Char
  <2>1. Script \in Seq(Seq(STRING \ {"NUL"}))
    BY TerminalAssumption
  <2>2. Len(Script) \in Nat
    BY <2>1, LenProperties
  <2> QED BY <2>2 DEF Char
<1>2. 0 \in 0..CMD_BUFFER_LEN /\ 0 \in 0..Len(Script) /\ <<>> \in Seq(Keys)
  BY <1>1, Sizes
<1>3. cli_command \in [1..CMD_BUFFER_LEN -> Char]
  BY <1>1 DEF Init
<1>4. CommandTyped
  BY <1>2, <1>3 DEF Init, CommandTyped
<1> QED BY <1>4 DEF Init, CommandInv, Collecting, Ended, LineThere

\* Steps that leave the buffer and what was collected alone.
LEMMA Aside ==
  ASSUME CommandInv, UNCHANGED <<cli_command, cmd_ptr, collected, mixed, script>>,
         buf' \in Seq(Keys), at' \in {"idle", "key", "past", "cli", "command", "hung"},
         cli_active' \in BOOLEAN, pending' \in BOOLEAN,
         at' \in {"key", "past"} => buf' # <<>>,
         at' \in {"cli", "command", "hung"} => cli_active',
         cli_active' => cli_active, pending' => pending,
         at' = "command" => at = "command"
  PROVE  CommandInv'
<1>1. CommandTyped'
  BY DEF CommandInv, CommandTyped
<1>2. Collecting'
  <2>1. CASE ~cli_active'
    BY <2>1 DEF Collecting
  <2>2. CASE cli_active'
    <3>1. PICK text : Texts(collected, text) /\ Holds(text[Len(collected)])
      BY <2>2 DEF CommandInv, Collecting
    <3>2. PICK t : t = text[Len(collected)]
      OBVIOUS
    <3>3. Holds(t)'
      BY <3>1, <3>2 DEF Holds
    <3> QED BY <3>1, <3>2, <3>3 DEF Collecting
  <2> QED BY <2>1, <2>2
<1>3. Ended' /\ LineThere'
  BY DEF CommandInv, Ended, LineThere
<1> QED BY <1>1, <1>2, <1>3 DEF CommandInv

LEMMA TailType ==
  ASSUME NEW S, NEW s \in Seq(S), s # <<>>
  PROVE  Tail(s) \in Seq(S) /\ Head(s) \in S
BY HeadTailProperties

LEMMA Shorter ==
  ASSUME NEW S, NEW s \in Seq(S), Len(s) > 0
  PROVE  /\ Len(SubSeq(s, 1, Len(s) - 1)) = Len(s) - 1
         /\ \A i \in 1..Len(s) - 1 : SubSeq(s, 1, Len(s) - 1)[i] = s[i]
<1>1. PICK n \in Nat : n = Len(s)
  BY LenProperties
<1>2. n > 0
  BY <1>1
<1>3. n - 1 \in 1 - 1..n /\ 1 \in 1..n + 1 /\ n - 1 - 1 + 1 = n - 1
      /\ \A i \in 1..n - 1 : 1 + i - 1 = i
  BY <1>2
<1>4. /\ Len(SubSeq(s, 1, n - 1)) = n - 1
      /\ \A i \in 1..n - 1 : SubSeq(s, 1, n - 1)[i] = s[i]
  BY <1>1, <1>2, <1>3, SubSeqProperties
<1> QED BY <1>1, <1>4

LEMMA PacketStep == ASSUME CommandInv, packet PROVE CommandInv'
<1>1. PICK n \in 1..PacketSize : buf' \in [1..n -> Keys]
  BY DEF packet
<1>2. n \in Nat /\ n > 0
  BY <1>1, TerminalAssumption
<1>3. buf' \in Seq(Keys) /\ Len(buf') = n
  BY <1>1, <1>2
<1>4. buf' # <<>>
  BY <1>2, <1>3, EmptySeq
<1> QED BY <1>3, <1>4, Aside DEF packet, CommandInv, CommandTyped

LEMMA AppleKeyStep == ASSUME CommandInv, apple_key PROVE CommandInv'
<1>1. buf # <<>> /\ buf \in Seq(Keys)
  BY DEF apple_key, CommandInv, CommandTyped
<1>2. buf' \in Seq(Keys) /\ at' \in {"idle", "key"} /\ (at' = "key" => buf' # <<>>)
  BY <1>1, TailType DEF apple_key, AfterKey
<1>3. UNCHANGED <<cli_command, cmd_ptr, collected, mixed, script, cli_active, pending>>
  BY DEF apple_key
<1> QED BY <1>2, <1>3, Aside DEF CommandInv, CommandTyped

LEMMA QuietSteps ==
  ASSUME CommandInv, overrun \/ cli_waits \/ command_returns \/ exec_parse \/ keyboard_task \/ apple_reads
  PROVE  CommandInv'
<1>0. CommandTyped
  BY DEF CommandInv
<1>1. CASE overrun
  BY <1>0, <1>1, Aside DEF overrun, Rest, CommandTyped
<1>2. CASE cli_waits
  BY <1>0, <1>2, Aside DEF cli_waits, Rest, CommandTyped
<1>3. CASE command_returns
  BY <1>0, <1>3, Aside DEF command_returns, Rest, CommandTyped
<1>4. CASE exec_parse
  BY <1>0, <1>4, Aside DEF exec_parse, tty, CommandTyped
<1>5. CASE keyboard_task
  BY <1>0, <1>5, Aside DEF keyboard_task, tty, CommandTyped
<1>6. CASE apple_reads
  BY <1>0, <1>6, Aside DEF apple_reads, tty, CommandTyped
<1> QED BY <1>1, <1>2, <1>3, <1>4, <1>5, <1>6

LEMMA EnterStep == ASSUME CommandInv, enter_cli PROVE CommandInv'
<1>0. CommandTyped /\ buf # <<>>
  BY DEF CommandInv, CommandTyped, enter_cli
<1>1. CASE cli_active
  BY <1>0, <1>1, Aside DEF enter_cli, Rest, CommandTyped
<1>2. CASE ~cli_active
  <2>1. /\ at' = "cli" /\ buf' = Tail(buf) /\ cmd_ptr' = 0 /\ collected' = <<>>
        /\ mixed' = pending /\ cli_active' = TRUE
        /\ UNCHANGED <<cli_command, script, pending>>
    BY <1>2 DEF enter_cli, Rest, Start
  <2>2. CommandTyped'
    BY <1>0, <2>1, TailType, Sizes DEF CommandTyped
  <2>3. Collecting'
    <3> DEFINE text == [i \in 0..0 |-> <<>>]
    <3>1. text[Len(<<>>)] = <<>> /\ Len(<<>>) = 0
      OBVIOUS
    <3>2. Holds(<<>>)'
      BY <2>1, <3>1 DEF Holds
    <3>3. Texts(<<>>, text)
      BY TextsNone
    <3> HIDE DEF text
    <3> QED BY <2>1, <3>1, <3>2, <3>3 DEF Collecting
  <2>4. Ended' /\ LineThere'
    BY <1>0, <2>1 DEF CommandInv, Ended, LineThere, CommandTyped
  <2> QED BY <2>2, <2>3, <2>4 DEF CommandInv
<1> QED BY <1>1, <1>2

LEMMA BackspaceStep == ASSUME CommandInv, backspace PROVE CommandInv'
<1>0. /\ CommandTyped /\ buf # <<>> /\ cli_active /\ BS \in Keys /\ Tail(buf) \in Seq(Keys)
      /\ collected \in Seq(Keys)
  BY TailType DEF CommandInv, CommandTyped, backspace
<1>1. /\ cmd_ptr' = (IF cmd_ptr > 0 THEN cmd_ptr - 1 ELSE 0)
      /\ collected' = Append(collected, BS) /\ buf' = Tail(buf) /\ at = "cli"
      /\ UNCHANGED <<at, cli_active, cli_command, mixed, script, pending>>
  BY DEF backspace, Rest
<1>2. CommandTyped'
  <2>1. cmd_ptr' \in 0..CMD_BUFFER_LEN
    BY <1>0, <1>1, Sizes DEF CommandTyped
  <2> QED BY <1>0, <1>1, <2>1 DEF CommandTyped
<1>3. PICK text : Texts(collected, text) /\ Holds(text[Len(collected)])
  BY <1>0 DEF CommandInv, Collecting
<1>4. PICK more : /\ Texts(Append(collected, BS), more)
                  /\ more[Len(collected) + 1] = Edit(text[Len(collected)], BS)
  BY <1>0, <1>3, TextsOn
<1>5. PICK t \in Seq(Keys) : t = text[Len(collected)]
  BY <1>0, <1>3, LenProperties DEF Texts
<1>6. Holds(Edit(t, BS))'
  <2>1. Holds(t) /\ Len(t) \in Nat
    BY <1>3, <1>5
  <2>2. CASE t = <<>>
    <3>1. Len(t) = 0
      BY <2>2
    <3>2. cmd_ptr = 0 /\ cmd_ptr' = 0
      BY <1>1, <2>1, <3>1 DEF Holds
    <3> QED BY <2>2, <3>1, <3>2 DEF Edit, Holds
  <2>3. CASE t # <<>>
    <3>1. Len(t) > 0
      BY <2>3, EmptySeq
    <3>2. Len(t) - 1 \in 0..Len(t) /\ 1 \in 1..Len(t) + 1
      BY <2>1, <3>1
    <3>3. Len(Edit(t, BS)) = Len(t) - 1 /\ \A i \in 1..Len(t) - 1 : Edit(t, BS)[i] = t[i]
      BY <2>1, <2>3, <3>1, Shorter DEF Edit
    <3>4. cmd_ptr' = Len(t) - 1 /\ cmd_ptr = Len(t)
      BY <1>1, <2>1, <3>1 DEF Holds
    <3> QED BY <1>1, <2>1, <3>3, <3>4 DEF Holds
  <2> QED BY <2>2, <2>3
<1>7. Len(Append(collected, BS)) = Len(collected) + 1
  BY <1>0, AppendProperties
<1>8. Collecting'
  BY <1>1, <1>4, <1>5, <1>6, <1>7 DEF Collecting
<1>9. Ended' /\ LineThere'
  BY <1>1 DEF CommandInv, Ended, LineThere
<1> QED BY <1>2, <1>8, <1>9 DEF CommandInv

LEMMA CollectStep == ASSUME CommandInv, collect PROVE CommandInv'
<1>0. /\ CommandTyped /\ buf # <<>> /\ cli_active /\ Tail(buf) \in Seq(Keys)
      /\ collected \in Seq(Keys) /\ cmd_ptr \in 0..CMD_BUFFER_LEN /\ cmd_ptr < CMD_BUFFER_LEN
  BY TailType DEF CommandInv, CommandTyped, collect
<1>1. PICK key \in Keys : key = Head(buf) /\ key # BS
  BY <1>0, TailType DEF CommandTyped, collect
<1>2. /\ cli_command' = [cli_command EXCEPT ![cmd_ptr + 1] = key]
      /\ cmd_ptr' = cmd_ptr + 1 /\ collected' = Append(collected, key)
      /\ mixed' = (mixed \/ pending) /\ buf' = Tail(buf) /\ at = "cli"
      /\ UNCHANGED <<at, cli_active, script, pending>>
  BY <1>1 DEF collect, Rest
<1>3. cmd_ptr + 1 \in 1..CMD_BUFFER_LEN
  BY <1>0, Sizes
<1>4. CommandTyped'
  <2>1. cli_command' \in [1..CMD_BUFFER_LEN -> Char] /\ cmd_ptr' \in 0..CMD_BUFFER_LEN
    BY <1>0, <1>2, <1>3, Sizes DEF CommandTyped, Char
  <2>2. collected' \in Seq(Keys) /\ mixed' \in BOOLEAN
    BY <1>0, <1>2 DEF CommandTyped
  <2> QED BY <1>0, <1>2, <2>1, <2>2 DEF CommandTyped
<1>5. PICK text : Texts(collected, text) /\ Holds(text[Len(collected)])
  BY <1>0 DEF CommandInv, Collecting
<1>6. PICK more : /\ Texts(Append(collected, key), more)
                  /\ more[Len(collected) + 1] = Edit(text[Len(collected)], key)
  BY <1>0, <1>5, TextsOn
<1>7. PICK t \in Seq(Keys) : t = text[Len(collected)]
  BY <1>0, <1>5, LenProperties DEF Texts
<1>8. PICK u : u = Edit(t, key)
  OBVIOUS
<1>9. Holds(u)'
  <2>1. Holds(t)
    BY <1>5, <1>7
  <2>2. Len(u) = cmd_ptr + 1 /\ u[cmd_ptr + 1] = key /\ \A i \in 1..cmd_ptr : u[i] = t[i]
    BY <1>1, <1>7, <1>8, <2>1, AppendProperties DEF Edit, Holds
  <2>3. ASSUME ~mixed', NEW i \in 1..cmd_ptr + 1 PROVE cli_command'[i] = u[i]
    <3>1. cli_command \in [1..CMD_BUFFER_LEN -> Char] /\ i \in 1..CMD_BUFFER_LEN
      BY <1>0, Sizes DEF CommandTyped
    <3>2. CASE i = cmd_ptr + 1
      BY <1>2, <2>2, <3>1, <3>2
    <3>3. CASE i # cmd_ptr + 1
      <4>1. ~mixed
        BY <1>2, <2>3, Zenon
      <4>2. i \in 1..cmd_ptr
        BY <1>0, <3>3
      <4>3. cli_command[i] = t[i]
        BY <2>1, <4>1, <4>2 DEF Holds
      <4>4. cli_command'[i] = cli_command[i]
        BY <1>2, <3>1, <3>3
      <4> QED BY <2>2, <4>2, <4>3, <4>4
    <3> QED BY <3>2, <3>3
  <2> QED BY <1>2, <2>2, <2>3 DEF Holds
<1>10. Len(Append(collected, key)) = Len(collected) + 1
  BY <1>0, AppendProperties
<1>11. Collecting'
  BY <1>2, <1>6, <1>7, <1>8, <1>9, <1>10 DEF Collecting
<1>12. Ended' /\ LineThere'
  BY <1>2 DEF CommandInv, Ended, LineThere
<1> QED BY <1>4, <1>11, <1>12 DEF CommandInv

LEMMA ExecuteStep == ASSUME CommandInv, cli_execute PROVE CommandInv'
<1>0. CommandTyped /\ cli_active /\ cmd_ptr \in 0..CMD_BUFFER_LEN
  BY DEF CommandInv, CommandTyped, cli_execute
<1>1. /\ cli_command' = Terminated /\ at' = "command"
      /\ buf' = (IF buf = <<>> THEN <<>> ELSE Tail(buf))
      /\ mixed' = (mixed \/ pending)
      /\ UNCHANGED <<cli_active, cmd_ptr, collected, script, pending>>
  BY DEF cli_execute, Rest
<1>2. CommandTyped'
  <2>1. buf' \in Seq(Keys)
    BY <1>0, <1>1, TailType DEF CommandTyped
  <2>3. cli_command' \in [1..CMD_BUFFER_LEN -> Char]
    BY <1>0, <1>1 DEF CommandTyped, Terminated, Char
  <2>4. mixed' \in BOOLEAN
    BY <1>0, <1>1 DEF CommandTyped
  <2> QED BY <1>0, <1>1, <2>1, <2>3, <2>4 DEF CommandTyped
<1>3. PICK text : Texts(collected, text) /\ Holds(text[Len(collected)])
  BY <1>0 DEF CommandInv, Collecting
<1>4. PICK t : t = text[Len(collected)]
  OBVIOUS
<1>5. \A i \in 1..cmd_ptr : cli_command'[i] = cli_command[i]
  BY <1>0, <1>1, Sizes DEF Terminated
<1>6. Holds(t)'
  BY <1>1, <1>3, <1>4, <1>5 DEF Holds
<1>7. Collecting'
  BY <1>1, <1>3, <1>4, <1>6 DEF Collecting
<1>8. Ended'
  <2>1. cmd_ptr < CMD_BUFFER_LEN => cmd_ptr + 1 \in 1..CMD_BUFFER_LEN
    BY <1>0, Sizes
  <2>2. cmd_ptr < CMD_BUFFER_LEN => cli_command'[cmd_ptr + 1] = NUL
    BY <1>1, <2>1 DEF Terminated
  <2> QED BY <1>1, <2>2 DEF Ended
<1>9. LineThere'
  BY <1>1 DEF CommandInv, LineThere
<1> QED BY <1>2, <1>7, <1>8, <1>9 DEF CommandInv

LEMMA ExecLineStep == ASSUME CommandInv, exec_line PROVE CommandInv'
<1>0. /\ CommandTyped /\ cmd_ptr \in 0..CMD_BUFFER_LEN
      /\ script \in 0..Len(Script) /\ script < Len(Script) /\ at = "idle"
  BY DEF CommandInv, CommandTyped, exec_line
<1>1. PICK i : i = script + 1
  OBVIOUS
<1>2. i \in 1..Len(Script)
  <2>1. Len(Script) \in Nat
    BY TerminalAssumption, LenProperties
  <2> QED BY <1>0, <1>1, <2>1
<1>3. PICK n \in 1..CMD_BUFFER_LEN - 1 : n = Len(Script[i])
  BY <1>2, Lines
<1>4. /\ script' = i /\ pending' = TRUE
      /\ cli_command' = [j \in 1..CMD_BUFFER_LEN |-> IF j <= Written(i) THEN Line(i)[j] ELSE cli_command[j]]
      /\ mixed' = (cli_active /\ cmd_ptr > 0)
      /\ UNCHANGED <<buf, at, cli_active, cmd_ptr, collected>>
  BY <1>1 DEF exec_line, tty
<1>5. /\ \A j \in 1..n : cli_command'[j] = Script[i][j]
      /\ cli_command'[n + 1] = NUL
      /\ \A j \in 1..CMD_BUFFER_LEN : j > n + 1 => cli_command'[j] = cli_command[j]
  <2>1. Written(i) = n + 1
    BY <1>3 DEF Written
  <2>2. \A j \in 1..CMD_BUFFER_LEN : Line(i)[j] = IF j <= n THEN Script[i][j] ELSE NUL
    BY <1>3 DEF Line
  <2>3. \A j \in 1..CMD_BUFFER_LEN :
          cli_command'[j] = IF j <= n + 1 THEN Line(i)[j] ELSE cli_command[j]
    BY <1>4, <2>1
  <2> QED BY <1>3, <2>2, <2>3, Sizes
<1>6. CommandTyped'
  <2>1. \A j \in 1..CMD_BUFFER_LEN : cli_command'[j] \in Char
    <3> SUFFICES ASSUME NEW j \in 1..CMD_BUFFER_LEN PROVE cli_command'[j] \in Char
      OBVIOUS
    <3>1. CASE j <= n
      BY <1>2, <1>3, <1>5, <3>1, Lines DEF Char
    <3>2. CASE j = n + 1
      BY <1>5, <3>2 DEF Char
    <3>3. CASE j > n + 1
      BY <1>0, <1>5, <3>3 DEF CommandTyped
    <3> QED BY <1>3, <3>1, <3>2, <3>3, Sizes
  <2>2. cli_command' = [j \in 1..CMD_BUFFER_LEN |-> cli_command'[j]]
    BY <1>4
  <2>3. cli_command' \in [1..CMD_BUFFER_LEN -> Char]
    BY <2>1, <2>2
  <2>4. mixed' \in BOOLEAN
    BY <1>4
  <2>5. script' \in 0..Len(Script)
    BY <1>2, <1>4
  <2> QED BY <1>0, <1>4, <2>3, <2>4, <2>5 DEF CommandTyped
<1>7. Collecting'
  <2>1. CASE ~cli_active
    BY <1>4, <2>1 DEF Collecting
  <2>2. CASE cli_active
    <3>1. PICK text : Texts(collected, text) /\ Holds(text[Len(collected)])
      BY <2>2 DEF CommandInv, Collecting
    <3>2. PICK t : t = text[Len(collected)]
      OBVIOUS
    <3>3. ~mixed' => ~(cmd_ptr > 0)
      BY <1>4, <2>2, Zenon
    <3>4. ~mixed' => cmd_ptr = 0
      BY <1>0, <3>3
    <3>5. Len(t) = cmd_ptr
      BY <3>1, <3>2 DEF Holds
    <3>6. Holds(t)'
      BY <1>4, <3>4, <3>5 DEF Holds
    <3> QED BY <1>4, <3>1, <3>2, <3>6 DEF Collecting
  <2> QED BY <2>1, <2>2
<1>8. Ended'
  BY <1>0, <1>4 DEF Ended
<1>9. LineThere'
  BY <1>2, <1>3, <1>4, <1>5 DEF LineThere
<1> QED BY <1>6, <1>7, <1>8, <1>9 DEF CommandInv

LEMMA CommandStep == CommandInv /\ [Next]_vars => CommandInv'
<1> SUFFICES ASSUME CommandInv, [Next]_vars PROVE CommandInv'
  OBVIOUS
<1>1. CASE UNCHANGED vars
  BY <1>1, Aside DEF vars, tty, CommandInv, CommandTyped
<1>2. CASE packet
  BY <1>2, PacketStep
<1>3. CASE apple_key
  BY <1>3, AppleKeyStep
<1>4. CASE enter_cli
  BY <1>4, EnterStep
<1>5. CASE backspace
  BY <1>5, BackspaceStep
<1>6. CASE collect
  BY <1>6, CollectStep
<1>7. CASE cli_execute
  BY <1>7, ExecuteStep
<1>8. CASE exec_line
  BY <1>8, ExecLineStep
<1>9. CASE overrun \/ cli_waits \/ command_returns \/ exec_parse \/ keyboard_task \/ apple_reads
  BY <1>9, QuietSteps
<1> QED
  BY <1>1, <1>2, <1>3, <1>4, <1>5, <1>6, <1>7, <1>8, <1>9 DEF Next, tty_task, handle_key

LEMMA CommandAlways == Spec => []CommandInv
BY CommandInit, CommandStep, PTL DEF Spec

\* What both theorems say of the buffer.
LEMMA TextHolds ==
  ASSUME CommandTyped, NEW t \in Seq(Char), Len(t) <= CMD_BUFFER_LEN,
         \A i \in 1..Len(t) : cli_command[i] = t[i] /\ t[i] # NUL,
         Len(t) < CMD_BUFFER_LEN => cli_command[Len(t) + 1] = NUL
  PROVE  Text = t
<1>1. PICK n \in Nat : n = Len(t)
  BY LenProperties
<1>2. n \in 0..CMD_BUFFER_LEN /\ cli_command \in [1..CMD_BUFFER_LEN -> Char]
  BY <1>1, Sizes DEF CommandTyped
<1>3. \A i \in 1..n : cli_command[i] = t[i] /\ cli_command[i] # NUL
  BY <1>1
<1>4. n = CMD_BUFFER_LEN \/ cli_command[n + 1] = NUL
  <2>1. n < CMD_BUFFER_LEN => cli_command[n + 1] = NUL
    BY <1>1
  <2>2. n < CMD_BUFFER_LEN \/ n = CMD_BUFFER_LEN
    BY <1>2, Sizes
  <2> QED BY <2>1, <2>2
<1>5. Text = SubSeq(cli_command, 1, n)
  BY <1>2, <1>3, <1>4, TextIs
<1> DEFINE u == SubSeq(cli_command, 1, n)
<1>6. u \in Seq(Char) /\ Len(u) = n /\ \A i \in 1..n : u[i] = cli_command[i]
  <2>1. /\ 1 \in Int /\ n \in Int /\ n - 1 + 1 = n /\ (IF 1 <= n THEN n - 1 + 1 ELSE 0) = n
        /\ \A i \in 1..n : 1 + i - 1 = i
    BY <1>1
  <2>2. \A i \in 1..n : cli_command[i] \in Char
    <3>1. \A i \in 1..n : i \in 1..CMD_BUFFER_LEN
      BY <1>2, Sizes
    <3> QED BY <1>2, <3>1
  <2>3. /\ u \in Seq(Char) /\ Len(u) = IF 1 <= n THEN n - 1 + 1 ELSE 0
        /\ \A i \in 1..n - 1 + 1 : u[i] = cli_command[1 + i - 1]
    BY <2>1, <2>2, SubSeqProperties
  <2> QED BY <2>1, <2>3
<1> HIDE DEF u
<1>7. u = t
  BY <1>1, <1>3, <1>6, SeqEqual
<1> QED BY <1>5, <1>7 DEF u

NoReturn(s) == \A i \in 1..Len(s) : s[i] # CR

Finished(n) ==
  /\ line[n] = CR /\ \A i \in 1..n - 1 : line[i] # CR
  /\ SubSeq(line, 1, n - 1) = collected

\* What was typed of a command is what cli has taken and what is left of the
\* packet; at its execution, cli has taken all up to the carriage return.
Typing ==
  /\ at = "idle" => buf = <<>>
  /\ at = "past" => ~cli_active
  /\ cli_active /\ at # "command" => line = collected \o buf /\ NoReturn(collected)
  /\ at = "command" => \E n \in 1..Len(line) : Finished(n)

LEMMA TakenKey ==
  ASSUME NEW a \in Seq(Keys), NEW b \in Seq(Keys), b # <<>>, NoReturn(a), Head(b) # CR
  PROVE  Append(a, Head(b)) \o Tail(b) = a \o b /\ NoReturn(Append(a, Head(b)))
<1> DEFINE x == Head(b)
           w == Tail(b)
<1>1. x \in Keys /\ w \in Seq(Keys) /\ <<x>> \in Seq(Keys) /\ <<x>> \o w = b
  BY HeadTailProperties
<1>2. /\ Append(a, x) = a \o <<x>> /\ Len(Append(a, x)) = Len(a) + 1 /\ Len(a) \in Nat
      /\ \A i \in 1..Len(a) : Append(a, x)[i] = a[i]
      /\ Append(a, x)[Len(a) + 1] = x
  BY <1>1, AppendIsConcat, AppendProperties, LenProperties
<1>3. (a \o <<x>>) \o w = a \o (<<x>> \o w)
  BY <1>1, ConcatAssociative
<1>4. x # CR
  OBVIOUS
<1> HIDE DEF x, w
<1>5. NoReturn(Append(a, x))
  <2>1. \A i \in 1..Len(a) + 1 : i \in 1..Len(a) \/ i = Len(a) + 1
    BY <1>2
  <2> QED BY <1>2, <1>4, <2>1 DEF NoReturn
<1>6. Append(a, x) \o w = a \o b
  BY <1>1, <1>2, <1>3
<1> QED BY <1>5, <1>6 DEF x, w

\* A carriage return in front of the parser is the first of the command.
LEMMA FirstReturn ==
  ASSUME NEW a \in Seq(Keys), NEW b \in Seq(Keys), b # <<>>, NoReturn(a), Head(b) = CR
  PROVE  \E n \in 1..Len(a \o b) :
           /\ (a \o b)[n] = CR /\ \A i \in 1..n - 1 : (a \o b)[i] # CR
           /\ SubSeq(a \o b, 1, n - 1) = a
<1> DEFINE t == a \o b
<1>1. /\ t \in Seq(Keys) /\ Len(t) = Len(a) + Len(b)
      /\ \A i \in 1..Len(a) + Len(b) : t[i] = IF i <= Len(a) THEN a[i] ELSE b[i - Len(a)]
  BY ConcatProperties, Zenon
<1>2. PICK m \in Nat : m = Len(a)
  BY LenProperties
<1>3. Len(b) \in Nat /\ Len(b) > 0 /\ b[1] = CR
  BY EmptySeq, LenProperties, HeadTailProperties
<1> HIDE DEF t
<1>4. m + 1 \in 1..Len(t) /\ t[m + 1] = CR /\ \A i \in 1..m : t[i] = a[i] /\ i \in 1..Len(t)
  <2>1. /\ m + 1 \in 1..Len(a) + Len(b) /\ ~(m + 1 <= Len(a)) /\ m + 1 - Len(a) = 1
        /\ \A i \in 1..m : i \in 1..Len(a) + Len(b) /\ i <= Len(a)
    BY <1>2, <1>3
  <2>2. t[m + 1] = b[m + 1 - Len(a)] /\ \A i \in 1..m : t[i] = a[i]
    BY <1>1, <2>1
  <2> QED BY <1>1, <1>3, <2>1, <2>2
<1>5. \A i \in 1..m + 1 - 1 : t[i] # CR
  BY <1>2, <1>4 DEF NoReturn
<1>6. SubSeq(t, 1, m + 1 - 1) = a
  <2> DEFINE u == SubSeq(t, 1, m)
  <2>1. /\ 1 \in Int /\ m \in Int /\ m - 1 + 1 = m /\ (IF 1 <= m THEN m - 1 + 1 ELSE 0) = m
        /\ \A i \in 1..m : 1 + i - 1 = i
    BY <1>2
  <2>2. \A i \in 1..m : t[i] \in Keys
    BY <1>1, <1>4, ElementOfSeq
  <2>3. /\ u \in Seq(Keys) /\ Len(u) = IF 1 <= m THEN m - 1 + 1 ELSE 0
        /\ \A i \in 1..m - 1 + 1 : u[i] = t[1 + i - 1]
    BY <2>1, <2>2, SubSeqProperties
  <2>4. Len(u) = m /\ \A i \in 1..m : u[i] = a[i]
    BY <1>4, <2>1, <2>3
  <2> HIDE DEF u
  <2>5. u = a
    BY <1>2, <2>3, <2>4, SeqEqual
  <2> QED BY <2>1, <2>5 DEF u
<1> QED BY <1>4, <1>5, <1>6 DEF t

LEMMA TypingStep == ~StaleReturn /\ CommandTyped /\ Typing /\ [Next]_vars => Typing'
<1> SUFFICES ASSUME ~StaleReturn, CommandTyped, Typing, [Next]_vars PROVE Typing'
  OBVIOUS
<1>0. buf \in Seq(Keys) /\ collected \in Seq(Keys) /\ (at \in {"cli", "command", "hung"} => cli_active)
  BY DEF CommandTyped
<1>1. CASE UNCHANGED vars
  BY <1>1 DEF vars, tty, Typing, Finished, NoReturn
<1>2. CASE packet
  <2>1. /\ at = "idle" /\ at' = "key" /\ UNCHANGED <<cli_active, collected>>
        /\ line' = IF cli_active THEN line \o buf' ELSE line
    BY <1>2 DEF packet
  <2>2. cli_active => line = collected
    BY <1>0, <2>1, ConcatEmptySeq DEF Typing
  <2> QED BY <2>1, <2>2 DEF Typing, NoReturn
<1>3. CASE apple_key
  <2>1. ~cli_active /\ UNCHANGED cli_active
    BY <1>3 DEF apple_key, Typing
  <2>2. at' = AfterKey /\ buf' = Tail(buf)
    BY <1>3 DEF apple_key
  <2> QED BY <2>1, <2>2 DEF Typing, AfterKey
<1>4. CASE enter_cli
  <2>1. at = "key" /\ at' = "cli" /\ cli_active'
    BY <1>4 DEF enter_cli
  <2>2. CASE cli_active
    BY <1>4, <2>1, <2>2 DEF enter_cli, Typing, NoReturn
  <2>3. CASE ~cli_active
    <3>1. line' = Tail(buf) /\ collected' = <<>> /\ buf' = Tail(buf)
      BY <1>4, <2>3 DEF enter_cli
    <3>2. Tail(buf) \in Seq(Keys)
      BY <1>0, <1>4, TailType DEF enter_cli, CommandTyped
    <3>3. line' = collected' \o buf'
      BY <3>1, <3>2, ConcatEmptySeq
    <3>4. NoReturn(collected)'
      BY <3>1, EmptySeq DEF NoReturn
    <3> QED BY <2>1, <3>3, <3>4 DEF Typing
  <2> QED BY <2>2, <2>3
<1>5. CASE backspace \/ collect
  <2>1. /\ at = "cli" /\ buf # <<>> /\ Head(buf) # CR
        /\ UNCHANGED <<at, cli_active, line>>
        /\ collected' = Append(collected, Head(buf)) /\ buf' = Tail(buf)
    BY <1>5 DEF backspace, collect, BS, CR
  <2>2. line = collected \o buf /\ NoReturn(collected)
    BY <1>0, <2>1 DEF Typing
  <2>3. /\ Append(collected, Head(buf)) \o Tail(buf) = collected \o buf
        /\ NoReturn(Append(collected, Head(buf)))
    BY <1>0, <2>1, <2>2, TakenKey
  <2>4. NoReturn(collected)'
    BY <2>1, <2>3 DEF NoReturn
  <2> QED BY <2>1, <2>2, <2>3, <2>4 DEF Typing
<1>6. CASE overrun \/ cli_waits
  BY <1>0, <1>6 DEF overrun, cli_waits, Typing, NoReturn
<1>7. CASE cli_execute
  <2>1. /\ at = "cli" /\ buf # <<>> /\ Head(buf) = CR
        /\ at' = "command" /\ UNCHANGED <<line, collected>>
    BY <1>7 DEF cli_execute, ReturnLookedAt
  <2>2. line = collected \o buf /\ NoReturn(collected)
    BY <1>0, <2>1 DEF Typing
  <2>3. \E n \in 1..Len(line) : Finished(n)
    BY <1>0, <2>1, <2>2, FirstReturn DEF Finished
  <2> QED BY <2>1, <2>3 DEF Typing, Finished
<1>8. CASE command_returns
  BY <1>8 DEF command_returns, Typing
<1>9. CASE exec_line \/ exec_parse \/ keyboard_task \/ apple_reads
  <2>1. UNCHANGED <<buf, at, cli_active, line, collected>>
    BY <1>9 DEF exec_line, exec_parse, keyboard_task, apple_reads, tty
  <2> QED BY <2>1 DEF Typing, Finished, NoReturn
<1> QED
  BY <1>1, <1>2, <1>3, <1>4, <1>5, <1>6, <1>7, <1>8, <1>9 DEF Next, tty_task, handle_key

\* A typed command is executed when its carriage return was typed, and is all that
\* was typed up to there, edited, however the packets cut it (cli in cli.c), unless
\* exec has put a line in the buffer meanwhile.  The byte behind a packet must not
\* happen to be a carriage return, which cli.c:520 does not make sure of.
THEOREM CommandRight == ~StaleReturn => (Spec => []TypedCommandIntact)
<1> SUFFICES ASSUME ~StaleReturn PROVE Spec => []TypedCommandIntact
  OBVIOUS
<1>1. ASSUME CommandInv, Typing PROVE TypedCommandIntact
  <2> SUFFICES ASSUME at = "command", ~mixed
               PROVE  \E n \in 1..Len(line) :
                        /\ line[n] = CR /\ \A i \in 1..n - 1 : line[i] # CR
                        /\ Text = Edited(SubSeq(line, 1, n - 1))
    BY DEF TypedCommandIntact
  <2>1. CommandTyped /\ cli_active /\ collected \in Seq(Keys) /\ cmd_ptr \in 0..CMD_BUFFER_LEN
    BY <1>1 DEF CommandInv, CommandTyped
  <2>2. PICK text : Texts(collected, text) /\ Holds(text[Len(collected)])
    BY <1>1, <2>1 DEF CommandInv, Collecting
  <2>3. PICK t \in Seq(Keys) : t = text[Len(collected)]
    BY <2>1, <2>2, LenProperties DEF Texts
  <2>4. Edited(collected) = t
    BY <2>1, <2>2, <2>3, EditedIs
  <2>5. Len(t) = cmd_ptr /\ \A i \in 1..cmd_ptr : cli_command[i] = t[i]
    BY <2>2, <2>3 DEF Holds
  <2>6. \A i \in 1..cmd_ptr : t[i] # NUL
    BY <2>3, <2>5, ElementOfSeq, NoNul
  <2>7. cmd_ptr < CMD_BUFFER_LEN => cli_command[cmd_ptr + 1] = NUL
    BY <1>1 DEF CommandInv, Ended
  <2>8. t \in Seq(Char)
    BY <2>3 DEF Char
  <2>9. Len(t) <= CMD_BUFFER_LEN
    BY <2>1, <2>5, Sizes
  <2>10. Text = t
    BY <2>1, <2>5, <2>6, <2>7, <2>8, <2>9, TextHolds
  <2>11. PICK n \in 1..Len(line) : Finished(n)
    BY <1>1 DEF Typing
  <2>12. Text = Edited(SubSeq(line, 1, n - 1))
    BY <2>4, <2>10, <2>11 DEF Finished
  <2> QED BY <2>11, <2>12 DEF Finished
<1>2. Init => Typing
  BY DEF Init, Typing
<1>3. CommandInv /\ Typing /\ [Next]_vars => Typing'
  BY TypingStep DEF CommandInv
<1> QED BY <1>1, <1>2, <1>3, CommandAlways, PTL DEF Spec

\* A line of the script is executed as it stands in the file (exec and fgets in
\* cli.c), unless a command was being typed meanwhile.
THEOREM LineRight == Spec => ScriptLineIntact
<1>1. ASSUME CommandInv, exec_parse, ~mixed PROVE Text = Script[script]
  <2>1. CommandTyped /\ pending /\ script \in 1..Len(Script)
    BY <1>1 DEF CommandInv, exec_parse, LineThere
  <2>2. PICK t \in Seq(STRING) : t = Script[script]
    BY <2>1, Lines
  <2>3. Len(t) \in 1..CMD_BUFFER_LEN - 1 /\ \A j \in 1..Len(t) : t[j] # NUL
    BY <2>1, <2>2, Lines
  <2>4. /\ \A j \in 1..Len(t) : cli_command[j] = t[j]
        /\ cli_command[Len(t) + 1] = NUL
    BY <1>1, <2>1, <2>2 DEF CommandInv, LineThere
  <2>5. t \in Seq(Char) /\ Len(t) <= CMD_BUFFER_LEN
    BY <2>2, <2>3, Sizes DEF Char
  <2>6. Text = t
    BY <2>1, <2>3, <2>4, <2>5, TextHolds
  <2> QED BY <2>2, <2>6
<1>2. CommandInv /\ [Next]_vars => [exec_parse /\ ~mixed => Text = Script[script]]_vars
  BY <1>1
<1> QED BY <1>2, CommandAlways, PTL DEF Spec, ScriptLineIntact

----------------------------------------------------------------------------
(* What keys mean *)

Uppers == {toupper(k) : k \in Keys}
Upper(keys) == [i \in 1..Len(keys) |-> toupper(keys[i])]

\* What the Apple may be given.
Codes ==
  Uppers \cup {ESC, CR, "^H", "^U", "=", "[", "O", "C", "D", "@", "F", "E", "I", "M"}
  \cup {Number(seq).n : seq \in Seq(Uppers)}

Meanings(k, rest) == rest = [i \in 1..Len(k) + 2 |-> Meaning(k, i, rest)]

LEMMA Distinct == ESC # CTRL /\ ESC # BS /\ BS # CTRL /\ BS # ESC
BY DEF ESC, CTRL, BS

LEMMA UpperType ==
  ASSUME NEW keys \in Seq(Keys)
  PROVE  /\ Upper(keys) \in Seq(Uppers) /\ Len(Upper(keys)) = Len(keys)
         /\ \A i \in 1..Len(keys) : Upper(keys)[i] = toupper(keys[i])
<1>1. PICK n \in Nat : n = Len(keys) /\ \A i \in 1..n : keys[i] \in Keys
  BY LenProperties, ElementOfSeq
<1>2. Upper(keys) = [i \in 1..n |-> toupper(keys[i])]
  BY <1>1 DEF Upper
<1>3. \A i \in 1..n : toupper(keys[i]) \in Uppers
  BY <1>1 DEF Uppers
<1>4. Upper(keys) \in [1..n -> Uppers]
  BY <1>2, <1>3
<1>5. Upper(keys) \in Seq(Uppers) /\ Len(Upper(keys)) = n
  BY <1>4
<1> QED BY <1>1, <1>2, <1>5

\* A sequence is over behind its digits, and nowhere else.
IsOver(k, i, j) ==
  /\ j \in i + 2..Len(k) + 1
  /\ j = Len(k) + 1 \/ k[j] \notin Digit
  /\ \A m \in i + 2..j - 1 : k[m] \in Digit

LEMMA OverThere ==
  ASSUME NEW k \in Seq(Uppers), NEW i \in Nat, i + 1 <= Len(k)
  PROVE  IsOver(k, i, Over(k, i))
<1>1. PICK n \in Nat : n = Len(k)
  BY LenProperties
<1> DEFINE S == {j \in i + 2..n + 1 : j = n + 1 \/ k[j] \notin Digit}
<1>2. S \in SUBSET Nat /\ n + 1 \in S
  BY <1>1
<1>3. PICK j \in S : \A m \in S : j <= m
  BY <1>2, Smallest
<1>4. ASSUME NEW m \in i + 2..j - 1 PROVE k[m] \in Digit
  <2>1. m \in i + 2..n + 1 /\ m < j
    BY <1>1, <1>3
  <2>2. m \notin S
    BY <1>3, <2>1
  <2> QED BY <2>1, <2>2
<1>5. IsOver(k, i, j)
  BY <1>1, <1>3, <1>4 DEF IsOver
<1>6. j \in i + 2..Len(k) + 1 /\ (j = Len(k) + 1 \/ k[j] \notin Digit) /\ \A m \in i + 2..j - 1 : k[m] \in Digit
  BY <1>5 DEF IsOver
<1> QED BY <1>6 DEF Over, IsOver

LEMMA OverIs ==
  ASSUME NEW k \in Seq(Uppers), NEW i \in Nat, NEW j, i + 1 <= Len(k), IsOver(k, i, j)
  PROVE  Over(k, i) = j
<1>1. PICK n \in Nat : n = Len(k)
  BY LenProperties
<1>2. PICK o : o = Over(k, i) /\ IsOver(k, i, o)
  BY OverThere
<1>3. o \in Nat /\ j \in Nat /\ o \in i + 2..n + 1 /\ j \in i + 2..n + 1
  BY <1>1, <1>2 DEF IsOver
<1>4. CASE o < j
  <2>1. o \in i + 2..j - 1 /\ o # n + 1
    BY <1>1, <1>3, <1>4
  <2> QED BY <1>1, <1>2, <2>1 DEF IsOver
<1>5. CASE j < o
  <2>1. j \in i + 2..o - 1 /\ j # n + 1
    BY <1>1, <1>3, <1>5
  <2> QED BY <1>1, <1>2, <2>1 DEF IsOver
<1> QED BY <1>2, <1>3, <1>4, <1>5

\* What the keys from one on mean depends on those behind it alone.
LEMMA MeaningLater ==
  ASSUME NEW k \in Seq(Uppers), NEW i \in 1..Len(k) + 2, NEW r, NEW q,
         \A j \in i + 1..Len(k) + 2 : r[j] = q[j]
  PROVE  Meaning(k, i, r) = Meaning(k, i, q)
<1>1. PICK n \in Nat : n = Len(k)
  BY LenProperties
<1>2. i \in Nat /\ i > 0
  BY <1>1
<1>3. CASE i > n
  BY <1>1, <1>3 DEF Meaning
<1>4. CASE ~(i > n)
  <2>1. r[i + 1] = q[i + 1] /\ r[i + 2] = q[i + 2]
    BY <1>1, <1>2, <1>4
  <2>2. i < n => r[Over(k, i) + 1] = q[Over(k, i) + 1] \/ Over(k, i) = n + 1
    <3> SUFFICES ASSUME i < n, Over(k, i) # n + 1 PROVE r[Over(k, i) + 1] = q[Over(k, i) + 1]
      OBVIOUS
    <3>1. PICK o : o = Over(k, i) /\ IsOver(k, i, o)
      BY <1>1, <1>2, OverThere
    <3>2. o + 1 \in i + 1..Len(k) + 2
      BY <1>1, <1>2, <3>1 DEF IsOver
    <3> QED BY <3>1, <3>2
  <2>3. i = n \/ i < n
    BY <1>1, <1>2, <1>4
  <2> QED BY <1>1, <1>4, <2>1, <2>2, <2>3 DEF Meaning
<1> QED BY <1>3, <1>4

LEMMA Listed ==
  /\ ESC \in Codes /\ CR \in Codes /\ "^H" \in Codes /\ "^U" \in Codes /\ "=" \in Codes
  /\ "[" \in Codes /\ "O" \in Codes /\ "C" \in Codes /\ "D" \in Codes /\ "@" \in Codes
  /\ "F" \in Codes /\ "E" \in Codes /\ "I" \in Codes /\ "M" \in Codes
  /\ \A c \in Uppers : c \in Codes
  /\ \A seq \in Seq(Uppers) : Number(seq).n \in Codes
<1>1. \A seq \in Seq(Uppers) : Number(seq).n \in {Number(s).n : s \in Seq(Uppers)}
  OBVIOUS
<1> QED BY <1>1, Zenon DEF Codes

LEMMA One == ASSUME NEW a \in Codes PROVE <<a>> \in Seq(Codes)
OBVIOUS

LEMMA Two == ASSUME NEW a \in Codes, NEW b \in Codes PROVE <<a, b>> \in Seq(Codes)
OBVIOUS

LEMMA ArrowType == ASSUME NEW c \in DOMAIN Arrow PROVE Arrow[c] \in Seq(Codes)
<1>1. c \in {"A", "B", "C", "D", "M", "X", "P", "Q", "R", "S"}
  BY DEF Arrow
<1>2. <<>> \in Seq(Codes)
  OBVIOUS
<1>3. CASE c \in {"P", "Q", "R", "S"}
  <2>1. /\ Arrow["P"] = <<>> /\ Arrow["Q"] = <<>> /\ Arrow["R"] = <<>> /\ Arrow["S"] = <<>>
    BY DEF Arrow
  <2> QED BY <1>2, <1>3, <2>1
<1>4. CASE c = "A"
  BY <1>4, Listed, Two DEF Arrow
<1>5. CASE c = "B"
  BY <1>5, Listed, Two DEF Arrow
<1>6. CASE c = "C"
  BY <1>6, Listed, One DEF Arrow
<1>7. CASE c = "D"
  BY <1>7, Listed, One DEF Arrow
<1>8. CASE c = "M"
  BY <1>8, Listed, One DEF Arrow
<1>9. CASE c = "X"
  BY <1>9, Listed, One DEF Arrow
<1> QED BY <1>1, <1>3, <1>4, <1>5, <1>6, <1>7, <1>8, <1>9

LEMMA TildeType == ASSUME NEW n \in DOMAIN Tilde PROVE Tilde[n] \in Seq(Codes)
<1>1. n \in {1, 2, 3, 4, 5, 6}
  BY DEF Tilde
<1>2. /\ Tilde[1] = <<ESC, "@">> /\ Tilde[2] = <<ESC, "F">> /\ Tilde[3] = <<"^H">>
      /\ Tilde[4] = <<ESC, "E">> /\ Tilde[5] = <<ESC, "I">> /\ Tilde[6] = <<ESC, "M">>
  BY DEF Tilde
<1>3. /\ <<ESC, "@">> \in Seq(Codes) /\ <<ESC, "F">> \in Seq(Codes)
      /\ <<"^H">> \in Seq(Codes) /\ <<ESC, "E">> \in Seq(Codes)
      /\ <<ESC, "I">> \in Seq(Codes) /\ <<ESC, "M">> \in Seq(Codes)
  BY Listed, One, Two
<1> QED BY <1>1, <1>2, <1>3

LEMMA SequenceType ==
  ASSUME NEW seq \in Seq(Uppers), NEW c \in Uppers
  PROVE  Sequence(seq, c) \in Seq(Codes)
<1> DEFINE number == Number(seq)
<1>1. c \in Codes /\ number.n \in Codes /\ <<>> \in Seq(Codes)
  BY Listed
<1> HIDE DEF number
<1> DEFINE flag == IF "[" \in number.flags THEN "[" ELSE "O"
           shown == IF number.n = 0 THEN <<>> ELSE <<number.n>>
<1>2. <<ESC, flag>> \in Seq(Codes)
  <2>1. flag \in Codes
    BY Listed
  <2> QED BY <2>1, Listed, Two
<1>3. shown \in Seq(Codes) /\ <<c>> \in Seq(Codes)
  BY <1>1, One
<1>4. <<ESC, flag>> \o shown \o <<c>> \in Seq(Codes)
  <2> HIDE DEF flag, shown
  <2>1. <<ESC, flag>> \o shown \in Seq(Codes)
    BY <1>2, <1>3, ConcatProperties
  <2> QED BY <1>3, <2>1, ConcatProperties
<1>5. number.n \in DOMAIN Tilde => Tilde[number.n] \in Seq(Codes)
  BY TildeType
<1>6. c \in DOMAIN Arrow => Arrow[c] \in Seq(Codes)
  BY ArrowType
<1> DEFINE a == Arrow[c]
           d == Tilde[number.n]
           e == <<ESC, flag>> \o shown \o <<c>>
<1>7. Sequence(seq, c) =
        IF c \in DOMAIN Arrow THEN a
        ELSE IF c = "~" THEN (IF number.n \in DOMAIN Tilde THEN d ELSE <<>>) ELSE e
  BY Zenon DEF Sequence, number
<1> HIDE DEF a, d, e
<1> QED BY <1>1, <1>4, <1>5, <1>6, <1>7 DEF a, d, e

LEMMA MeaningType ==
  ASSUME NEW k \in Seq(Uppers), NEW i \in 1..Len(k) + 2, NEW r,
         \A j \in i + 1..Len(k) + 2 : r[j] \in Seq(Codes)
  PROVE  Meaning(k, i, r) \in Seq(Codes)
<1>1. PICK n \in Nat : n = Len(k)
  BY LenProperties
<1>2. i \in Nat /\ i > 0
  BY <1>1
<1>3. CASE i > n
  BY <1>1, <1>3 DEF Meaning
<1>4. CASE ~(i > n)
  <2>1. r[i + 1] \in Seq(Codes) /\ r[i + 2] \in Seq(Codes) /\ k[i] \in Uppers
    BY <1>1, <1>2, <1>4, ElementOfSeq
  <2>2. /\ <<>> \in Seq(Codes) /\ <<"^H">> \o r[i + 1] \in Seq(Codes)
        /\ <<k[i]>> \o r[i + 1] \in Seq(Codes)
    <3>1. <<"^H">> \in Seq(Codes) /\ <<k[i]>> \in Seq(Codes)
      BY <2>1, Listed, One
    <3> QED BY <2>1, <3>1, ConcatProperties
  <2>3. CASE i = n
    BY <1>1, <1>4, <2>1, <2>2, <2>3 DEF Meaning
  <2>4. CASE i < n
    <3>1. k[i + 1] \in Uppers
      BY <1>1, <1>2, <2>4, ElementOfSeq
    <3>2. <<ESC, k[i + 1]>> \o r[i + 2] \in Seq(Codes)
      <4>1. <<ESC, k[i + 1]>> \in Seq(Codes)
        BY <3>1, Listed, Two
      <4> QED BY <2>1, <4>1, ConcatProperties
    <3>3. PICK o : o = Over(k, i) /\ IsOver(k, i, o)
      BY <1>1, <1>2, <2>4, OverThere
    <3>4. CASE o = n + 1
      BY <1>1, <1>4, <2>1, <2>2, <2>4, <3>2, <3>3, <3>4 DEF Meaning
    <3>5. CASE o # n + 1
      <4>1. o \in 1..n /\ o + 1 \in i + 1..n + 2 /\ i \in Int /\ o - 1 \in Int
            /\ \A j \in i..o - 1 : j \in 1..n
        <5>1. o \in i + 2..n + 1
          BY <1>1, <3>3 DEF IsOver
        <5>2. o \in Int /\ i + 2 <= o /\ o <= n + 1
          BY <1>2, <5>1
        <5>3. o \in Nat /\ i + 2 <= o /\ o <= n
          BY <1>2, <3>5, <5>2
        <5>4. \A j \in i..o - 1 : j \in 1..n
          BY <1>1, <1>2, <5>3
        <5> QED BY <1>1, <1>2, <5>3, <5>4
      <4>2. SubSeq(k, i, o - 1) \in Seq(Uppers) /\ k[o] \in Uppers
        <5>1. \A j \in i..o - 1 : k[j] \in Uppers
          BY <1>1, <4>1, ElementOfSeq
        <5>2. SubSeq(k, i, o - 1) \in Seq(Uppers)
          BY <4>1, <5>1, SubSeqProperties
        <5> QED BY <1>1, <4>1, <5>2, ElementOfSeq
      <4>3. Sequence(SubSeq(k, i, o - 1), k[o]) \in Seq(Codes) /\ r[o + 1] \in Seq(Codes)
        BY <1>1, <4>1, <4>2, SequenceType
      <4>4. Sequence(SubSeq(k, i, o - 1), k[o]) \o r[o + 1] \in Seq(Codes)
        BY <4>3, ConcatProperties
      <4> QED BY <1>1, <1>4, <2>1, <2>2, <2>4, <3>2, <3>3, <3>5, <4>4 DEF Meaning
    <3> QED BY <3>4, <3>5
  <2> QED BY <1>1, <1>2, <1>4, <2>3, <2>4
<1> QED BY <1>3, <1>4

LEMMA MeaningAt ==
  ASSUME NEW k \in Seq(Uppers), NEW r, Meanings(k, r), NEW i \in 1..Len(k) + 2
  PROVE  r[i] = Meaning(k, i, r)
<1>1. PICK f : f = r /\ f = [j \in 1..Len(k) + 2 |-> Meaning(k, j, r)]
  BY DEF Meanings
<1>2. f[i] = Meaning(k, i, r)
  BY <1>1
<1> QED BY <1>1, <1>2

\* From the right, the meanings can be found one by one.
LEMMA MeaningsThere ==
  ASSUME NEW k \in Seq(Uppers)
  PROVE  \E r \in [1..Len(k) + 2 -> Seq(Codes)] : Meanings(k, r)
<1>1. PICK n \in Nat : n = Len(k)
  BY LenProperties
<1> DEFINE R == [1..n + 2 -> Seq(Codes)]
           Found(d, r) == \A i \in n + 2 - d..n + 2 : r[i] = Meaning(k, i, r)
           S == {d \in Nat : d <= n + 1 => \E r \in R : Found(d, r)}
<1>2. 0 \in S
  <2> DEFINE r == [i \in 1..n + 2 |-> <<>>]
  <2>1. r \in R
    <3>1. <<>> \in Seq(Codes)
      OBVIOUS
    <3> QED BY <3>1
  <2>2. ASSUME NEW i \in n + 2 - 0..n + 2 PROVE r[i] = Meaning(k, i, r)
    <3>1. i > n /\ i \in 1..n + 2
      OBVIOUS
    <3> HIDE DEF r
    <3>2. Meaning(k, i, r) = <<>>
      BY <1>1, <3>1 DEF Meaning
    <3> QED BY <3>1, <3>2 DEF r
  <2> HIDE DEF r, R
  <2>3. Found(0, r)
    BY <2>2
  <2> QED BY <2>1, <2>3
<1>3. ASSUME NEW d \in S PROVE d + 1 \in S
  <2>1. CASE ~(d + 1 <= n + 1)
    BY <2>1
  <2>2. CASE d + 1 <= n + 1
    <3>1. d \in Nat /\ d <= n + 1
      BY <2>2
    <3>2. PICK r \in R : Found(d, r)
      BY <3>1
    <3>3. PICK j \in 1..n + 1 : j = n + 1 - d
      BY <2>2, <3>1
    <3> DEFINE m == Meaning(k, j, r)
               q == [r EXCEPT ![j] = m]
    <3>4. j \in 1..Len(k) + 2 /\ j \in 1..n + 2
      BY <1>1
    <3>5. \A i \in 1..n + 2 : r[i] \in Seq(Codes)
      OBVIOUS
    <3>6. m \in Seq(Codes)
      <4>1. \A i \in j + 1..Len(k) + 2 : r[i] \in Seq(Codes)
        BY <1>1, <3>5
      <4> QED BY <3>4, <4>1, MeaningType
    <3> HIDE DEF m
    <3>7. q \in R /\ q[j] = m /\ \A i \in 1..n + 2 : i # j => q[i] = r[i]
      BY <3>4, <3>6
    <3> HIDE DEF q
    <3>8. ASSUME NEW i \in n + 2 - (d + 1)..n + 2 PROVE q[i] = Meaning(k, i, q)
      <4>1. i \in 1..n + 2 /\ i >= j
        BY <2>2, <3>1, <3>3
      <4>2. i \in 1..Len(k) + 2
        BY <1>1, <4>1
      <4>3. \A l \in i + 1..Len(k) + 2 : r[l] = q[l]
        BY <1>1, <3>3, <3>7, <4>1
      <4>4. Meaning(k, i, r) = Meaning(k, i, q)
        BY <4>2, <4>3, MeaningLater
      <4>5. CASE i = j
        BY <3>7, <4>4, <4>5 DEF m
      <4>6. CASE i # j
        <5>1. i \in n + 2 - d..n + 2
          BY <3>1, <3>3, <4>1, <4>6
        <5>2. r[i] = Meaning(k, i, r)
          BY <3>2, <5>1
        <5> QED BY <3>7, <4>1, <4>4, <4>6, <5>2
      <4> QED BY <4>5, <4>6
    <3> HIDE DEF R
    <3>9. Found(d + 1, q)
      BY <3>8
    <3> QED BY <3>1, <3>7, <3>9
  <2> QED BY <2>1, <2>2
<1>4. n + 1 \in S
  <2>1. S \in SUBSET Nat
    OBVIOUS
  <2> HIDE DEF S
  <2> QED BY <1>2, <1>3, <2>1, Induction
<1>5. PICK r \in R : Found(n + 1, r)
  BY <1>4
<1>6. \A i \in 1..n + 2 : r[i] = Meaning(k, i, r)
  BY <1>5
<1>7. r = [i \in 1..n + 2 |-> r[i]]
  OBVIOUS
<1>8. [i \in 1..n + 2 |-> r[i]] = [i \in 1..n + 2 |-> Meaning(k, i, r)]
  BY <1>6
<1>9. Meanings(k, r)
  BY <1>1, <1>7, <1>8 DEF Meanings
<1> QED BY <1>1, <1>9

\* There is one such row of meanings.
LEMMA MeaningsSame ==
  ASSUME NEW k \in Seq(Uppers), NEW r, NEW q, Meanings(k, r), Meanings(k, q),
         NEW i \in 1..Len(k) + 2
  PROVE  r[i] = q[i]
<1>1. PICK n \in Nat : n = Len(k)
  BY LenProperties
<1> DEFINE S == {d \in Nat : d <= n + 1 => \A j \in n + 2 - d..n + 2 : r[j] = q[j]}
<1>2. ASSUME NEW j \in 1..n + 2, \A l \in j + 1..n + 2 : r[l] = q[l] PROVE r[j] = q[j]
  <2>1. j \in 1..Len(k) + 2 /\ \A l \in j + 1..Len(k) + 2 : r[l] = q[l]
    BY <1>1, <1>2
  <2>2. Meaning(k, j, r) = Meaning(k, j, q)
    BY <2>1, MeaningLater
  <2>3. r[j] = Meaning(k, j, r) /\ q[j] = Meaning(k, j, q)
    BY <2>1, MeaningAt
  <2> QED BY <2>2, <2>3
<1>3. 0 \in S
  <2>1. ASSUME NEW j \in n + 2 - 0..n + 2 PROVE r[j] = q[j]
    <3>1. j \in 1..n + 2 /\ \A l \in j + 1..n + 2 : r[l] = q[l]
      OBVIOUS
    <3> QED BY <1>2, <3>1
  <2> QED BY <2>1
<1>4. ASSUME NEW d \in S PROVE d + 1 \in S
  <2> SUFFICES ASSUME d + 1 <= n + 1, NEW j \in n + 2 - (d + 1)..n + 2 PROVE r[j] = q[j]
    OBVIOUS
  <2>1. d \in Nat /\ d <= n + 1 /\ j \in 1..n + 2
    OBVIOUS
  <2>2. \A l \in n + 2 - d..n + 2 : r[l] = q[l]
    BY <2>1
  <2>3. \A l \in j + 1..n + 2 : l \in n + 2 - d..n + 2
    BY <2>1
  <2> QED BY <1>2, <2>1, <2>2, <2>3
<1>5. n + 1 \in S
  <2>1. S \in SUBSET Nat
    OBVIOUS
  <2> HIDE DEF S
  <2> QED BY <1>3, <1>4, <2>1, Induction
<1>6. \A j \in 1..n + 2 : r[j] = q[j]
  BY <1>5
<1> QED BY <1>1, <1>6

LEMMA MeaningsType ==
  ASSUME NEW k \in Seq(Uppers), NEW r, Meanings(k, r), NEW i \in 1..Len(k) + 2
  PROVE  r[i] \in Seq(Codes)
<1>1. PICK q \in [1..Len(k) + 2 -> Seq(Codes)] : Meanings(k, q)
  BY MeaningsThere
<1>2. r[i] = q[i]
  BY <1>1, MeaningsSame
<1> QED BY <1>1, <1>2

LEMMA TranslateIs ==
  ASSUME NEW keys \in Seq(Keys)
  PROVE  \E r : Meanings(Upper(keys), r) /\ Translate(keys) = r[1]
<1> DEFINE k == [i \in 1..Len(keys) |-> toupper(keys[i])]
           Is(r) == r = [i \in 1..Len(keys) + 2 |-> Meaning(k, i, r)]
           chosen == CHOOSE r : Is(r)
<1>1. Translate(keys) = chosen[1]
  BY DEF Translate
<1>2. k = Upper(keys)
  BY DEF Upper
<1>3. Upper(keys) \in Seq(Uppers) /\ Len(Upper(keys)) = Len(keys)
  BY UpperType
<1>4. \A r : Is(r) <=> Meanings(Upper(keys), r)
  BY <1>2, <1>3 DEF Meanings
<1> HIDE DEF Is
<1>5. \E r : Is(r)
  BY <1>3, <1>4, MeaningsThere
<1>6. Is(chosen)
  BY <1>5
<1> HIDE DEF chosen
<1> QED BY <1>1, <1>4, <1>6

----------------------------------------------------------------------------
(* What has been given *)

\* ESC, a bracket or an O, digits.
Begun(esc) ==
  /\ Len(esc) >= 1 => esc[1] = ESC
  /\ Len(esc) >= 2 => esc[2] \in {"[", "O"}
  /\ \A i \in 3..Len(esc) : esc[i] \in Digit

\* Of the keys, the last ones have begun a sequence, and the rest has been given,
\* whatever is typed next.
Follows(keys, esc, gave) ==
  /\ keys \in Seq(Keys) /\ esc \in Seq(Uppers) /\ gave \in Seq(Codes)
  /\ Begun(esc) /\ Len(esc) <= Len(keys)
  /\ \A i \in 1..Len(esc) : esc[i] = toupper(keys[Len(keys) - Len(esc) + i])
  /\ \A more \in Seq(Keys) : \A r :
       Meanings(Upper(keys \o more), r) => r[1] = gave \o r[Len(keys) + 1 - Len(esc)]

LEMMA FollowsNone == Follows(<<>>, <<>>, <<>>)
<1>1. <<>> \in Seq(Keys) /\ <<>> \in Seq(Uppers) /\ <<>> \in Seq(Codes) /\ Len(<<>>) = 0
  OBVIOUS
<1>2. Begun(<<>>)
  BY <1>1 DEF Begun
<1>3. ASSUME NEW more \in Seq(Keys), NEW r, Meanings(Upper(<<>> \o more), r)
      PROVE  r[1] = <<>> \o r[0 + 1 - 0]
  <2>1. PICK k \in Seq(Uppers) : k = Upper(<<>> \o more)
    BY <1>1, ConcatProperties, UpperType
  <2>2. 1 \in 1..Len(k) + 2
    BY <2>1, LenProperties
  <2>3. PICK codes \in Seq(Codes) : codes = r[1]
    BY <1>3, <2>1, <2>2, MeaningsType
  <2>4. <<>> \o codes = codes
    BY ConcatEmptySeq
  <2> QED BY <2>3, <2>4
<1> QED BY <1>1, <1>2, <1>3 DEF Follows

LEMMA LongerKeys ==
  ASSUME NEW s \in Seq(Keys), NEW x \in Keys
  PROVE  /\ Append(s, x) \in Seq(Keys) /\ Len(Append(s, x)) = Len(s) + 1
         /\ Append(s, x)[Len(s) + 1] = x /\ \A i \in 1..Len(s) : Append(s, x)[i] = s[i]
BY AppendProperties

LEMMA LongerEsc ==
  ASSUME NEW s \in Seq(Uppers), NEW x \in Uppers
  PROVE  /\ Append(s, x) \in Seq(Uppers) /\ Len(Append(s, x)) = Len(s) + 1
         /\ Append(s, x)[Len(s) + 1] = x /\ \A i \in 1..Len(s) : Append(s, x)[i] = s[i]
BY AppendProperties

LEMMA CodesJoin ==
  ASSUME NEW s \in Seq(Codes), NEW t \in Seq(Codes), NEW u \in Seq(Codes)
  PROVE  (s \o t) \o u = s \o (t \o u)
BY ConcatAssociative

\* A key more: the keys as they are when all is typed.
Look(keys, esc, gave, key, more, k, n, e) ==
  /\ k = Upper(Append(keys, key) \o more) /\ n = Len(keys) /\ e = Len(esc)
  /\ e <= n /\ n + 1 <= Len(k) /\ k[n + 1] = toupper(key)
  /\ \A i \in 1..e : k[n - e + i] = esc[i]
  /\ \A r : Meanings(k, r) => r[1] = gave \o r[n + 1 - e]

LEMMA FollowsLook ==
  ASSUME NEW keys, NEW esc, NEW gave, Follows(keys, esc, gave),
         NEW key \in Keys, NEW more \in Seq(Keys)
  PROVE  \E k \in Seq(Uppers), n \in Nat, e \in Nat : Look(keys, esc, gave, key, more, k, n, e)
<1>1. /\ keys \in Seq(Keys) /\ esc \in Seq(Uppers) /\ Len(esc) <= Len(keys)
      /\ \A i \in 1..Len(esc) : esc[i] = toupper(keys[Len(keys) - Len(esc) + i])
  BY DEF Follows
<1>2. PICK n \in Nat : n = Len(keys)
  BY <1>1, LenProperties
<1>3. PICK e \in Nat : e = Len(esc)
  BY <1>1, LenProperties
<1>4. PICK q \in Seq(Keys) :
        q = Append(keys, key) /\ Len(q) = n + 1 /\ q[n + 1] = key /\ \A i \in 1..n : q[i] = keys[i]
  BY <1>1, <1>2, LongerKeys, Zenon
<1>5. PICK m \in Nat : m = Len(more)
  BY LenProperties
<1>6. PICK all \in Seq(Keys) :
        /\ all = q \o more /\ Len(all) = n + 1 + m
        /\ \A i \in 1..n + 1 : all[i] = q[i]
  <2>1. /\ q \o more \in Seq(Keys) /\ Len(q \o more) = Len(q) + Len(more)
        /\ \A i \in 1..Len(q) + Len(more) : (q \o more)[i] = IF i <= Len(q) THEN q[i] ELSE more[i - Len(q)]
    BY ConcatProperties
  <2>2. \A i \in 1..n + 1 : i \in 1..Len(q) + Len(more) /\ i <= Len(q)
    BY <1>4, <1>5
  <2> QED BY <1>4, <1>5, <2>1, <2>2
<1>7. PICK k \in Seq(Uppers) :
        k = Upper(all) /\ Len(k) = n + 1 + m /\ \A i \in 1..n + 1 + m : k[i] = toupper(all[i])
  BY <1>6, UpperType
<1>8. n + 1 <= Len(k) /\ k[n + 1] = toupper(key)
  <2>1. n + 1 \in 1..n + 1 /\ n + 1 \in 1..n + 1 + m
    OBVIOUS
  <2> QED BY <1>4, <1>5, <1>6, <1>7, <2>1
<1>9. ASSUME NEW i \in 1..e PROVE k[n - e + i] = esc[i]
  <2>1. n - e + i \in 1..n /\ n - e + i \in 1..n + 1 /\ n - e + i \in 1..n + 1 + m
    BY <1>1, <1>2, <1>3
  <2>2. PICK l \in 1..n : l = n - e + i
    BY <2>1
  <2>3. k[l] = toupper(all[l]) /\ all[l] = q[l] /\ q[l] = keys[l]
    BY <1>4, <1>6, <1>7, <2>1, <2>2
  <2>4. esc[i] = toupper(keys[l])
    BY <1>1, <1>2, <1>3, <2>2
  <2> QED BY <2>2, <2>3, <2>4
<1>10. ASSUME NEW r, Meanings(k, r) PROVE r[1] = gave \o r[n + 1 - e]
  <2>1. <<key>> \in Seq(Keys)
    OBVIOUS
  <2>2. PICK next \in Seq(Keys) : next = <<key>> \o more
    BY <2>1, ConcatProperties
  <2>3. q = keys \o <<key>>
    BY <1>1, <1>4, AppendIsConcat
  <2>4. all = keys \o next
    BY <1>1, <1>6, <2>1, <2>2, <2>3, ConcatAssociative
  <2>5. Meanings(Upper(keys \o next), r)
    BY <1>7, <1>10, <2>4
  <2>6. r[1] = gave \o r[Len(keys) + 1 - Len(esc)]
    BY <2>5 DEF Follows
  <2> QED BY <1>2, <1>3, <2>6
<1>11. e <= n
  BY <1>1, <1>2, <1>3
<1>12. Look(keys, esc, gave, key, more, k, n, e)
  BY <1>2, <1>3, <1>4, <1>6, <1>7, <1>8, <1>9, <1>10, <1>11, Zenon DEF Look
<1> QED BY <1>12

\* The sequence goes on with the key.
LEMMA FollowsWait ==
  ASSUME NEW keys, NEW esc, NEW gave, Follows(keys, esc, gave),
         NEW key \in Keys, Begun(Append(esc, toupper(key)))
  PROVE  Follows(Append(keys, key), Append(esc, toupper(key)), gave)
<1>1. /\ keys \in Seq(Keys) /\ esc \in Seq(Uppers) /\ gave \in Seq(Codes) /\ Len(esc) <= Len(keys)
      /\ \A i \in 1..Len(esc) : esc[i] = toupper(keys[Len(keys) - Len(esc) + i])
  BY DEF Follows
<1>2. PICK n \in Nat : n = Len(keys)
  BY <1>1, LenProperties
<1>3. PICK e \in Nat : e = Len(esc)
  BY <1>1, LenProperties
<1>4. PICK q \in Seq(Keys) :
        q = Append(keys, key) /\ Len(q) = n + 1 /\ q[n + 1] = key /\ \A i \in 1..n : q[i] = keys[i]
  BY <1>1, <1>2, LongerKeys, Zenon
<1>5. PICK c \in Uppers : c = toupper(key)
  BY DEF Uppers
<1>6. PICK f \in Seq(Uppers) :
        f = Append(esc, c) /\ Len(f) = e + 1 /\ f[e + 1] = c /\ \A i \in 1..e : f[i] = esc[i]
  BY <1>1, <1>3, LongerEsc, Zenon
<1>7. e <= n
  BY <1>1, <1>2, <1>3
<1>8. ASSUME NEW i \in 1..e + 1 PROVE f[i] = toupper(q[(n + 1) - (e + 1) + i])
  <2>1. CASE i = e + 1
    <3>1. (n + 1) - (e + 1) + i = n + 1
      BY <2>1
    <3> QED BY <1>4, <1>5, <1>6, <2>1, <3>1
  <2>2. CASE i # e + 1
    <3>1. i \in 1..e /\ (n + 1) - (e + 1) + i = n - e + i /\ n - e + i \in 1..n
      BY <1>7, <2>2
    <3>2. esc[i] = toupper(keys[n - e + i])
      BY <1>1, <1>2, <1>3, <3>1
    <3> QED BY <1>4, <1>6, <3>1, <3>2
  <2> QED BY <2>1, <2>2
<1>9. ASSUME NEW more \in Seq(Keys), NEW r, Meanings(Upper(q \o more), r)
      PROVE  r[1] = gave \o r[(n + 1) + 1 - (e + 1)]
  <2>1. PICK k \in Seq(Uppers), n1 \in Nat, e1 \in Nat :
          Look(keys, esc, gave, key, more, k, n1, e1)
    BY FollowsLook
  <2>2. r[1] = gave \o r[n + 1 - e]
    BY <1>2, <1>3, <1>4, <1>9, <2>1, Zenon DEF Look
  <2>3. (n + 1) + 1 - (e + 1) = n + 1 - e
    OBVIOUS
  <2> QED BY <2>2, <2>3
<1>10. e + 1 <= n + 1
  BY <1>7
<1>11. Begun(f)
  BY <1>5, <1>6
<1>12. Follows(q, f, gave)
  BY <1>1, <1>4, <1>6, <1>8, <1>9, <1>10, <1>11 DEF Follows
<1> QED BY <1>4, <1>5, <1>6, <1>12

\* The sequence, or a key alone, is over and is given its codes.
LEMMA FollowsOver ==
  ASSUME NEW keys, NEW esc, NEW gave, Follows(keys, esc, gave),
         NEW key \in Keys, NEW codes \in Seq(Codes),
         \A more \in Seq(Keys) : \A r :
           Meanings(Upper(Append(keys, key) \o more), r) =>
             r[Len(keys) + 1 - Len(esc)] = codes \o r[Len(keys) + 2]
  PROVE  Follows(Append(keys, key), <<>>, gave \o codes)
<1>1. keys \in Seq(Keys) /\ esc \in Seq(Uppers) /\ gave \in Seq(Codes)
  BY DEF Follows
<1>2. PICK n \in Nat : n = Len(keys)
  BY <1>1, LenProperties
<1>4. PICK q \in Seq(Keys) : q = Append(keys, key) /\ Len(q) = n + 1
  BY <1>1, <1>2, LongerKeys, Zenon
<1>5. <<>> \in Seq(Uppers) /\ Len(<<>>) = 0
  OBVIOUS
<1>6. Begun(<<>>)
  BY <1>5 DEF Begun
<1>7. PICK now \in Seq(Codes) : now = gave \o codes
  BY <1>1, ConcatProperties
<1>8. ASSUME NEW more \in Seq(Keys), NEW r, Meanings(Upper(q \o more), r)
      PROVE  r[1] = now \o r[(n + 1) + 1 - 0]
  <2>1. PICK k \in Seq(Uppers), n1 \in Nat, e1 \in Nat :
          Look(keys, esc, gave, key, more, k, n1, e1)
    BY FollowsLook
  <2>2. /\ k = Upper(q \o more) /\ n1 = Len(keys) /\ e1 = Len(esc) /\ n1 + 1 <= Len(k)
        /\ Meanings(k, r) => r[1] = gave \o r[n1 + 1 - e1]
    BY <1>4, <2>1, Zenon DEF Look
  <2>3. Meanings(k, r)
    BY <1>8, <2>2
  <2>4. r[1] = gave \o r[n1 + 1 - e1]
    BY <2>2, <2>3
  <2>5. r[n1 + 1 - e1] = codes \o r[n1 + 2]
    BY <1>4, <1>8, <2>2
  <2>6. PICK l \in Nat : l = Len(k)
    BY LenProperties
  <2>7. n + 2 \in 1..Len(k) + 2 /\ n1 = n /\ (n + 1) + 1 - 0 = n + 2
    BY <1>2, <2>2, <2>6
  <2>8. PICK rest \in Seq(Codes) : rest = r[n + 2]
    BY <2>7, <2>3, MeaningsType
  <2>9. (gave \o codes) \o rest = gave \o (codes \o rest)
    BY <1>1, CodesJoin, Zenon
  <2> QED BY <1>7, <2>4, <2>5, <2>7, <2>8, <2>9
<1>9. \A i \in 1..0 : FALSE
  OBVIOUS
<1>10. 0 <= n + 1
  OBVIOUS
<1>11. Follows(q, <<>>, now)
  BY <1>4, <1>5, <1>6, <1>8, <1>9, <1>10 DEF Follows
<1> QED BY <1>4, <1>7, <1>11

Alone(c) == IF c = CTRL THEN <<>> ELSE IF c = BS THEN <<"^H">> ELSE <<c>>

LEMMA AloneType == ASSUME NEW c \in Uppers PROVE Alone(c) \in Seq(Codes)
<1>1. <<>> \in Seq(Codes) /\ <<"^H">> \in Seq(Codes) /\ <<c>> \in Seq(Codes)
  BY Listed, One
<1> QED BY <1>1 DEF Alone

LEMMA FollowsAlone ==
  ASSUME NEW keys, NEW gave, Follows(keys, <<>>, gave), NEW key \in Keys, toupper(key) # ESC
  PROVE  Follows(Append(keys, key), <<>>, gave \o Alone(toupper(key)))
<1>1. PICK c \in Uppers : c = toupper(key)
  BY DEF Uppers
<1>2. ASSUME NEW more \in Seq(Keys), NEW r, Meanings(Upper(Append(keys, key) \o more), r)
      PROVE  r[Len(keys) + 1 - Len(<<>>)] = Alone(c) \o r[Len(keys) + 2]
  <2>1. PICK k \in Seq(Uppers), n \in Nat, e \in Nat : Look(keys, <<>>, gave, key, more, k, n, e)
    BY FollowsLook
  <2>2. /\ k = Upper(Append(keys, key) \o more) /\ n = Len(keys) /\ e = Len(<<>>)
        /\ n + 1 <= Len(k) /\ k[n + 1] = c
    BY <1>1, <2>1, Zenon DEF Look
  <2>3. PICK l \in Nat : l = Len(k)
    BY LenProperties
  <2>4. PICK i \in 1..l : i = n + 1
    BY <2>2, <2>3
  <2>5. e = 0 /\ i = n + 1 - e /\ i + 1 = n + 2 /\ ~(i > l) /\ i \in 1..Len(k) + 2 /\ i + 1 \in 1..Len(k) + 2
    BY <2>2, <2>3, <2>4
  <2>6. Meanings(k, r)
    BY <1>2, <2>2
  <2>7. PICK rest \in Seq(Codes) : rest = r[i + 1]
    BY <2>5, <2>6, MeaningsType
  <2>8. r[i] = Meaning(k, i, r)
    BY <2>5, <2>6, MeaningAt
  <2>9. Meaning(k, i, r) = Alone(c) \o rest
    <3>1. k[i] = c /\ c # ESC
      BY <1>1, <2>2, <2>4
    <3>2. <<>> \o rest = rest
      BY ConcatEmptySeq
    <3> QED BY <2>3, <2>5, <2>7, <3>1, <3>2 DEF Meaning, Alone
  <2> QED BY <2>2, <2>5, <2>7, <2>8, <2>9
<1>3. Alone(c) \in Seq(Codes)
  BY AloneType
<1>4. Follows(Append(keys, key), <<>>, gave \o Alone(c))
  BY <1>2, <1>3, FollowsOver
<1> QED BY <1>1, <1>4

LEMMA FollowsPair ==
  ASSUME NEW keys, NEW gave, Follows(keys, <<ESC>>, gave),
         NEW key \in Keys, toupper(key) \notin {"[", "O"}
  PROVE  Follows(Append(keys, key), <<>>, gave \o <<ESC, toupper(key)>>)
<1>1. PICK c \in Uppers : c = toupper(key)
  BY DEF Uppers
<1>2. ASSUME NEW more \in Seq(Keys), NEW r, Meanings(Upper(Append(keys, key) \o more), r)
      PROVE  r[Len(keys) + 1 - Len(<<ESC>>)] = <<ESC, c>> \o r[Len(keys) + 2]
  <2>1. PICK k \in Seq(Uppers), n \in Nat, e \in Nat : Look(keys, <<ESC>>, gave, key, more, k, n, e)
    BY FollowsLook
  <2>2. /\ k = Upper(Append(keys, key) \o more) /\ n = Len(keys) /\ e = Len(<<ESC>>)
        /\ e <= n /\ n + 1 <= Len(k) /\ k[n + 1] = c
        /\ \A i \in 1..e : k[n - e + i] = <<ESC>>[i]
    BY <1>1, <2>1, Zenon DEF Look
  <2>3. PICK l \in Nat : l = Len(k)
    BY LenProperties
  <2>4. e = 1 /\ <<ESC>>[1] = ESC
    BY <2>2
  <2>5. PICK i \in 1..l : i = n
    BY <2>2, <2>3, <2>4
  <2>6. /\ i = n + 1 - e /\ i + 2 = n + 2 /\ ~(i > l) /\ i # l /\ i \in 1..Len(k) + 2
        /\ i + 1 = n + 1 /\ 1 \in 1..e /\ n - e + 1 = i
    BY <2>2, <2>3, <2>5, <2>4
  <2>7. Meanings(k, r)
    BY <1>2, <2>2
  <2>8. r[i] = Meaning(k, i, r)
    BY <2>6, <2>7, MeaningAt
  <2>9. Meaning(k, i, r) = <<ESC, c>> \o r[i + 2]
    <3>1. k[i] = ESC /\ k[i + 1] = c /\ c \notin {"[", "O"}
      BY <1>1, <2>2, <2>6, <2>4
    <3> QED BY <2>3, <2>6, <3>1, Distinct DEF Meaning
  <2> QED BY <2>2, <2>6, <2>8, <2>9
<1>3. <<ESC, c>> \in Seq(Codes)
  BY Listed, Two
<1>4. Follows(Append(keys, key), <<>>, gave \o <<ESC, c>>)
  BY <1>2, <1>3, FollowsOver
<1> QED BY <1>1, <1>4

\* The sequence that has begun, where it stands in the keys.
Ends(k, esc, n, e) ==
  /\ e = Len(esc) /\ e >= 2 /\ e <= n /\ n <= Len(k) /\ Begun(esc)
  /\ \A i \in 1..e : k[n - e + i] = esc[i]

Begins(k, esc, n, e, i) ==
  /\ i = n + 1 - e /\ i > 0 /\ i + 1 <= n
  /\ k[i] = ESC /\ k[i + 1] \in {"[", "O"} /\ \A m \in i + 2..n : k[m] \in Digit
  /\ SubSeq(k, i, n) = esc

LEMMA Stands ==
  ASSUME NEW k \in Seq(Uppers), NEW esc \in Seq(Uppers), NEW n \in Nat, NEW e \in Nat,
         Ends(k, esc, n, e)
  PROVE  \E i \in Nat : Begins(k, esc, n, e, i)
<1>0. /\ e = Len(esc) /\ e >= 2 /\ e <= n /\ n <= Len(k) /\ Begun(esc)
      /\ \A i \in 1..e : k[n - e + i] = esc[i]
  BY DEF Ends
<1>1. PICK i \in Nat : i = n + 1 - e
  BY <1>0
<1>2. i > 0 /\ i + 1 <= n
  BY <1>0, <1>1
<1>3. \A j \in 1..e : k[i + j - 1] = esc[j]
  <2>1. \A j \in 1..e : n - e + j = i + j - 1
    BY <1>1
  <2> QED BY <1>0, <2>1
<1>4. k[i] = esc[1] /\ k[i + 1] = esc[2]
  <2>1. 1 \in 1..e /\ 2 \in 1..e /\ i + 1 - 1 = i /\ i + 2 - 1 = i + 1
    BY <1>0
  <2> QED BY <1>3, <2>1
<1>5. k[i] = ESC /\ k[i + 1] \in {"[", "O"}
  BY <1>0, <1>4 DEF Begun
<1>6. ASSUME NEW m \in i + 2..n PROVE k[m] \in Digit
  <2>1. PICK j \in 3..e : m = i + j - 1
    <3>1. m - i + 1 \in 3..e /\ m = i + (m - i + 1) - 1
      BY <1>1
    <3> QED BY <3>1
  <2>2. k[m] = esc[j] /\ esc[j] \in Digit
    BY <1>0, <1>3, <2>1 DEF Begun
  <2> QED BY <2>2
<1>7. SubSeq(k, i, n) = esc
  <2> DEFINE u == SubSeq(k, i, n)
  <2>1. PICK l \in Nat : l = Len(k)
    BY LenProperties
  <2>2. \A j \in i..n : j \in 1..Len(k)
    BY <1>0, <1>2, <2>1
  <2>3. \A j \in i..n : k[j] \in Uppers
    BY <2>2, ElementOfSeq
  <2>4. i \in Int /\ n \in Int /\ n - i + 1 = e /\ (IF i <= n THEN n - i + 1 ELSE 0) = e
    BY <1>1, <1>2
  <2>5. u \in Seq(Uppers) /\ Len(u) = e /\ \A j \in 1..e : u[j] = k[i + j - 1]
    <3>1. /\ u \in Seq(Uppers) /\ Len(u) = (IF i <= n THEN n - i + 1 ELSE 0)
          /\ \A j \in 1..n - i + 1 : u[j] = k[i + j - 1]
      BY <2>3, <2>4, SubSeqProperties
    <3> QED BY <2>4, <3>1
  <2> HIDE DEF u
  <2>6. u = esc
    BY <1>0, <1>3, <2>5, SeqEqual
  <2> QED BY <2>6 DEF u
<1> QED BY <1>1, <1>2, <1>5, <1>6, <1>7 DEF Begins

LEMMA FollowsSequence ==
  ASSUME NEW keys, NEW esc, NEW gave, Follows(keys, esc, gave), Len(esc) >= 2,
         NEW key \in Keys, toupper(key) \notin Digit
  PROVE  Follows(Append(keys, key), <<>>, gave \o Sequence(esc, toupper(key)))
<1>1. PICK c \in Uppers : c = toupper(key)
  BY DEF Uppers
<1>2. esc \in Seq(Uppers) /\ Begun(esc)
  BY DEF Follows
<1>3. ASSUME NEW more \in Seq(Keys), NEW r, Meanings(Upper(Append(keys, key) \o more), r)
      PROVE  r[Len(keys) + 1 - Len(esc)] = Sequence(esc, c) \o r[Len(keys) + 2]
  <2>1. PICK k \in Seq(Uppers), n \in Nat, e \in Nat : Look(keys, esc, gave, key, more, k, n, e)
    BY FollowsLook
  <2>2. /\ k = Upper(Append(keys, key) \o more) /\ n = Len(keys) /\ e = Len(esc)
        /\ e <= n /\ n + 1 <= Len(k) /\ k[n + 1] = c
        /\ \A i \in 1..e : k[n - e + i] = esc[i]
    BY <1>1, <2>1, Zenon DEF Look
  <2>3. PICK l \in Nat : l = Len(k)
    BY LenProperties
  <2>4. e >= 2 /\ n <= Len(k)
    BY <2>2, <2>3
  <2>5. PICK i \in Nat :
          /\ i = n + 1 - e /\ i > 0 /\ i + 1 <= n
          /\ k[i] = ESC /\ k[i + 1] \in {"[", "O"} /\ \A m \in i + 2..n : k[m] \in Digit
          /\ SubSeq(k, i, n) = esc
    <3>1. Ends(k, esc, n, e)
      BY <1>2, <2>2, <2>4 DEF Ends
    <3>2. PICK i \in Nat : Begins(k, esc, n, e, i)
      BY <1>2, <3>1, Stands
    <3> QED BY <3>2, Zenon DEF Begins
  <2>6. Over(k, i) = n + 1
    <3>1. n + 1 \in i + 2..Len(k) + 1 /\ (n + 1) - 1 = n /\ i + 1 <= Len(k)
      BY <2>2, <2>3, <2>5
    <3>2. k[n + 1] \notin Digit
      BY <1>1, <2>2
    <3>3. IsOver(k, i, n + 1)
      BY <2>5, <3>1, <3>2 DEF IsOver
    <3> QED BY <3>1, <3>3, OverIs
  <2>7. Meanings(k, r)
    BY <1>3, <2>2
  <2>8. /\ i \in 1..Len(k) + 2 /\ ~(i > Len(k)) /\ i # Len(k) /\ n + 1 # Len(k) + 1
        /\ (n + 1) - 1 = n /\ (n + 1) + 1 = n + 2
    BY <2>2, <2>3, <2>5
  <2>9. r[i] = Meaning(k, i, r)
    BY <2>7, <2>8, MeaningAt
  <2>10. Meaning(k, i, r) = Sequence(SubSeq(k, i, Over(k, i) - 1), k[Over(k, i)]) \o r[Over(k, i) + 1]
    <3>1. k[i] # CTRL /\ k[i] # BS /\ k[i] = ESC
      BY <2>5, Distinct
    <3>2. Over(k, i) # Len(k) + 1
      BY <2>6, <2>8
    <3> QED BY <2>5, <2>8, <3>1, <3>2, Zenon DEF Meaning
  <2>11. Meaning(k, i, r) = Sequence(esc, c) \o r[n + 2]
    BY <2>2, <2>5, <2>6, <2>8, <2>10
  <2> QED BY <2>2, <2>5, <2>9, <2>11
<1>4. Sequence(esc, c) \in Seq(Codes)
  BY <1>2, SequenceType
<1>5. Follows(Append(keys, key), <<>>, gave \o Sequence(esc, c))
  BY <1>3, <1>4, FollowsOver
<1> QED BY <1>1, <1>5

\* With nothing more typed, what has begun means nothing yet.
LEMMA FollowsEnd ==
  ASSUME NEW keys, NEW esc, NEW gave, Follows(keys, esc, gave)
  PROVE  gave = Translate(keys)
<1>1. /\ keys \in Seq(Keys) /\ esc \in Seq(Uppers) /\ gave \in Seq(Codes)
      /\ Begun(esc) /\ Len(esc) <= Len(keys)
      /\ \A i \in 1..Len(esc) : esc[i] = toupper(keys[Len(keys) - Len(esc) + i])
  BY DEF Follows
<1>2. PICK r : Meanings(Upper(keys), r) /\ Translate(keys) = r[1]
  BY <1>1, TranslateIs
<1>3. PICK n \in Nat : n = Len(keys)
  BY <1>1, LenProperties
<1>4. PICK e \in Nat : e = Len(esc)
  BY <1>1, LenProperties
<1>5. PICK k \in Seq(Uppers) :
        k = Upper(keys) /\ Len(k) = n /\ \A i \in 1..n : k[i] = toupper(keys[i])
  BY <1>1, <1>3, UpperType
<1>6. r[1] = gave \o r[n + 1 - e]
  <2>1. keys \o <<>> = keys /\ <<>> \in Seq(Keys)
    BY <1>1, ConcatEmptySeq, EmptySeq
  <2> QED BY <1>2, <1>3, <1>4, <2>1 DEF Follows
<1>7. e <= n
  BY <1>1, <1>3, <1>4
<1>8. r[n + 1 - e] = Meaning(k, n + 1 - e, r)
  <2>1. n + 1 - e \in 1..Len(k) + 2
    BY <1>5, <1>7
  <2> QED BY <1>2, <1>5, <2>1, MeaningAt
<1>9. Meaning(k, n + 1 - e, r) = <<>>
  <2>1. ASSUME NEW i \in 1..e PROVE k[n - e + i] = esc[i]
    <3>1. PICK j \in 1..n : j = n - e + i
      BY <1>7
    <3> QED BY <1>1, <1>3, <1>4, <1>5, <3>1
  <2>2. CASE e = 0
    <3>1. n + 1 - e > Len(k)
      BY <1>5, <2>2
    <3> QED BY <3>1 DEF Meaning
  <2>3. CASE e = 1
    <3>1. 1 \in 1..e /\ n - e + 1 = n /\ n + 1 - e = n /\ ~(n > Len(k)) /\ n = Len(k)
      BY <1>5, <2>3
    <3>2. k[n] = ESC
      BY <1>1, <1>4, <2>1, <2>3, <3>1 DEF Begun
    <3>3. Meaning(k, n, r) = <<>>
      BY <3>1, <3>2, Distinct DEF Meaning
    <3> QED BY <3>1, <3>3
  <2>4. CASE e >= 2
    <3>1. n <= Len(k)
      BY <1>5
    <3>2. PICK i \in Nat :
            /\ i = n + 1 - e /\ i > 0 /\ i + 1 <= n
            /\ k[i] = ESC /\ k[i + 1] \in {"[", "O"} /\ \A m \in i + 2..n : k[m] \in Digit
            /\ SubSeq(k, i, n) = esc
      <4>1. Ends(k, esc, n, e)
        BY <1>1, <1>4, <1>7, <2>1, <2>4, <3>1 DEF Ends
      <4>2. PICK i \in Nat : Begins(k, esc, n, e, i)
        BY <1>1, <4>1, Stands
      <4> QED BY <4>2, Zenon DEF Begins
    <3>3. n + 1 \in i + 2..Len(k) + 1 /\ (n + 1) - 1 = n /\ i + 1 <= Len(k) /\ n + 1 = Len(k) + 1
      BY <1>5, <3>2
    <3>4. IsOver(k, i, n + 1)
      BY <3>2, <3>3 DEF IsOver
    <3>5. Over(k, i) = Len(k) + 1
      BY <3>3, <3>4, OverIs
    <3>6. ~(i > Len(k)) /\ i # Len(k)
      BY <1>5, <3>2
    <3>7. Meaning(k, i, r) = <<>>
      BY <3>2, <3>5, <3>6, Distinct DEF Meaning
    <3> QED BY <3>2, <3>7
  <2> QED BY <2>2, <2>3, <2>4
<1>10. gave \o <<>> = gave
  BY <1>1, ConcatEmptySeq
<1> QED BY <1>2, <1>6, <1>8, <1>9, <1>10

GivenInv == Follows(outside, in_esc, given)

LEMMA ReceiveGives ==
  ASSUME NEW codes, RECEIVE(codes)
  PROVE  given' = given \o codes
BY DEF RECEIVE

\* The three ways a sequence goes on.
LEMMA AppleKeyGives == ASSUME CommandTyped, GivenInv, apple_key PROVE GivenInv'
<1>1. PICK key \in Keys : key = Head(buf)
  BY TailType DEF CommandTyped, apple_key
<1>2. PICK c \in Uppers : c = toupper(key)
  BY DEF Uppers
<1>3. PICK esc \in Seq(Uppers) : esc = in_esc /\ Begun(esc)
  BY DEF GivenInv, Follows
<1>4. Follows(outside, esc, given) /\ given \in Seq(Codes)
  BY <1>3 DEF GivenInv, Follows
<1>5. outside' = Append(outside, key)
  BY <1>1 DEF apple_key
<1>6. PICK n \in Nat : n = Len(esc)
  BY <1>3, LenProperties
<1>7. PICK f \in Seq(Uppers) :
        f = Append(esc, c) /\ Len(f) = n + 1 /\ f[n + 1] = c /\ \A i \in 1..n : f[i] = esc[i]
  BY <1>6, LongerEsc, Zenon
<1>8. given \o <<>> = given
  BY <1>4, ConcatEmptySeq
<1>9. ASSUME Begun(f), in_esc' = f, given' = given \o <<>> PROVE GivenInv'
  <2>1. Follows(Append(outside, key), f, given)
    BY <1>2, <1>4, <1>7, <1>9, FollowsWait
  <2>2. in_esc' = f /\ given' = given
    BY <1>8, <1>9
  <2> QED BY <1>5, <2>1, <2>2 DEF GivenInv
<1>10. \/ Len(in_esc) >= 2 /\ c \in Digit /\ in_esc' = Append(in_esc, c) /\ RECEIVE(<<>>)
       \/ Len(in_esc) >= 2 /\ c \notin Digit /\ in_esc' = <<>> /\ RECEIVE(Sequence(in_esc, c))
       \/ in_esc = <<ESC>> /\ c \in {"[", "O"} /\ in_esc' = Append(in_esc, c) /\ RECEIVE(<<>>)
       \/ in_esc = <<ESC>> /\ c \notin {"[", "O"} /\ in_esc' = <<>> /\ RECEIVE(<<ESC, c>>)
       \/ in_esc = <<>> /\ c = ESC /\ in_esc' = Append(in_esc, c) /\ RECEIVE(<<>>)
       \/ in_esc = <<>> /\ c # ESC /\ in_esc' = in_esc /\ RECEIVE(Alone(c))
  BY <1>1, <1>2 DEF apple_key, NextEsc, Alone
<1>11. CASE Len(in_esc) >= 2 /\ c \in Digit /\ in_esc' = Append(in_esc, c) /\ RECEIVE(<<>>)
  <2>1. n >= 2 /\ in_esc' = f /\ given' = given \o <<>>
    BY <1>3, <1>6, <1>7, <1>11, ReceiveGives
  <2>2. Begun(f)
    <3>1. f[1] = ESC /\ f[2] \in {"[", "O"}
      BY <1>3, <1>6, <1>7, <2>1 DEF Begun
    <3>2. ASSUME NEW i \in 3..n + 1 PROVE f[i] \in Digit
      <4>1. CASE i = n + 1
        BY <1>7, <1>11, <4>1
      <4>2. CASE i # n + 1
        <5>1. i \in 3..n /\ i \in 1..n
          BY <4>2
        <5> QED BY <1>3, <1>6, <1>7, <5>1 DEF Begun
      <4> QED BY <4>1, <4>2
    <3> QED BY <1>7, <3>1, <3>2 DEF Begun
  <2> QED BY <1>9, <2>1, <2>2
<1>12. CASE Len(in_esc) >= 2 /\ c \notin Digit /\ in_esc' = <<>> /\ RECEIVE(Sequence(in_esc, c))
  <2>1. Follows(Append(outside, key), <<>>, given \o Sequence(esc, c))
    BY <1>2, <1>3, <1>4, <1>12, FollowsSequence
  <2>2. given' = given \o Sequence(esc, c)
    BY <1>3, <1>12, ReceiveGives
  <2> QED BY <1>5, <1>12, <2>1, <2>2 DEF GivenInv
<1>13. CASE in_esc = <<ESC>> /\ c \in {"[", "O"} /\ in_esc' = Append(in_esc, c) /\ RECEIVE(<<>>)
  <2>1. n = 1 /\ esc[1] = ESC
    BY <1>3, <1>6, <1>13
  <2>2. in_esc' = f /\ given' = given \o <<>>
    BY <1>3, <1>7, <1>13, ReceiveGives
  <2>3. Begun(f)
    BY <1>7, <1>13, <2>1 DEF Begun
  <2> QED BY <1>9, <2>2, <2>3
<1>14. CASE in_esc = <<ESC>> /\ c \notin {"[", "O"} /\ in_esc' = <<>> /\ RECEIVE(<<ESC, c>>)
  <2>1. Follows(Append(outside, key), <<>>, given \o <<ESC, c>>)
    BY <1>2, <1>3, <1>4, <1>14, FollowsPair
  <2>2. given' = given \o <<ESC, c>>
    BY <1>14, ReceiveGives
  <2> QED BY <1>5, <1>14, <2>1, <2>2 DEF GivenInv
<1>15. CASE in_esc = <<>> /\ c = ESC /\ in_esc' = Append(in_esc, c) /\ RECEIVE(<<>>)
  <2>1. n = 0
    BY <1>3, <1>6, <1>15
  <2>2. in_esc' = f /\ given' = given \o <<>>
    BY <1>3, <1>7, <1>15, ReceiveGives
  <2>3. Begun(f)
    BY <1>7, <1>15, <2>1 DEF Begun
  <2> QED BY <1>9, <2>2, <2>3
<1>16. CASE in_esc = <<>> /\ c # ESC /\ in_esc' = in_esc /\ RECEIVE(Alone(c))
  <2>1. Follows(Append(outside, key), <<>>, given \o Alone(c))
    BY <1>2, <1>3, <1>4, <1>16, FollowsAlone
  <2>2. given' = given \o Alone(c)
    BY <1>16, ReceiveGives
  <2> QED BY <1>5, <1>16, <2>1, <2>2 DEF GivenInv
<1> QED BY <1>10, <1>11, <1>12, <1>13, <1>14, <1>15, <1>16

LEMMA GivenStep == CommandTyped /\ GivenInv /\ [Next]_vars => GivenInv'
<1> SUFFICES ASSUME CommandTyped, GivenInv, [Next]_vars PROVE GivenInv'
  OBVIOUS
<1>1. CASE apple_key
  BY <1>1, AppleKeyGives
<1>2. CASE ~apple_key
  <2>1. UNCHANGED <<outside, in_esc, given>>
    BY <1>2 DEF Next, tty_task, handle_key, packet, enter_cli, backspace, collect, overrun,
       cli_execute, cli_waits, command_returns, Rest, exec_line, exec_parse, keyboard_task,
       apple_reads, tty, vars
  <2> QED BY <2>1 DEF GivenInv
<1> QED BY <1>1, <1>2

\* However the packets cut the keys and whatever commands are typed in between,
\* they are translated to what they mean as one piece (tty_task in main.c).
THEOREM GivenRight == Spec => []CutsDoNotMatter
<1>1. Init => GivenInv
  BY FollowsNone DEF Init, GivenInv
<1>2. CommandInv => CommandTyped
  BY DEF CommandInv
<1>3. GivenInv => CutsDoNotMatter
  BY FollowsEnd DEF GivenInv, CutsDoNotMatter
<1> QED BY <1>1, <1>2, <1>3, CommandAlways, GivenStep, PTL DEF Spec
=============================================================================
