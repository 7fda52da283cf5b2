---------------------------- MODULE StdioProofs ----------------------------
(***************************************************************************)
(* Proofs about Stdio, for every buffer size and set of characters: the    *)
(* ring implements the bounded queue, and tty_task loses nothing.          *)
(***************************************************************************)
EXTENDS Stdio, SequenceTheorems, TLAPS

USE StdioAssumption DEF Slot

----------------------------------------------------------------------------
(* The slots of the ring *)

LEMMA NextSlotType == \A i \in Slot : NextSlot(i) \in Slot /\ NextSlot(i) # i
BY DEF NextSlot

LEMMA PrevOfNext == \A i \in Slot : PrevSlot(i) \in Slot /\ PrevSlot(NextSlot(i)) = i
BY DEF NextSlot, PrevSlot

Rings == [Slot -> Chars]

LEMMA CountType == \A h, t \in Slot : CountOf(h, t) \in 0..Max
BY DEF CountOf

LEMMA SlotOfType == \A h \in Slot : \A i \in 0..Max : SlotOf(h, i) \in Slot
BY DEF SlotOf

LEMMA FunctionSeq ==
  ASSUME NEW S, NEW n \in Nat, NEW s \in [1..n -> S]
  PROVE  s \in Seq(S) /\ Len(s) = n
OBVIOUS

LEMMA ContentsType ==
  ASSUME NEW h \in Slot, NEW t \in Slot, NEW b \in Rings
  PROVE  /\ ContentsOf(h, t, b) \in Seq(Chars)
         /\ Len(ContentsOf(h, t, b)) = CountOf(h, t)
         /\ \A i \in 1..CountOf(h, t) : ContentsOf(h, t, b)[i] = b[SlotOf(h, i - 1)]
<1>1. CountOf(h, t) \in Nat /\ CountOf(h, t) <= Max
  BY CountType
<1>2. ContentsOf(h, t, b) \in [1..CountOf(h, t) -> Chars]
  <2>. SUFFICES ASSUME NEW i \in 1..CountOf(h, t) PROVE b[SlotOf(h, i - 1)] \in Chars
    BY DEF ContentsOf
  <2>1. i - 1 \in 0..Max
    BY <1>1
  <2>. QED
    BY <2>1, SlotOfType DEF Rings
<1>3. \A i \in 1..CountOf(h, t) : ContentsOf(h, t, b)[i] = b[SlotOf(h, i - 1)]
  BY DEF ContentsOf
<1>. QED
  BY <1>1, <1>2, <1>3, FunctionSeq

----------------------------------------------------------------------------
(* Type correctness *)

LEMMA SentType == \A c \in Chars : Sent(c) \in Seq(Chars) /\ Len(Sent(c)) \in 1..2
BY DEF Sent

\* The port's history keeps two characters.
LEMMA PortType ==
  ASSUME NEW cs \in Seq(Chars), Len(cs) \in 1..2, TypeOK, Len(port) = 2
  PROVE  LET p == SubSeq(port \o cs, Len(cs) + 1, Len(cs) + 2)
         IN p \in Seq(Chars) /\ Len(p) = 2
<1>1. port \o cs \in Seq(Chars) /\ Len(port \o cs) = 2 + Len(cs)
  <2>1. port \in Seq(Chars)
    BY DEF TypeOK
  <2>2. port \o cs \in Seq(Chars) /\ Len(port \o cs) = Len(port) + Len(cs)
    BY <2>1, ConcatProperties, Zenon
  <2>. QED
    BY <2>2, Zenon
<1>2. \A t \in Seq(Chars), n \in 1..2 :
        Len(t) = n + 2 => /\ SubSeq(t, n + 1, n + 2) \in Seq(Chars)
                          /\ Len(SubSeq(t, n + 1, n + 2)) = 2
  <2>. SUFFICES ASSUME NEW t \in Seq(Chars), NEW n \in 1..2, Len(t) = n + 2
                PROVE  /\ SubSeq(t, n + 1, n + 2) \in Seq(Chars)
                       /\ Len(SubSeq(t, n + 1, n + 2)) = 2
    OBVIOUS
  <2>1. \A i \in n + 1..n + 2 : t[i] \in Chars
    OBVIOUS
  <2>2. n + 1 \in Int /\ n + 2 \in Int
    OBVIOUS
  <2>3. /\ SubSeq(t, n + 1, n + 2) \in Seq(Chars)
        /\ Len(SubSeq(t, n + 1, n + 2)) = IF n + 1 <= n + 2 THEN n + 2 - (n + 1) + 1 ELSE 0
    BY <2>1, <2>2, SubSeqProperties
  <2>. QED
    BY <2>3
<1>. QED
  BY <1>1, <1>2

TypeInv == TypeOK /\ Len(port) = 2

LEMMA TypeInit == Init => TypeInv
BY DEF Init, TypeInv, TypeOK

LEMMA TypeStep == TypeInv /\ [Next]_vars => TypeInv'
<1>. SUFFICES ASSUME TypeInv, [Next]_vars PROVE TypeInv'
  OBVIOUS
<1>. USE DEF TypeInv, TypeOK
<1>1. ASSUME NEW c \in Chars, Produce(c) PROVE TypeInv'
  BY <1>1, NextSlotType DEF Produce, fputc
<1>2. CASE Consume
  BY <1>2, NextSlotType DEF Consume, fgetc
<1>4. CASE tty_begin
  BY <1>4 DEF tty_begin
<1>5. CASE tty_drain
  <2>1. CASE head # tail /\ Len(Sent(buffer[head])) > room
    <3>1. ungetc(NextSlot(head), buffer[head]) /\ room' = 0 /\ UNCHANGED port
      BY <1>5, <2>1 DEF tty_drain
    <3>2. PrevSlot(NextSlot(head)) = head
      BY PrevOfNext
    <3>. QED
      BY <3>1, <3>2 DEF ungetc
  <2>2. CASE ~(head # tail /\ Len(Sent(buffer[head])) > room)
    <3>1. fgetc
      BY <1>5, <2>2 DEF tty_drain
    <3>2. CASE rc' = EOF
      <4>1. room' = 0 /\ UNCHANGED port
        BY <1>5, <2>2, <3>2 DEF tty_drain
      <4>. QED
        BY <3>1, <3>2, <4>1, NextSlotType DEF fgetc
    <3>3. CASE rc' # EOF
      <4>1. rc' = buffer[head] /\ head # tail /\ rc' \in Chars
        BY <3>1, <3>3 DEF fgetc
      <4>2. Sent(rc') \in Seq(Chars) /\ Len(Sent(rc')) \in 1..2
        BY <4>1, SentType
      <4>3. /\ port' = SubSeq(port \o Sent(rc'), Len(Sent(rc')) + 1, Len(Sent(rc')) + 2)
            /\ room' = room - Len(Sent(rc'))
        BY <1>5, <2>2, <3>3 DEF tty_drain
      <4>4. port' \in Seq(Chars) /\ Len(port') = 2
        BY <4>2, <4>3, PortType
      <4>5. room' \in Nat
        BY <2>2, <4>1, <4>2, <4>3
      <4>. QED
        BY <3>1, <4>1, <4>4, <4>5, NextSlotType DEF fgetc
    <3>. QED
      BY <3>2, <3>3
  <2>. QED
    BY <2>1, <2>2
<1>6. CASE UNCHANGED vars
  BY <1>6 DEF vars
<1>. QED
  BY <1>1, <1>2, <1>4, <1>5, <1>6 DEF Next

LEMMA TypeInvariant == Spec => []TypeInv
<1>. QED
  BY TypeInit, TypeStep, PTL DEF Spec

\* The variables keep their types; tty_task never overruns the port.
THEOREM TypeCorrect == Spec => []TypeOK
<1>1. TypeInv => TypeOK
  BY DEF TypeInv
<1>. QED
  BY <1>1, TypeInvariant, PTL

----------------------------------------------------------------------------
(* The ring is a bounded queue *)

\* What a put, a refused put and a get do to the ring.
LEMMA SlotsAfterPut ==
  ASSUME NEW h \in Slot, NEW t \in Slot, NextSlot(t) # h
  PROVE  /\ CountOf(h, t) < Max /\ CountOf(h, NextSlot(t)) = CountOf(h, t) + 1
         /\ SlotOf(h, CountOf(h, t)) = t
BY DEF CountOf, SlotOf, NextSlot

LEMMA SlotsUsed ==
  ASSUME NEW h \in Slot, NEW t \in Slot
  PROVE  \A i \in 0..CountOf(h, t) - 1 : SlotOf(h, i) \in Slot /\ SlotOf(h, i) # t
BY DEF CountOf, SlotOf

LEMMA SlotsWhenFull ==
  ASSUME NEW h \in Slot, NEW t \in Slot, NextSlot(t) = h
  PROVE  CountOf(h, t) = Max
BY DEF CountOf, NextSlot

LEMMA SlotsAfterGet ==
  ASSUME NEW h \in Slot, NEW t \in Slot, h # t
  PROVE  /\ CountOf(h, t) > 0 /\ CountOf(NextSlot(h), t) = CountOf(h, t) - 1
         /\ SlotOf(h, 0) = h
         /\ \A i \in 0..CountOf(h, t) - 2 : SlotOf(NextSlot(h), i) = SlotOf(h, i + 1)
BY DEF CountOf, SlotOf, NextSlot

\* Storing at the tail does not touch the contents.
LEMMA StoreAtTail ==
  ASSUME NEW h \in Slot, NEW t \in Slot, NEW b \in Rings, NEW c \in Chars
  PROVE  ContentsOf(h, t, [b EXCEPT ![t] = c]) = ContentsOf(h, t, b)
<1>1. ASSUME NEW i \in 1..CountOf(h, t)
      PROVE  [b EXCEPT ![t] = c][SlotOf(h, i - 1)] = b[SlotOf(h, i - 1)]
  <2>1. i - 1 \in 0..CountOf(h, t) - 1
    BY CountType
  <2>. QED
    BY <2>1, SlotsUsed DEF Rings
<1>. QED
  BY <1>1 DEF ContentsOf

LEMMA ContentsAfterPut ==
  ASSUME NEW h \in Slot, NEW t \in Slot, NEW b \in Rings, NEW c \in Chars, NextSlot(t) # h
  PROVE  ContentsOf(h, NextSlot(t), [b EXCEPT ![t] = c]) = Append(ContentsOf(h, t, b), c)
<1>. DEFINE n  == CountOf(h, t)
            b2 == [b EXCEPT ![t] = c]
            s  == ContentsOf(h, t, b)
            s2 == ContentsOf(h, NextSlot(t), b2)
<1>1. n \in Nat /\ b2 \in Rings /\ NextSlot(t) \in Slot
  BY CountType, NextSlotType DEF Rings
<1>2. CountOf(h, NextSlot(t)) = n + 1 /\ SlotOf(h, n) = t
  BY SlotsAfterPut
<1>3. s \in Seq(Chars) /\ Len(s) = n /\ \A i \in 1..n : s[i] = b[SlotOf(h, i - 1)]
  BY ContentsType
<1>4. s2 \in Seq(Chars) /\ Len(s2) = n + 1 /\ \A i \in 1..n + 1 : s2[i] = b2[SlotOf(h, i - 1)]
  BY <1>1, <1>2, ContentsType, ZenonT(60)
<1>5. /\ Append(s, c) \in Seq(Chars) /\ Len(Append(s, c)) = n + 1
      /\ \A i \in 1..n : Append(s, c)[i] = s[i]
      /\ Append(s, c)[n + 1] = c
  BY <1>3, AppendProperties
<1>6. ASSUME NEW i \in 1..n + 1 PROVE s2[i] = Append(s, c)[i]
  <2>1. CASE i = n + 1
    <3>1. SlotOf(h, i - 1) = t
      BY <1>1, <1>2, <2>1
    <3>2. b2[t] = c
      BY DEF Rings
    <3>. QED
      BY <1>4, <1>5, <2>1, <3>1, <3>2
  <2>2. CASE i # n + 1
    <3>1. i \in 1..n /\ i - 1 \in 0..n - 1
      BY <1>1, <2>2
    <3>2. b2[SlotOf(h, i - 1)] = b[SlotOf(h, i - 1)]
      BY <3>1, SlotsUsed DEF Rings
    <3>. QED
      BY <1>3, <1>4, <1>5, <3>1, <3>2
  <2>. QED
    BY <2>1, <2>2
<1>. HIDE DEF n, s, s2
<1>. QED
  BY <1>4, <1>5, <1>6, SeqEqual DEF s, s2

LEMMA ContentsAfterGet ==
  ASSUME NEW h \in Slot, NEW t \in Slot, NEW b \in Rings, h # t
  PROVE  /\ ContentsOf(h, t, b) # <<>>
         /\ Head(ContentsOf(h, t, b)) = b[h]
         /\ ContentsOf(NextSlot(h), t, b) = Tail(ContentsOf(h, t, b))
<1>. DEFINE n  == CountOf(h, t)
            s  == ContentsOf(h, t, b)
            s2 == ContentsOf(NextSlot(h), t, b)
<1>1. n \in Nat /\ n > 0 /\ CountOf(NextSlot(h), t) = n - 1 /\ SlotOf(h, 0) = h
  <2>1. CountOf(h, t) \in 0..Max
    BY CountType
  <2>. QED
    BY <2>1, SlotsAfterGet
<1>2. \A i \in 0..n - 2 : SlotOf(NextSlot(h), i) = SlotOf(h, i + 1)
  BY SlotsAfterGet
<1>3. s \in Seq(Chars) /\ Len(s) = n /\ \A i \in 1..n : s[i] = b[SlotOf(h, i - 1)]
  BY ContentsType
<1>4. /\ s2 \in Seq(Chars) /\ Len(s2) = n - 1
      /\ \A i \in 1..n - 1 : s2[i] = b[SlotOf(NextSlot(h), i - 1)]
  <2>1. NextSlot(h) \in Slot
    BY NextSlotType
  <2>2. /\ s2 \in Seq(Chars) /\ Len(s2) = CountOf(NextSlot(h), t)
        /\ \A i \in 1..CountOf(NextSlot(h), t) : s2[i] = b[SlotOf(NextSlot(h), i - 1)]
    BY <2>1, ContentsType
  <2>. QED
    BY <1>1, <2>2
<1>. HIDE DEF n, s, s2
<1>5. s # <<>> /\ Head(s) = s[1]
  BY <1>1, <1>3
<1>6. s[1] = b[h]
  BY <1>1, <1>3
<1>7. /\ Tail(s) \in Seq(Chars) /\ Len(Tail(s)) = n - 1
      /\ \A i \in 1..n - 1 : Tail(s)[i] = s[i + 1]
  BY <1>3, <1>5, HeadTailProperties
<1>8. ASSUME NEW i \in 1..n - 1 PROVE s2[i] = Tail(s)[i]
  <2>1. i - 1 \in 0..n - 2 /\ i + 1 \in 1..n /\ (i - 1) + 1 = (i + 1) - 1
    BY <1>1
  <2>2. SlotOf(NextSlot(h), i - 1) = SlotOf(h, (i - 1) + 1)
    BY <1>2, <2>1
  <2>. QED
    <3>1. s2[i] = b[SlotOf(NextSlot(h), i - 1)]
      BY <1>4
    <3>2. Tail(s)[i] = s[i + 1]
      BY <1>7
    <3>3. s[i + 1] = b[SlotOf(h, (i + 1) - 1)]
      BY <1>3, <2>1
    <3>. QED
      BY <2>1, <2>2, <3>1, <3>2, <3>3
<1>9. s2 = Tail(s)
  BY <1>4, <1>7, <1>8, SeqEqual
<1>. QED
  BY <1>5, <1>6, <1>9 DEF s, s2

----------------------------------------------------------------------------
(* The operations of a FILE are those of the queue. *)

LEMMA PutIsPut == ASSUME TypeOK, NEW c \in Chars, fputc(c) PROVE Queue!Put(c)
<1>. USE DEF TypeOK, Contents, Rings
<1>1. Len(Contents) = CountOf(head, tail)
  BY ContentsType
<1>2. CASE NextSlot(tail) = head
  <2>1. head' = head /\ tail' = tail /\ rc' = EOF /\ buffer' = [buffer EXCEPT ![tail] = c]
    BY <1>2 DEF fputc
  <2>2. Contents' = Contents
    <3>1. ContentsOf(head, tail, [buffer EXCEPT ![tail] = c]) = ContentsOf(head, tail, buffer)
      BY StoreAtTail, ZenonT(60)
    <3>. QED
      BY <2>1, <3>1
  <2>. QED
    BY <1>1, <1>2, <2>1, <2>2, SlotsWhenFull DEF Queue!Put
<1>3. CASE NextSlot(tail) # head
  <2>1. head' = head /\ tail' = NextSlot(tail) /\ rc' = c /\ buffer' = [buffer EXCEPT ![tail] = c]
    BY <1>3 DEF fputc
  <2>2. Contents' = Append(Contents, c)
    BY <1>3, <2>1, ContentsAfterPut, ZenonT(60)
  <2>. QED
    BY <1>1, <1>3, <2>1, <2>2, SlotsAfterPut DEF Queue!Put
<1>. QED
  BY <1>2, <1>3

LEMMA EmptyContents == TypeOK => (Contents = <<>> <=> head = tail)
<1>. SUFFICES ASSUME TypeOK PROVE Contents = <<>> <=> head = tail
  OBVIOUS
<1>. USE DEF TypeOK, Contents, Rings
<1>1. CASE head = tail
  <2>1. CountOf(head, tail) = 0
    BY <1>1 DEF CountOf
  <2>. QED
    BY <1>1, <2>1, ContentsType
<1>2. CASE head # tail
  BY <1>2, ContentsAfterGet
<1>. QED
  BY <1>1, <1>2

LEMMA GetIsGet == TypeOK /\ fgetc => Queue!Get
<1>. SUFFICES ASSUME TypeOK, fgetc PROVE Queue!Get
  OBVIOUS
<1>1. CASE head = tail
  <2>1. UNCHANGED <<head, tail, buffer>> /\ rc' = EOF
    BY <1>1 DEF fgetc
  <2>2. Contents = <<>> /\ Contents' = Contents
    BY <1>1, <2>1, EmptyContents DEF Contents
  <2>. QED
    BY <2>1, <2>2 DEF Queue!Get
<1>2. CASE head # tail
  <2>1. head' = NextSlot(head) /\ rc' = buffer[head] /\ tail' = tail /\ buffer' = buffer
    BY <1>2 DEF fgetc
  <2>2. Contents # <<>> /\ Contents' = Tail(Contents) /\ Head(Contents) = buffer[head]
    BY <1>2, <2>1, ContentsAfterGet DEF TypeOK, Contents, Rings
  <2>. QED
    BY <2>1, <2>2 DEF Queue!Get
<1>. QED
  BY <1>1, <1>2

\* The character tty_task puts back was there: its slot is the old head's.
LEMMA PutBackIsPeek ==
  ASSUME TypeOK, head # tail, ungetc(NextSlot(head), buffer[head])
  PROVE  Queue!Peek
<1>1. PrevSlot(NextSlot(head)) = head
  BY PrevOfNext DEF TypeOK
<1>2. /\ head' = head /\ tail' = tail /\ rc' = buffer[head]
      /\ buffer' = [buffer EXCEPT ![head] = buffer[head]]
  BY <1>1 DEF ungetc
<1>3. buffer' = buffer
  BY <1>2 DEF TypeOK
<1>4. Contents' = Contents
  BY <1>2, <1>3 DEF Contents
<1>5. Contents # <<>> /\ Head(Contents) = buffer[head]
  BY ContentsAfterGet DEF TypeOK, Contents, Rings
<1>. QED
  BY <1>2, <1>4, <1>5 DEF Queue!Peek

LEMMA DrainCases ==
  ASSUME TypeOK, tty_drain
  PROVE  \/ head # tail /\ ungetc(NextSlot(head), buffer[head]) /\ UNCHANGED port
         \/ fgetc /\ head = tail /\ UNCHANGED port
         \/ /\ fgetc /\ head # tail /\ rc' = buffer[head]
            /\ port' = SubSeq(port \o Sent(rc'), Len(Sent(rc')) + 1, Len(Sent(rc')) + 2)
BY DEF tty_drain, fgetc, TypeOK

LEMMA RingInit == Init => Queue!Init
<1>. SUFFICES ASSUME Init PROVE Queue!Init
  OBVIOUS
<1>1. TypeOK
  BY TypeInit DEF TypeInv
<1>2. Contents = <<>> /\ rc = EOF
  BY <1>1, EmptyContents DEF Init
<1>. QED
  BY <1>2 DEF Queue!Init

LEMMA RingStep == TypeOK /\ [Next]_vars => [Queue!Next]_<<Contents, rc>>
<1>. SUFFICES ASSUME TypeOK, [Next]_vars PROVE [Queue!Next]_<<Contents, rc>>
  OBVIOUS
<1>1. ASSUME NEW c \in Chars, Produce(c) PROVE Queue!Next
  BY <1>1, PutIsPut DEF Produce, Queue!Next
<1>2. CASE Consume
  BY <1>2, GetIsGet DEF Consume, Queue!Next
<1>4. CASE tty_begin
  <2>1. UNCHANGED <<head, tail, buffer, rc>>
    BY <1>4 DEF tty_begin
  <2>. QED
    BY <2>1 DEF Contents
<1>5. CASE tty_drain
  <2>1. CASE fgetc
    BY <2>1, GetIsGet DEF Queue!Next
  <2>2. CASE head # tail /\ ungetc(NextSlot(head), buffer[head]) /\ UNCHANGED port
    BY <2>2, PutBackIsPeek DEF Queue!Next
  <2>. QED
    BY <1>5, <2>1, <2>2, DrainCases
<1>6. CASE UNCHANGED vars
  BY <1>6 DEF vars, Contents
<1>. QED
  BY <1>1, <1>2, <1>4, <1>5, <1>6 DEF Next

\* The ring of stdio.c is a bounded queue, for every size of the buffer.
THEOREM RingIsQueue == Spec => ImplementsQueue
<1>1. TypeOK /\ [Next]_vars => [Queue!Next]_<<Contents, rc>>
  BY RingStep
<1>. QED
  BY <1>1, TypeCorrect, RingInit, PTL DEF Spec, ImplementsQueue, Queue!Spec

----------------------------------------------------------------------------
(* tty_task *)

\* The last characters of a sequence that one or two characters are appended to.
LEMMA LastAfterOne ==
  ASSUME NEW p \in Seq(Chars), Len(p) = 2, NEW cs \in Seq(Chars), Len(cs) = 1
  PROVE  SubSeq(p \o cs, 2, 3)[2] = cs[1]
<1>. DEFINE t == p \o cs
<1>1. /\ t \in Seq(Chars) /\ Len(t) = 3
      /\ \A i \in 1..3 : t[i] = IF i <= 2 THEN p[i] ELSE cs[i - 2]
  <2>1. /\ t \in Seq(Chars) /\ Len(t) = Len(p) + Len(cs)
        /\ \A i \in 1..Len(p) + Len(cs) : t[i] = IF i <= Len(p) THEN p[i] ELSE cs[i - Len(p)]
    BY ConcatProperties, Zenon
  <2>2. Len(p) + Len(cs) = 3
    OBVIOUS
  <2>. QED
    BY <2>1, <2>2, Zenon
<1>. HIDE DEF t
<1>2. t[3] = cs[1]
  BY <1>1
<1>3. \A i \in 2..3 : t[i] \in Chars
  <2>. SUFFICES ASSUME NEW i \in 1..Len(t) PROVE t[i] \in Chars
    BY <1>1
  <2>. QED
    BY <1>1, ElementOfSeq
<1>4. \A i \in 1..3 - 2 + 1 : SubSeq(t, 2, 3)[i] = t[2 + i - 1]
  BY <1>3, SubSeqProperties
<1>5. SubSeq(t, 2, 3)[2] = t[3]
  BY <1>4
<1>6. SubSeq(t, 2, 3)[2] = cs[1]
  BY <1>2, <1>5
<1>. QED
  BY <1>6, Zenon DEF t

LEMMA LastAfterTwo ==
  ASSUME NEW p \in Seq(Chars), Len(p) = 2, NEW cs \in Seq(Chars), Len(cs) = 2
  PROVE  SubSeq(p \o cs, 3, 4)[2] = cs[2] /\ SubSeq(p \o cs, 3, 4)[1] = cs[1]
<1>. DEFINE t == p \o cs
<1>1. /\ t \in Seq(Chars) /\ Len(t) = 4
      /\ \A i \in 1..4 : t[i] = IF i <= 2 THEN p[i] ELSE cs[i - 2]
  <2>1. /\ t \in Seq(Chars) /\ Len(t) = Len(p) + Len(cs)
        /\ \A i \in 1..Len(p) + Len(cs) : t[i] = IF i <= Len(p) THEN p[i] ELSE cs[i - Len(p)]
    BY ConcatProperties, ZenonT(60)
  <2>2. Len(p) + Len(cs) = 4
    OBVIOUS
  <2>. QED
    BY <2>1, <2>2, Zenon
<1>. HIDE DEF t
<1>2. t[3] = cs[1] /\ t[4] = cs[2]
  BY <1>1
<1>3. \A i \in 3..4 : t[i] \in Chars
  <2>. SUFFICES ASSUME NEW i \in 1..Len(t) PROVE t[i] \in Chars
    BY <1>1
  <2>. QED
    BY <1>1, ElementOfSeq
<1>4. \A i \in 1..4 - 3 + 1 : SubSeq(t, 3, 4)[i] = t[3 + i - 1]
  BY <1>3, SubSeqProperties
<1>5. SubSeq(t, 3, 4)[2] = t[4] /\ SubSeq(t, 3, 4)[1] = t[3]
  BY <1>4
<1>6. SubSeq(t, 3, 4)[2] = cs[2] /\ SubSeq(t, 3, 4)[1] = cs[1]
  BY <1>2, <1>5
<1>. QED
  BY <1>6, Zenon DEF t

LEMMA PortTakes ==
  ASSUME NEW c \in Chars, NEW p \in Seq(Chars), Len(p) = 2
  PROVE  SubSeq(p \o Sent(c), Len(Sent(c)) + 1, Len(Sent(c)) + 2)[2] = c
<1>0. Sent(c) \in Seq(Chars)
  BY SentType
<1>1. CASE c = newline
  <2>1. Len(Sent(c)) = 2 /\ Sent(c)[2] = c
    BY <1>1 DEF Sent
  <2>. QED
    BY <1>0, <2>1, LastAfterTwo
<1>2. CASE c # newline
  <2>1. Len(Sent(c)) = 1 /\ Sent(c)[1] = c
    BY <1>2 DEF Sent
  <2>2. SubSeq(p \o Sent(c), 2, 3)[2] = c
    BY <1>0, <2>1, LastAfterOne
  <2>3. Len(Sent(c)) + 1 = 2 /\ Len(Sent(c)) + 2 = 3
    BY <2>1
  <2>. QED
    BY <2>2, <2>3, Zenon
<1>. QED
  BY <1>1, <1>2

LEMMA PortTakesCR ==
  ASSUME NEW p \in Seq(Chars), Len(p) = 2
  PROVE  SubSeq(p \o Sent(newline), Len(Sent(newline)) + 1, Len(Sent(newline)) + 2)[1] = CR
<1>1. Sent(newline) \in Seq(Chars) /\ Len(Sent(newline)) = 2 /\ Sent(newline)[1] = CR
  BY DEF Sent
<1>. QED
  BY <1>1, LastAfterTwo

\* Whatever the room, tty_task's loop drops and repeats no character.
THEOREM NothingLost == Spec => TtyLosesNothing
<1>. DEFINE A == tty_drain =>
                   \/ Contents' = Contents /\ port' = port
                   \/ /\ Contents # <<>>
                      /\ Contents' = Tail(Contents)
                      /\ port'[2] = Head(Contents)
                      /\ port'[2] = newline => port'[1] = CR
<1>1. TypeInv /\ [Next]_vars => [A]_vars
  <2>. SUFFICES ASSUME TypeInv, tty_drain
                PROVE  \/ Contents' = Contents /\ port' = port
                       \/ /\ Contents # <<>>
                          /\ Contents' = Tail(Contents)
                          /\ port'[2] = Head(Contents)
                          /\ port'[2] = newline => port'[1] = CR
    OBVIOUS
  <2>1. TypeOK
    BY DEF TypeInv
  <2>2. CASE head # tail /\ ungetc(NextSlot(head), buffer[head]) /\ UNCHANGED port
    BY <2>1, <2>2, PutBackIsPeek DEF Queue!Peek
  <2>3. CASE fgetc /\ head = tail /\ UNCHANGED port
    BY <2>3 DEF fgetc, Contents
  <2>4. CASE /\ fgetc /\ head # tail /\ rc' = buffer[head]
             /\ port' = SubSeq(port \o Sent(rc'), Len(Sent(rc')) + 1, Len(Sent(rc')) + 2)
    <3>1. Contents # <<>> /\ Queue!Get
      BY <2>1, <2>4, EmptyContents, GetIsGet
    <3>2. Contents' = Tail(Contents) /\ Head(Contents) = rc'
      BY <3>1 DEF Queue!Get
    <3>3. PICK c \in Chars : rc' = c
      BY <2>1, <2>4 DEF TypeOK
    <3>4. port' = SubSeq(port \o Sent(c), Len(Sent(c)) + 1, Len(Sent(c)) + 2)
      BY <2>4, <3>3, Zenon
    <3>5. port \in Seq(Chars) /\ Len(port) = 2
      BY DEF TypeInv, TypeOK
    <3>6. port'[2] = c
      BY <3>4, <3>5, PortTakes
    <3>7. c = newline => port'[1] = CR
      BY <3>4, <3>5, PortTakesCR
    <3>. QED
      BY <3>1, <3>2, <3>3, <3>6, <3>7
  <2>. QED
    BY <2>1, <2>2, <2>3, <2>4, DrainCases
<1>. QED
  BY <1>1, TypeInvariant, PTL DEF Spec, TtyLosesNothing

=============================================================================
