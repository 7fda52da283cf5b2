---------------------------- MODULE VideoProofs ----------------------------
(***************************************************************************)
(* Proofs about the screen, for every number of lines and columns and      *)
(* every distance at which backspaces are shorter: in the enhanced mode,   *)
(* with a host that reads and a FIFO that is never one entry short at the  *)
(* end of a scroll, video_task knows where the terminal's cursor is, and   *)
(* when nothing is left in the FIFO, the terminal shows the text page.     *)
(***************************************************************************)
EXTENDS Video, SequenceTheorems, TLAPS

\* What the theorems ask of the terminal, of the host and of the FIFO.
Room == scroll_mode = "enhanced" /\ HostReads /\ RoomForTwo

Entries == [char : Code, v : 0..Bottom, h : 0..Cols, flag : {"none", "start", "end"}]

\* What video_task has not handled yet.
Pending == IF vid = none THEN fifo ELSE <<vid>> \o fifo

(* The terminal's text, the line that video_task remembers and the spaces   *)
(* that it leaves out decide what becomes of an entry.                      *)
Image == [text : [Place -> {Letter, Space}], v : 0..Bottom, sup : 0..Cols]
Now == [text |-> shown, v |-> prev_v, sup |-> space_supress]

Off(e) == e.h >= Cols \/ e.v >= Rows
Shifted(text) == [p \in Place |-> IF p[1] = Bottom THEN Space ELSE text[<<p[1] + 1, p[2]>>]]
Put(text, c, v, h) == [p \in Place |-> IF p = <<v, h>> THEN c ELSE text[p]]

\* What an entry makes of an image.
After(e, s) ==
  IF Off(e) \/ e.flag = "start" THEN s
  ELSE IF e.flag = "end" THEN [text |-> Shifted(s.text), v |-> s.v, sup |-> Cols]
  ELSE IF ascii(e.char) = Space /\ s.sup > 0 THEN [s EXCEPT !.sup = @ - 1]
  ELSE [text |-> Put(s.text, ascii(e.char), e.v, e.h), v |-> e.v, sup |-> s.sup]

\* A scroll ends while the cursor is on the bottom line.
Fits(e, s) == e.flag = "end" => s.v = Bottom

\* The entries of p lead from the image s to the image t.
Screens(p, s, t, images) ==
  /\ images \in Seq(Image) /\ Len(images) = Len(p) + 1
  /\ images[1] = s /\ images[Len(p) + 1] = t
  /\ \A i \in 1..Len(p) : Fits(p[i], images[i]) /\ images[i + 1] = After(p[i], images[i])
Lead(p, s, t) == \E images : Screens(p, s, t, images)

----------------------------------------------------------------------------
(* Places and entries *)

LEMMA Sizes ==
  /\ Rows \in Nat /\ Cols \in Nat /\ Cols > 0 /\ Bottom \in Nat /\ Bottom > 0
  /\ Rows = Bottom + 1 /\ Near \in Nat
BY VideoAssumption DEF Bottom

LEMMA PlaceParts ==
  /\ \A p \in Place : p[1] \in 0..Bottom /\ p[2] \in 0..Cols - 1 /\ p = <<p[1], p[2]>>
  /\ \A v \in 0..Bottom, h \in 0..Cols - 1 :
       <<v, h>> \in Place /\ <<v, h>>[1] = v /\ <<v, h>>[2] = h
  /\ Hole \notin Place /\ Hole[1] = Bottom /\ Hole[2] = Cols
BY Sizes DEF Place, Hole

LEMMA EntryIsSome == \A e \in Entries : e # none
BY DEF Entries, none

LEMMA EntryType ==
  ASSUME NEW c \in Code, NEW p \in Place \cup {Hole}, NEW f \in {"none", "start", "end"}
  PROVE  /\ Entry(c, p, f) \in Entries
         /\ Entry(c, p, f).char = c /\ Entry(c, p, f).flag = f
         /\ Entry(c, p, f).v = p[1] /\ Entry(c, p, f).h = p[2]
         /\ Off(Entry(c, p, f)) <=> p = Hole
BY Sizes, PlaceParts DEF Entries, Entry, Off

LEMMA AsciiType == \A c \in Code : ascii(c) \in {Letter, Space} /\ (ascii(c) = Space <=> c = Space)
BY VideoAssumption DEF ascii, Code

LEMMA AfterType ==
  ASSUME NEW e \in Entries, NEW s \in Image
  PROVE  After(e, s) \in Image
<1>1. s.text \in [Place -> {Letter, Space}] /\ s.v \in 0..Bottom /\ s.sup \in 0..Cols
  BY DEF Image
<1>2. Shifted(s.text) \in [Place -> {Letter, Space}]
  <2>1. ASSUME NEW p \in Place, p[1] # Bottom PROVE <<p[1] + 1, p[2]>> \in Place
    <3>1. p[1] \in 0..Bottom /\ p[2] \in 0..Cols - 1
      BY PlaceParts
    <3>2. p[1] + 1 \in 0..Bottom
      BY <2>1, <3>1, Sizes
    <3> QED BY <3>1, <3>2, PlaceParts
  <2> QED BY <1>1, <2>1 DEF Shifted
<1>3. Put(s.text, ascii(e.char), e.v, e.h) \in [Place -> {Letter, Space}]
  BY <1>1, AsciiType DEF Put, Entries
<1>4. s.sup > 0 => [s EXCEPT !.sup = @ - 1] \in Image
  BY <1>1, Sizes DEF Image
<1>5. [text |-> Shifted(s.text), v |-> s.v, sup |-> Cols] \in Image
  BY <1>1, <1>2, Sizes DEF Image
<1>6. [text |-> Put(s.text, ascii(e.char), e.v, e.h), v |-> e.v, sup |-> s.sup] \in Image
  BY <1>1, <1>3 DEF Image, Entries
<1> QED BY <1>4, <1>5, <1>6 DEF After

----------------------------------------------------------------------------
(* What entries lead to *)

\* The first entry is handled.
LEMMA LeadTail ==
  ASSUME NEW p \in Seq(Entries), p # <<>>, NEW s, NEW t, Lead(p, s, t)
  PROVE  Fits(p[1], s) /\ Lead(Tail(p), After(p[1], s), t)
<1>1. PICK images : Screens(p, s, t, images)
  BY DEF Lead
<1> DEFINE n == Len(p)
           q == Tail(p)
           rest == Tail(images)
<1>2. n \in Nat /\ n > 0
  BY EmptySeq
<1>3. images \in Seq(Image) /\ Len(images) = n + 1 /\ images # <<>>
  BY <1>1, <1>2, EmptySeq DEF Screens
<1>4. q \in Seq(Entries) /\ Len(q) = n - 1 /\ \A i \in 1..Len(q) : q[i] = p[i + 1]
  BY HeadTailProperties
<1>5. rest \in Seq(Image) /\ Len(rest) = Len(images) - 1
      /\ \A i \in 1..Len(rest) : rest[i] = images[i + 1]
  BY <1>3, HeadTailProperties
<1>6. /\ images[1] = s /\ images[n + 1] = t
      /\ \A i \in 1..n : Fits(p[i], images[i]) /\ images[i + 1] = After(p[i], images[i])
  BY <1>1 DEF Screens
<1> HIDE DEF n, q, rest
<1>7. Len(rest) = n /\ 1 \in 1..n /\ n \in 1..n
  BY <1>2, <1>3, <1>5
<1>8. Fits(p[1], s) /\ images[1 + 1] = After(p[1], s)
  BY <1>6, <1>7
<1>9. rest[1] = After(p[1], s) /\ rest[n] = t
  BY <1>5, <1>6, <1>7, <1>8
<1>10. ASSUME NEW i \in 1..n - 1
       PROVE  Fits(q[i], rest[i]) /\ rest[i + 1] = After(q[i], rest[i])
  <2>1. i \in 1..n /\ i + 1 \in 1..n
    BY <1>2
  <2>2. q[i] = p[i + 1] /\ rest[i] = images[i + 1] /\ rest[i + 1] = images[i + 1 + 1]
    BY <1>4, <1>5, <1>7, <2>1
  <2> QED BY <1>6, <2>1, <2>2
<1>11. Len(q) = n - 1 /\ Len(q) + 1 = n
  BY <1>2, <1>4
<1>12. Screens(q, After(p[1], s), t, rest)
  BY <1>5, <1>7, <1>9, <1>10, <1>11 DEF Screens
<1> QED BY <1>8, <1>12 DEF Lead, q

\* An entry comes behind the others.
LEMMA LeadAppend ==
  ASSUME NEW p \in Seq(Entries), NEW e \in Entries, NEW s, NEW t \in Image,
         Lead(p, s, t), Fits(e, t)
  PROVE  Lead(Append(p, e), s, After(e, t))
<1>1. PICK images : Screens(p, s, t, images)
  BY DEF Lead
<1> DEFINE n == Len(p)
           q == Append(p, e)
           u == After(e, t)
           more == Append(images, u)
<1>2. n \in Nat /\ u \in Image /\ images \in Seq(Image) /\ Len(images) = n + 1
  BY <1>1, LenProperties, AfterType DEF Screens
<1>3. Len(q) = n + 1 /\ q[n + 1] = e /\ \A i \in 1..n : q[i] = p[i]
  BY AppendProperties
<1>4. more \in Seq(Image) /\ Len(more) = Len(images) + 1 /\ more[Len(images) + 1] = u
      /\ \A i \in 1..Len(images) : more[i] = images[i]
  BY <1>2, AppendProperties
<1>5. /\ images[1] = s /\ images[n + 1] = t
      /\ \A i \in 1..n : Fits(p[i], images[i]) /\ images[i + 1] = After(p[i], images[i])
  BY <1>1 DEF Screens
<1>0. u = After(e, t)
  OBVIOUS
<1> HIDE DEF n, q, u, more
<1>6. Len(more) = n + 1 + 1 /\ more[n + 1 + 1] = u /\ \A i \in 1..n + 1 : more[i] = images[i]
  BY <1>2, <1>4
<1>7. 1 \in 1..n + 1 /\ n + 1 \in 1..n + 1
  BY <1>2
<1>8. more[1] = s /\ more[n + 1] = t
  BY <1>5, <1>6, <1>7
<1>9. ASSUME NEW i \in 1..n + 1
      PROVE  Fits(q[i], more[i]) /\ more[i + 1] = After(q[i], more[i])
  <2>1. CASE i = n + 1
    BY <1>0, <1>3, <1>6, <1>8, <2>1
  <2>2. CASE i # n + 1
    <3>1. i \in 1..n /\ i + 1 \in 1..n + 1
      BY <1>2, <2>2
    <3> QED BY <1>3, <1>5, <1>6, <3>1
  <2> QED BY <2>1, <2>2
<1>10. Screens(q, s, u, more)
  BY <1>3, <1>4, <1>6, <1>8, <1>9 DEF Screens
<1> QED BY <1>10 DEF Lead, q, u

LEMMA LeadEmpty ==
  ASSUME NEW s \in Image, NEW t
  PROVE  Lead(<<>>, s, t) <=> s = t
<1>1. Len(<<>>) = 0
  OBVIOUS
<1>2. ASSUME Lead(<<>>, s, t) PROVE s = t
  BY <1>1, <1>2 DEF Lead, Screens
<1>3. <<s>> \in Seq(Image) /\ Len(<<s>>) = 1 /\ <<s>>[1] = s
  OBVIOUS
<1>4. Screens(<<>>, s, s, <<s>>)
  BY <1>1, <1>3 DEF Screens
<1> QED BY <1>2, <1>4 DEF Lead

----------------------------------------------------------------------------
(* The invariant *)

Typed ==
  /\ screen \in [Place -> Code] /\ shown \in [Place -> {Letter, Space}]
  /\ clearing \in 0..Cols /\ scroll_active \in BOOLEAN /\ last \in Place \cup {Hole}
  /\ fifo \in Seq(Entries) /\ vid \in Entries \cup {none}
  /\ prev_h \in -1..Cols - 1 /\ prev_v \in 0..Bottom /\ space_supress \in 0..Cols
  /\ cursor_h \in Int /\ cursor_v \in Int /\ (cursor_h = -1 => cursor_v = -1) /\ cursor_h >= -1

\* The hardware's scroll: the first line is moved, and all but the bottom line.
Scrolling ==
  /\ scroll_active <=> clearing = 0
  /\ scroll_active => last = <<Bottom - 1, 0>>
  /\ \A c \in 0..clearing - 1 : clearing < Cols => screen[<<Bottom, c>>] = Space

\* The image that the text page promises.
Promised(t) ==
  /\ t.sup = IF scroll_active THEN 0 ELSE Cols - clearing
  /\ clearing < Cols \/ (last \in Place /\ last[1] = Bottom) => t.v = Bottom
  /\ IF scroll_active
       THEN \A p \in Place : p[1] < Bottom => t.text[<<p[1] + 1, p[2]>>] = ascii(screen[p])
       ELSE \A p \in Place :
              t.text[p] = IF p[1] = Bottom /\ clearing < Cols THEN Space ELSE ascii(screen[p])

Kept == \E t \in Image : Lead(Pending, Now, t) /\ Promised(t)

\* What the 6502 wrote last, if it is a flashing character.
LastShown ==
  clearing = Cols /\ last \in Place /\ screen[last] = Flash =>
    IF Pending = <<>>
      THEN /\ cursor_h = last[2] /\ cursor_v = last[1] /\ prev_v = last[1]
           /\ prev_h = last[2] - 1 \/ (at = "loop" /\ prev_h = last[2])
      ELSE Pending[Len(Pending)] = Entry(Flash, last, "none")

VideoInv == Typed /\ Scrolling /\ CursorTracked /\ Kept /\ LastShown

----------------------------------------------------------------------------
(* The queue *)

LEMMA PendingType ==
  ASSUME Typed
  PROVE  /\ Pending \in Seq(Entries) /\ Now \in Image
         /\ vid = none => Pending = fifo
         /\ vid # none => vid \in Entries /\ Pending # <<>> /\ Pending[1] = vid /\ Tail(Pending) = fifo
<1>1. Now \in Image
  BY DEF Typed, Now, Image
<1>2. CASE vid = none
  BY <1>1, <1>2 DEF Typed, Pending
<1>3. CASE vid # none
  <2>1. vid \in Entries /\ fifo \in Seq(Entries) /\ <<vid>> \in Seq(Entries) /\ Len(<<vid>>) = 1
        /\ <<vid>>[1] = vid
    BY <1>3 DEF Typed
  <2>2. Pending = <<vid>> \o fifo
    BY <1>3 DEF Pending
  <2> DEFINE one == <<vid>>
             p == one \o fifo
  <2> HIDE DEF one
  <2>3. /\ p \in Seq(Entries) /\ Len(p) = Len(one) + Len(fifo)
        /\ \A i \in 1..Len(one) + Len(fifo) :
             p[i] = IF i <= Len(one) THEN one[i] ELSE fifo[i - Len(one)]
    BY <2>1, ConcatProperties, Zenon DEF one
  <2>4. Len(one) = 1 /\ one[1] = vid /\ Len(fifo) \in Nat
    BY <2>1, LenProperties DEF one
  <2> HIDE DEF p
  <2> DEFINE n == Len(fifo)
  <2>5. n \in Nat /\ Len(p) = n + 1 /\ p[1] = vid /\ \A i \in 1..n : p[i + 1] = fifo[i]
    <3>1. n \in Nat
      BY <2>4
    <3>2. Len(p) = 1 + n /\ \A i \in 1..1 + n : p[i] = IF i <= 1 THEN one[i] ELSE fifo[i - 1]
      BY <2>3, <2>4, Zenon
    <3> HIDE DEF n
    <3>3. p[1] = vid /\ Len(p) = n + 1
      BY <2>4, <3>1, <3>2
    <3>4. ASSUME NEW i \in 1..n PROVE p[i + 1] = fifo[i]
      <4>1. i + 1 \in 1..1 + n /\ ~(i + 1 <= 1) /\ i + 1 - 1 = i
        BY <3>1
      <4> QED BY <3>2, <4>1
    <3> QED BY <3>1, <3>3, <3>4
  <2>6. p # <<>>
    <3>1. Len(<<>>) = 0
      OBVIOUS
    <3> HIDE DEF n
    <3> QED BY <2>5, <3>1
  <2>7. Tail(p) = fifo
    <3>1. /\ Tail(p) \in Seq(Entries) /\ Len(Tail(p)) = Len(p) - 1
          /\ \A i \in 1..Len(Tail(p)) : Tail(p)[i] = p[i + 1]
      BY <2>3, <2>6, HeadTailProperties, Zenon
    <3> DEFINE r == Tail(p)
    <3>2. r \in Seq(Entries) /\ Len(r) = n /\ \A i \in 1..Len(r) : r[i] = fifo[i]
      <4>1. Len(r) = Len(p) - 1 /\ \A i \in 1..Len(r) : r[i] = p[i + 1]
        BY <3>1, Zenon
      <4> HIDE DEF r, n
      <4>2. Len(r) = n
        BY <2>5, <4>1
      <4>3. \A i \in 1..Len(r) : r[i] = fifo[i]
        BY <2>5, <4>1, <4>2, Zenon
      <4> QED BY <3>1, <4>2, <4>3, Zenon DEF r
    <3> HIDE DEF r
    <3>3. r = fifo
      BY <2>1, <3>2, SeqEqual, Zenon
    <3> QED BY <3>3 DEF r
  <2>8. Pending = p
    BY <2>2 DEF p, one
  <2> QED BY <1>1, <1>3, <2>1, <2>3, <2>5, <2>6, <2>7, <2>8, Zenon
<1> QED BY <1>2, <1>3

\* An entry is taken when there is none in hand, and nothing is lost.
LEMMA ReadsFirst ==
  ASSUME Typed, Read
  PROVE  fifo' \in Seq(Entries) /\ vid' \in Entries \cup {none} /\ Pending' = fifo
<1>1. CASE fifo = <<>>
  <2>1. vid' = none /\ fifo' = fifo
    BY <1>1 DEF Read
  <2> QED BY <2>1 DEF Pending, Typed
<1>2. CASE fifo # <<>>
  <2>1. vid' = Head(fifo) /\ fifo' = Tail(fifo) /\ fifo \in Seq(Entries)
    BY <1>2 DEF Read, Typed
  <2>2. Head(fifo) \in Entries /\ Tail(fifo) \in Seq(Entries)
    BY <1>2, <2>1, HeadTailProperties, Zenon
  <2>3. Pending' = <<Head(fifo)>> \o Tail(fifo)
    BY <2>1, <2>2, EntryIsSome DEF Pending
  <2> DEFINE h == Head(fifo)
             r == Tail(fifo)
             one == <<h>>
             p == one \o r
  <2>4. one \in Seq(Entries) /\ Len(one) = 1 /\ one[1] = h
    BY <2>2
  <2>5. r \in Seq(Entries) /\ Len(r) = Len(fifo) - 1 /\ \A i \in 1..Len(r) : r[i] = fifo[i + 1]
    BY <1>2, <2>1, HeadTailProperties, Zenon
  <2>6. h = fifo[1] /\ Len(fifo) \in Nat /\ Len(fifo) > 0
    BY <1>2, <2>1, EmptySeq
  <2> HIDE DEF h, r, one
  <2>7. /\ p \in Seq(Entries) /\ Len(p) = Len(one) + Len(r)
        /\ \A i \in 1..Len(one) + Len(r) : p[i] = IF i <= Len(one) THEN one[i] ELSE r[i - Len(one)]
    <3>1. one \in Seq(Entries) /\ r \in Seq(Entries)
      BY <2>4, <2>5, Zenon
    <3> QED BY <3>1, ConcatProperties, Zenon
  <2> HIDE DEF p
  <2>8. Len(p) = Len(fifo) /\ \A i \in 1..Len(p) : p[i] = fifo[i]
    <3> DEFINE n == Len(fifo)
    <3>1. Len(p) = 1 + (n - 1) /\ n \in Nat /\ n > 0 /\ h = fifo[1]
          /\ \A i \in 1..1 + (n - 1) : p[i] = IF i <= 1 THEN one[i] ELSE r[i - 1]
      BY <2>4, <2>5, <2>6, <2>7, Zenon
    <3>2. \A i \in 1..n - 1 : r[i] = fifo[i + 1]
      BY <2>5, Zenon
    <3> HIDE DEF n
    <3>3. Len(p) = n
      BY <3>1
    <3>4. ASSUME NEW i \in 1..n PROVE p[i] = fifo[i]
      <4>1. i \in 1..1 + (n - 1)
        BY <3>1
      <4>2. CASE i = 1
        BY <2>4, <3>1, <4>1, <4>2
      <4>3. CASE i # 1
        <5>1. i - 1 \in 1..n - 1 /\ i - 1 + 1 = i /\ ~(i <= 1)
          BY <3>1, <4>3
        <5>2. p[i] = r[i - 1]
          BY <3>1, <4>1, <5>1
        <5> QED BY <3>2, <5>1, <5>2
      <4> QED BY <4>2, <4>3
    <3> QED BY <3>3, <3>4 DEF n
  <2>9. p = fifo
    BY <2>1, <2>7, <2>8, SeqEqual, Zenon
  <2> QED BY <2>1, <2>2, <2>3, <2>9 DEF p, h, r, one
<1> QED BY <1>1, <1>2

\* The queue with other entries in the FIFO.
Queue(f) == IF vid = none THEN f ELSE <<vid>> \o f

LEMMA QueueAppend ==
  ASSUME Typed, NEW f \in Seq(Entries), NEW e \in Entries
  PROVE  Queue(f) \in Seq(Entries) /\ Queue(Append(f, e)) = Append(Queue(f), e)
<1>1. CASE vid = none
  BY <1>1 DEF Queue
<1>2. CASE vid # none
  <2> DEFINE one == <<vid>>
  <2>1. one \in Seq(Entries) /\ <<e>> \in Seq(Entries)
    BY <1>2 DEF Typed
  <2>2. Queue(f) = one \o f /\ Queue(Append(f, e)) = one \o Append(f, e)
    BY <1>2 DEF Queue
  <2> HIDE DEF one
  <2>3. one \o f \in Seq(Entries)
    BY <2>1, ConcatProperties, Zenon
  <2>4. Append(f, e) = f \o <<e>> /\ Append(one \o f, e) = (one \o f) \o <<e>>
    BY <2>3, AppendIsConcat
  <2>5. (one \o f) \o <<e>> = one \o (f \o <<e>>)
    <3> DEFINE two == <<e>>
    <3>1. one \in Seq(Entries) /\ f \in Seq(Entries) /\ two \in Seq(Entries)
      BY <2>1
    <3> HIDE DEF two
    <3>2. (one \o f) \o two = one \o (f \o two)
      BY <3>1, ConcatAssociative
    <3> QED BY <3>2 DEF two
  <2> QED BY <2>2, <2>3, <2>4, <2>5, Zenon
<1> QED BY <1>1, <1>2

----------------------------------------------------------------------------
(* video_task handles an entry *)

LEMMA FitsNow == ASSUME Typed, Kept, vid # none PROVE Fits(vid, Now)
<1>1. PICK t \in Image : Lead(Pending, Now, t)
  BY DEF Kept
<1>2. Pending \in Seq(Entries) /\ Pending # <<>> /\ Pending[1] = vid
  BY PendingType
<1> DEFINE p == Pending
           s == Now
<1> HIDE DEF p, s
<1>3. Fits(p[1], s)
  <2>1. p \in Seq(Entries) /\ p # <<>> /\ Lead(p, s, t)
    BY <1>1, <1>2 DEF p, s
  <2> QED BY <2>1, LeadTail, Zenon
<1> QED BY <1>2, <1>3 DEF p, s

LEMMA KeptHandled ==
  ASSUME Typed, Kept, vid # none, Read, UNCHANGED apple, Now' = After(vid, Now)
  PROVE  Kept'
<1>1. PICK t \in Image : Lead(Pending, Now, t) /\ Promised(t)
  BY DEF Kept
<1>2. /\ Pending \in Seq(Entries) /\ Pending # <<>> /\ Pending[1] = vid
      /\ Tail(Pending) = fifo /\ Pending' = fifo
  BY PendingType, ReadsFirst
<1> DEFINE p == Pending
           s == Now
<1> HIDE DEF p, s
<1>3. Lead(Tail(p), After(p[1], s), t)
  <2>1. p \in Seq(Entries) /\ p # <<>> /\ Lead(p, s, t)
    BY <1>1, <1>2 DEF p, s
  <2> QED BY <2>1, LeadTail, Zenon
<1>4. Lead(Pending', Now', t)
  BY <1>2, <1>3 DEF p, s
<1>5. Promised(t)'
  BY <1>1 DEF Promised, apple
<1> QED BY <1>4, <1>5 DEF Kept

LEMMA LastHandled ==
  ASSUME Typed, LastShown, vid # none, Read, UNCHANGED apple,
         vid.flag = "none" /\ ~Off(vid) /\ vid.char = Flash =>
           /\ cursor_h' = vid.h /\ cursor_v' = vid.v /\ prev_h' = vid.h /\ prev_v' = vid.v
           /\ at' = "loop"
  PROVE  LastShown'
<1> SUFFICES ASSUME clearing = Cols, last \in Place, screen[last] = Flash
             PROVE  IF Pending' = <<>>
                      THEN /\ cursor_h' = last[2] /\ cursor_v' = last[1] /\ prev_v' = last[1]
                           /\ prev_h' = last[2] - 1 \/ (at' = "loop" /\ prev_h' = last[2])
                      ELSE Pending'[Len(Pending')] = Entry(Flash, last, "none")
  BY DEF LastShown, apple
<1>1. /\ Pending \in Seq(Entries) /\ Pending # <<>> /\ Pending[1] = vid
      /\ Tail(Pending) = fifo /\ Pending' = fifo
  BY PendingType, ReadsFirst
<1> DEFINE p == Pending
           e == Entry(Flash, last, "none")
           n == Len(p)
<1>2. p[n] = e
  BY <1>1 DEF LastShown
<1>3. Flash \in Code /\ "none" \in {"none", "start", "end"} /\ last # Hole
  BY PlaceParts DEF Code
<1>4. e.flag = "none" /\ ~Off(e) /\ e.char = Flash /\ e.v = last[1] /\ e.h = last[2]
  BY <1>3, EntryType
<1>5. n \in Nat /\ n > 0
  BY <1>1, EmptySeq
<1>6. fifo \in Seq(Entries) /\ Len(fifo) = n - 1 /\ \A i \in 1..Len(fifo) : fifo[i] = p[i + 1]
  BY <1>1, HeadTailProperties, Zenon
<1>7. p[1] = vid
  BY <1>1
<1> HIDE DEF p, e, n
<1>8. CASE fifo = <<>>
  <2>1. n = 1
    BY <1>5, <1>6, <1>8, EmptySeq
  <2>2. vid = e
    BY <1>2, <1>7, <2>1
  <2> QED BY <1>1, <1>4, <1>8, <2>2
<1>9. CASE fifo # <<>>
  <2> DEFINE m == Len(fifo)
  <2>1. m \in Nat /\ m > 0
    BY <1>6, <1>9, EmptySeq
  <2> HIDE DEF m
  <2>2. m \in 1..m /\ m + 1 = n
    BY <1>5, <1>6, <2>1 DEF m
  <2>3. fifo[m] = p[m + 1]
    BY <1>6, <2>2 DEF m
  <2>4. fifo[m] = e
    BY <1>2, <2>2, <2>3
  <2> QED BY <1>1, <1>9, <2>4 DEF e, m
<1> QED BY <1>8, <1>9

LEMMA CursorType ==
  ASSUME Typed, vid # none, a2toascii
  PROVE  /\ cursor_h' \in Int /\ cursor_v' \in Int /\ (cursor_h' = -1 => cursor_v' = -1)
         /\ cursor_h' >= -1
<1>1. vid.h \in 0..Cols /\ vid.v \in 0..Bottom
  BY DEF Typed, Entries
<1> QED BY <1>1, Sizes DEF a2toascii, Typed

\* An entry has been handled: nothing else remains to be shown than that the
\* terminal and the variables are as After says, and the cursor is tracked.
LEMMA Handled ==
  ASSUME VideoInv, vid # none, Read, a2toascii, UNCHANGED apple, at' \in {"out", "loop"},
         Now' = After(vid, Now), prev_h' \in -1..Cols - 1, CursorTracked',
         vid.flag = "none" /\ ~Off(vid) /\ vid.char = Flash =>
           prev_h' = vid.h /\ prev_v' = vid.v /\ at' = "loop"
  PROVE  VideoInv'
<1>1. Typed /\ Kept /\ LastShown /\ Scrolling /\ vid \in Entries /\ Now \in Image
  BY PendingType DEF VideoInv
<1>2. Now' \in Image
  BY <1>1, AfterType
<1>3. shown' \in [Place -> {Letter, Space}] /\ prev_v' \in 0..Bottom /\ space_supress' \in 0..Cols
  BY <1>2 DEF Now, Image
<1>4. Typed'
  BY <1>1, <1>3, CursorType, ReadsFirst DEF Typed, apple
<1>5. Kept'
  BY <1>1, KeptHandled
<1>6. LastShown'
  <2>1. vid.char = Flash => cursor_h' = vid.h /\ cursor_v' = vid.v
    BY DEF a2toascii
  <2> QED BY <1>1, <2>1, LastHandled
<1>7. Scrolling'
  BY <1>1 DEF Scrolling, apple
<1> QED BY <1>4, <1>5, <1>6, <1>7 DEF VideoInv

\* An entry that is on the screen, and what it says.
LEMMA VidParts ==
  ASSUME Typed, vid # none
  PROVE  /\ vid \in Entries /\ vid.char \in Code /\ vid.v \in 0..Bottom /\ vid.h \in 0..Cols
         /\ vid.flag \in {"none", "start", "end"}
         /\ OffScreen <=> Off(vid)
         /\ ~OffScreen => vid.h \in 0..Cols - 1
BY Sizes DEF Typed, Entries, OffScreen, Off

LEMMA OffScreenStep == ASSUME VideoInv, off_screen PROVE VideoInv'
<1>1. /\ vid # none /\ OffScreen /\ Read /\ a2toascii /\ UNCHANGED apple
      /\ UNCHANGED <<at, prev_h, prev_v, space_supress, shown, line, col>>
  BY DEF off_screen, InLoop, terminal
<1>2. Now' = After(vid, Now)
  BY <1>1, VidParts DEF VideoInv, After, Now
<1>3. at' \in {"out", "loop"} /\ prev_h' \in -1..Cols - 1 /\ CursorTracked'
  BY <1>1 DEF VideoInv, CursorTracked, Typed, off_screen, InLoop
<1>4. Off(vid)
  BY <1>1, VidParts DEF VideoInv
<1> QED BY <1>1, <1>2, <1>3, <1>4, Handled

LEMMA ScrollBeginsStep == ASSUME VideoInv, scroll_begins PROVE VideoInv'
<1>1. /\ vid # none /\ ~OffScreen /\ vid.flag = "start" /\ Read /\ a2toascii /\ UNCHANGED apple
      /\ UNCHANGED <<at, prev_h, prev_v, space_supress, shown, line, col>> /\ at = "loop"
  BY DEF scroll_begins, InLoop, terminal
<1>2. Now' = After(vid, Now)
  BY <1>1, VidParts DEF VideoInv, After, Now
<1>3. at' \in {"out", "loop"} /\ prev_h' \in -1..Cols - 1 /\ CursorTracked'
  BY <1>1 DEF VideoInv, CursorTracked, Typed
<1> QED BY <1>1, <1>2, <1>3, Handled

\* The newline comes while the cursor is on the bottom line, so that it scrolls.
LEMMA ScrollEndsStep ==
  ASSUME VideoInv, scroll_ends, Room PROVE VideoInv'
<1>1. /\ vid # none /\ ~OffScreen /\ vid.flag = "end" /\ Read /\ a2toascii /\ UNCHANGED apple
      /\ newline /\ prev_h' = -1 /\ space_supress' = Cols /\ UNCHANGED <<at, prev_v>> /\ at = "loop"
  BY DEF scroll_ends, InLoop, enhanced_scroll, AfterNewline, Received, Room
<1>2. prev_v = Bottom /\ line = Bottom /\ Now.v = prev_v /\ Now.text = shown
  <2>1. Fits(vid, Now)
    BY <1>1, FitsNow DEF VideoInv
  <2> QED BY <1>1, <2>1 DEF Fits, Now, VideoInv, CursorTracked
<1>3. shown' = Shifted(shown) /\ line' = line /\ col' = 0
  BY <1>1, <1>2 DEF newline, Scrolled, Shifted
<1>4. Now' = After(vid, Now)
  <2>1. ~Off(vid)
    BY <1>1, VidParts DEF VideoInv
  <2>2. After(vid, Now) = [text |-> Shifted(shown), v |-> prev_v, sup |-> Cols]
    BY <1>1, <1>2, <2>1 DEF After
  <2> QED BY <1>1, <1>3, <2>2 DEF Now
<1>5. prev_h' \in -1..Cols - 1 /\ CursorTracked' /\ at' \in {"out", "loop"}
  BY <1>1, <1>2, <1>3, Sizes DEF CursorTracked
<1> QED BY <1>1, <1>4, <1>5, Handled

LEMMA SupressStep == ASSUME VideoInv, supress PROVE VideoInv'
<1>1. /\ vid # none /\ ~OffScreen /\ vid.flag = "none" /\ Read /\ a2toascii /\ UNCHANGED apple
      /\ ascii(vid.char) = Space /\ space_supress > 0 /\ space_supress' = space_supress - 1
      /\ UNCHANGED <<at, prev_h, prev_v, shown, line, col>> /\ at = "loop"
  BY DEF supress, InLoop, terminal
<1>2. Now' = After(vid, Now)
  <2>1. ~Off(vid) /\ Now.sup = space_supress
    BY <1>1, VidParts DEF VideoInv, Now
  <2>2. After(vid, Now) = [Now EXCEPT !.sup = @ - 1]
    BY <1>1, <2>1 DEF After
  <2> QED BY <1>1, <2>2 DEF Now
<1>3. at' \in {"out", "loop"} /\ prev_h' \in -1..Cols - 1 /\ CursorTracked'
  BY <1>1 DEF VideoInv, CursorTracked, Typed
<1>4. vid.char # Flash
  BY <1>1, VideoAssumption DEF ascii
<1> QED BY <1>1, <1>2, <1>3, <1>4, Handled

\* However video_task moves the cursor, it gets to where the character belongs.
LEMMA MovedRight ==
  ASSUME NEW v \in 0..Bottom, NEW h \in 0..Cols - 1, CursorTracked,
         prev_v \in 0..Bottom, prev_h \in -1..Cols - 1
  PROVE  Moved(v, h) = <<v, h>>
<1>1. line = prev_v /\ col = prev_h + 1
  BY DEF CursorTracked
<1>2. CASE v = prev_v
  <2>1. CASE h = prev_h + 1
    BY <1>1, <1>2, <2>1 DEF Moved
  <2>2. CASE h # prev_h + 1 /\ h = 0
    BY <1>1, <1>2, <2>2 DEF Moved
  <2>3. CASE h # prev_h + 1 /\ h # 0 /\ h <= prev_h /\ prev_h - h < Near
    <3>1. col > Backspaces(h) /\ col - Backspaces(h) = h
      BY <1>1, <2>3, Sizes DEF Backspaces
    <3> QED BY <1>1, <1>2, <2>3, <3>1 DEF Moved
  <2>4. CASE h # prev_h + 1 /\ h # 0 /\ ~(h <= prev_h /\ prev_h - h < Near)
    BY <1>1, <1>2, <2>4 DEF Moved
  <2> QED BY <2>1, <2>2, <2>3, <2>4
<1>3. CASE v # prev_v /\ h = 0 /\ v = prev_v + 1
  <2>1. line # Bottom
    BY <1>1, <1>3, Sizes
  <2> QED BY <1>1, <1>3, <2>1 DEF Moved
<1>4. CASE v # prev_v /\ ~(h = 0 /\ v = prev_v + 1)
  BY <1>4 DEF Moved
<1> QED BY <1>2, <1>3, <1>4

LEMMA PrintStep == ASSUME VideoInv, print, Room PROVE VideoInv'
<1>1. /\ vid # none /\ ~OffScreen /\ vid.flag = "none" /\ Read /\ a2toascii /\ UNCHANGED apple
      /\ ~(ascii(vid.char) = Space /\ space_supress > 0)
      /\ prev_h' = vid.h /\ prev_v' = vid.v
      /\ PutAt(ascii(vid.char), Moved(vid.v, vid.h)[1], Moved(vid.v, vid.h)[2])
      /\ UNCHANGED <<at, space_supress>> /\ at = "loop"
  BY DEF print, InLoop, Printed, Room
<1>2. vid.v \in 0..Bottom /\ vid.h \in 0..Cols - 1 /\ ~Off(vid)
  BY <1>1, VidParts DEF VideoInv
<1>3. Moved(vid.v, vid.h) = <<vid.v, vid.h>>
  BY <1>2, MovedRight DEF VideoInv, Typed
<1>4. PutAt(ascii(vid.char), vid.v, vid.h)
  BY <1>1, <1>3
<1>5. /\ shown' = Put(shown, ascii(vid.char), vid.v, vid.h)
      /\ line' = vid.v /\ col' = vid.h + 1
  BY <1>4 DEF PutAt, Put
<1>6. Now' = After(vid, Now)
  <2>1. Now.text = shown /\ Now.sup = space_supress
    BY DEF Now
  <2>2. After(vid, Now) = [text |-> Put(shown, ascii(vid.char), vid.v, vid.h),
                           v |-> vid.v, sup |-> space_supress]
    BY <1>1, <1>2, <2>1 DEF After
  <2> QED BY <1>1, <1>5, <2>2 DEF Now
<1>7. at' \in {"out", "loop"} /\ prev_h' \in -1..Cols - 1 /\ CursorTracked'
  BY <1>1, <1>2, <1>5 DEF CursorTracked
<1> QED BY <1>1, <1>6, <1>7, Handled

----------------------------------------------------------------------------
(* video_task without an entry *)

LEMMA EnterStep == ASSUME VideoInv, video_task PROVE VideoInv'
<1>1. /\ at = "out" /\ at' = "loop" /\ UNCHANGED <<apple, cursor, terminal>>
      /\ Now' = Now
  BY DEF video_task, cursor, terminal, Now
<1>2. fifo' \in Seq(Entries) /\ vid' \in Entries \cup {none} /\ Pending' = Pending
  <2>1. CASE vid = none
    BY <2>1, ReadsFirst, PendingType DEF video_task, VideoInv
  <2>2. CASE vid # none
    BY <2>2 DEF video_task, VideoInv, Typed, Pending
  <2> QED BY <2>1, <2>2
<1>3. Typed' /\ Scrolling' /\ CursorTracked'
  BY <1>1, <1>2 DEF VideoInv, Typed, Scrolling, CursorTracked, apple, cursor, terminal
<1>4. Kept'
  BY <1>1, <1>2 DEF VideoInv, Kept, Promised, apple
<1>5. LastShown'
  BY <1>1, <1>2 DEF VideoInv, LastShown, apple, cursor
<1> QED BY <1>3, <1>4, <1>5 DEF VideoInv

\* The cursor goes back onto a flashing character.
LEMMA LeaveStep == ASSUME VideoInv, leave, Room PROVE VideoInv'
<1>1. /\ at' = "out" /\ Now' = Now /\ Pending' = Pending
      /\ UNCHANGED <<apple, fifo, vid, shown, prev_v, cursor_h, cursor_v, space_supress, line>>
  BY DEF leave, Now, Pending, Received, backspace, terminal, Room
<1>2. CASE ~BackOnCursor
  <2>1. UNCHANGED <<prev_h, col>>
    BY <1>2 DEF leave, terminal
  <2>2. Typed' /\ Scrolling' /\ CursorTracked' /\ Kept'
    BY <1>1, <2>1 DEF VideoInv, Typed, Scrolling, CursorTracked, Kept, Promised, apple
  <2>3. LastShown'
    BY <1>1, <1>2, <2>1 DEF VideoInv, LastShown, BackOnCursor, apple
  <2> QED BY <2>2, <2>3 DEF VideoInv
<1>3. CASE BackOnCursor
  <2>1. /\ prev_h' = prev_h - 1 /\ col' = IF col > 0 THEN col - 1 ELSE 0
        /\ cursor_h = prev_h /\ cursor_v = prev_v
    BY <1>3 DEF leave, BackOnCursor, Received, backspace, Room
  <2>2. prev_h \in 0..Cols - 1 /\ col = prev_h + 1 /\ line = prev_v
    BY <2>1 DEF VideoInv, Typed, CursorTracked
  <2>3. prev_h' \in -1..Cols - 1 /\ col' = prev_h' + 1
    BY <2>1, <2>2, Sizes
  <2>4. Typed' /\ Scrolling' /\ CursorTracked' /\ Kept'
    BY <1>1, <2>2, <2>3 DEF VideoInv, Typed, Scrolling, CursorTracked, Kept, Promised, apple
  <2>5. LastShown'
    <3> SUFFICES ASSUME clearing = Cols, last \in Place, screen[last] = Flash, Pending = <<>>
                 PROVE  /\ cursor_h = last[2] /\ cursor_v = last[1] /\ prev_v = last[1]
                        /\ prev_h' = last[2] - 1
      BY <1>1 DEF LastShown, VideoInv, apple
    <3>1. cursor_h = last[2] /\ cursor_v = last[1] /\ prev_v = last[1]
      BY DEF VideoInv, LastShown
    <3> QED BY <2>1, <3>1
  <2> QED BY <2>4, <2>5 DEF VideoInv
<1> QED BY <1>2, <1>3

----------------------------------------------------------------------------
(* The 6502 and the hardware *)

\* An entry is pushed, and the text page promises what comes of it.
LEMMA KeptPushed ==
  ASSUME Typed, Now' = Now, vid' = vid, NEW t \in Image, Lead(Pending, Now, t),
         NEW e \in Entries, Fits(e, t), fifo' = Append(fifo, e), Promised(After(e, t))'
  PROVE  Kept' /\ fifo' \in Seq(Entries) /\ Pending' # <<>> /\ Pending'[Len(Pending')] = e
<1>1. fifo \in Seq(Entries) /\ Pending \in Seq(Entries)
  BY PendingType DEF Typed
<1>2. Pending = Queue(fifo) /\ Pending' = Append(Pending, e)
  BY <1>1, QueueAppend DEF Pending, Queue
<1> DEFINE p == Pending
           s == Now
           u == After(e, t)
           q == Append(p, e)
<1>3. u \in Image
  BY AfterType
<1>4. q \in Seq(Entries) /\ Len(q) = Len(p) + 1 /\ q[Len(p) + 1] = e /\ Len(p) \in Nat
  BY <1>1, AppendProperties, LenProperties
<1>5. Pending' = q /\ Len(p) + 1 # 0 /\ Promised(u)'
  BY <1>2, <1>4
<1>6. p \in Seq(Entries) /\ Lead(p, s, t)
  BY <1>1
<1> HIDE DEF p, s
<1>7. Lead(q, s, u)
  BY <1>6, LeadAppend
<1> HIDE DEF q, u
<1>8. q # <<>>
  <2>1. Len(<<>>) = 0
    OBVIOUS
  <2> QED BY <1>4, <2>1
<1>9. Kept'
  BY <1>3, <1>5, <1>7 DEF Kept, s
<1>10. fifo' \in Seq(Entries)
  BY <1>1, AppendProperties
<1> QED BY <1>4, <1>5, <1>8, <1>9, <1>10

\* The first write after a scroll pushes two entries.
LEMMA KeptPushedTwice ==
  ASSUME Typed, Now' = Now, vid' = vid, NEW t \in Image, Lead(Pending, Now, t),
         NEW e \in Entries, NEW d \in Entries, Fits(e, t), Fits(d, After(e, t)),
         fifo' = fifo \o <<e, d>>, Promised(After(d, After(e, t)))'
  PROVE  Kept' /\ fifo' \in Seq(Entries)
<1> DEFINE f == Append(fifo, e)
           p == Pending
           s == Now
           u == After(e, t)
           w == After(d, u)
<1>1. fifo \in Seq(Entries) /\ f \in Seq(Entries) /\ p \in Seq(Entries)
  BY PendingType, AppendProperties DEF Typed
<1>2. fifo' = Append(f, d)
  BY <1>1
<1>3. fifo' \in Seq(Entries)
  BY <1>1, <1>2, AppendProperties
<1>4. u \in Image /\ w \in Image /\ Promised(w)' /\ Fits(d, u)
  BY AfterType
<1>5. Lead(p, s, t) /\ Append(p, e) \in Seq(Entries)
  BY <1>1, AppendProperties
<1>6. Pending' = Append(Append(p, e), d)
  <2>1. p = Queue(fifo) /\ Queue(f) = Append(p, e) /\ Queue(Append(f, d)) = Append(Queue(f), d)
    BY <1>1, QueueAppend DEF Pending, Queue
  <2>2. Pending' = Queue(Append(f, d))
    BY <1>2 DEF Pending, Queue
  <2> QED BY <2>1, <2>2
<1> HIDE DEF p, s
<1>7. Lead(Append(p, e), s, u)
  BY <1>1, <1>5, LeadAppend
<1> HIDE DEF u
<1>8. Lead(Append(Append(p, e), d), s, w)
  BY <1>4, <1>5, <1>7, LeadAppend
<1> HIDE DEF w
<1>9. Kept'
  BY <1>4, <1>6, <1>8 DEF Kept, s
<1> QED BY <1>3, <1>9

\* What a write is, but for its entries.
LEMMA WriteParts ==
  ASSUME NEW char \in Code, NEW place \in Place \cup {Hole}, VideoInv, Write(char, place)
  PROVE  /\ scroll_active' = FALSE /\ last' = place /\ vid' = vid /\ Now' = Now
         /\ UNCHANGED <<at, cursor, terminal>>
         /\ screen' \in [Place -> Code]
         /\ \A p \in Place : screen'[p] = IF p = place THEN char ELSE screen[p]
         /\ fifo' = Push(char, place)
BY DEF Write, VideoInv, Typed, Now, cursor, terminal

LEMMA WriteStep == ASSUME VideoInv, write PROVE VideoInv'
<1>1. PICK char \in Code, place \in Place \cup {Hole} : Write(char, place)
  BY DEF write
<1>2. /\ scroll_active' = FALSE /\ last' = place /\ vid' = vid /\ Now' = Now
      /\ UNCHANGED <<at, cursor, terminal>>
      /\ screen' \in [Place -> Code] /\ screen \in [Place -> Code]
      /\ \A p \in Place : screen'[p] = IF p = place THEN char ELSE screen[p]
  BY <1>1, WriteParts DEF VideoInv, Typed
<1>3. clearing = Cols /\ clearing' = Cols /\ ~scroll_active /\ clearing > 0
  BY Sizes DEF write, VideoInv, Scrolling
<1> DEFINE e == Entry(char, place, "none")
<1>4. fifo' = Append(fifo, e)
  BY <1>1, <1>3, WriteParts DEF Push
<1>5. /\ e \in Entries /\ e.char = char /\ e.flag = "none" /\ e.v = place[1] /\ e.h = place[2]
      /\ (Off(e) <=> place = Hole)
  BY EntryType
<1> HIDE DEF e
<1>6. PICK t \in Image : Lead(Pending, Now, t) /\ Promised(t)
  BY DEF VideoInv, Kept
<1>7. Fits(e, t)
  BY <1>5 DEF Fits
<1>8. t.sup = 0 /\ \A p \in Place : t.text[p] = ascii(screen[p])
  BY <1>3, <1>6, Sizes DEF Promised
<1>9. Promised(After(e, t))'
  <2>1. CASE place = Hole
    <3>1. After(e, t) = t /\ screen' = screen /\ last' = Hole
      <4>1. After(e, t) = t
        BY <1>5, <2>1 DEF After
      <4>2. last' = Hole /\ \A p \in Place : screen'[p] = screen[p]
        BY <1>2, <2>1, PlaceParts
      <4> QED BY <1>2, <4>1, <4>2
    <3>2. last' \notin Place
      BY <3>1, PlaceParts
    <3> QED BY <1>2, <1>3, <1>8, <3>1, <3>2, Sizes DEF Promised
  <2>2. CASE place \in Place
    <3>1. ~Off(e)
      BY <1>5, <2>2, PlaceParts
    <3>2. After(e, t) = [text |-> Put(t.text, ascii(char), place[1], place[2]),
                         v |-> place[1], sup |-> t.sup]
      BY <1>5, <1>8, <3>1 DEF After
    <3>3. ASSUME NEW p \in Place PROVE Put(t.text, ascii(char), place[1], place[2])[p] = ascii(screen'[p])
      <4>1. place = <<place[1], place[2]>>
        BY <2>2, PlaceParts
      <4>2. Put(t.text, ascii(char), place[1], place[2])[p]
              = IF p = place THEN ascii(char) ELSE t.text[p]
        BY <4>1 DEF Put
      <4>3. CASE p = place
        BY <1>2, <4>2, <4>3
      <4>4. CASE p # place
        <5>1. screen'[p] = screen[p]
          BY <1>2, <4>4
        <5> QED BY <1>8, <4>2, <4>4, <5>1
      <4> QED BY <4>3, <4>4
    <3> QED BY <1>3, <1>8, <1>2, <3>2, <3>3, Sizes DEF Promised
  <2> QED BY <2>1, <2>2
<1>10. Kept' /\ fifo' \in Seq(Entries) /\ Pending' # <<>> /\ Pending'[Len(Pending')] = e
  <2>1. Typed /\ Now' = Now /\ vid' = vid
    BY <1>2 DEF VideoInv
  <2> QED BY <1>4, <1>5, <1>6, <1>7, <1>9, <2>1, KeptPushed
<1>11. Typed'
  BY <1>2, <1>3, <1>10 DEF VideoInv, Typed, cursor, terminal
<1>12. Scrolling' /\ CursorTracked'
  <2>1. ~scroll_active' /\ clearing' # 0 /\ ~(clearing' < Cols)
    BY <1>2, <1>3, Sizes
  <2>2. Scrolling'
    BY <2>1 DEF Scrolling
  <2> QED BY <1>2, <2>2 DEF VideoInv, CursorTracked, cursor, terminal
<1>13. LastShown'
  <2> SUFFICES ASSUME last' \in Place, screen'[last'] = Flash
               PROVE  Pending'[Len(Pending')] = Entry(Flash, last', "none")
    BY <1>10 DEF LastShown
  <2>1. last' = place /\ char = Flash
    BY <1>2
  <2> QED BY <1>10, <2>1 DEF e
<1> QED BY <1>10, <1>11, <1>12, <1>13 DEF VideoInv

\* The circuit's last write of a scroll goes into the queue, and the spaces that
\* follow it are left out.
LEMMA ClearStep == ASSUME VideoInv, clear, Room PROVE VideoInv'
<1>1. /\ clearing < Cols /\ clearing \in 0..Cols /\ Write(Space, <<Bottom, clearing>>)
      /\ clearing' = clearing + 1
  BY DEF clear, VideoInv, Typed
<1>2. clearing \in 0..Cols - 1 /\ Bottom \in 0..Bottom
  BY <1>1, Sizes
<1>3. PICK place \in Place : place = <<Bottom, clearing>>
  BY <1>2, PlaceParts
<1>4. Write(Space, place)
  BY <1>1, <1>3 DEF Write, Push
<1>5. /\ place \in Place /\ place[1] = Bottom /\ place[2] = clearing /\ place # Hole
      /\ Space \in Code /\ clearing' \in 1..Cols /\ clearing \in 0..Cols - 1
  BY <1>1, <1>2, <1>3, Sizes, PlaceParts DEF Code
<1>6. /\ scroll_active' = FALSE /\ last' = place /\ vid' = vid /\ Now' = Now
      /\ UNCHANGED <<at, cursor, terminal>>
      /\ screen' \in [Place -> Code] /\ screen \in [Place -> Code]
      /\ \A p \in Place : screen'[p] = IF p = place THEN Space ELSE screen[p]
      /\ fifo' = Push(Space, place)
  BY <1>4, <1>5, WriteParts DEF VideoInv, Typed
<1>7. PICK e \in Entries : /\ e = Entry(Space, place, "none")
                           /\ e.char = Space /\ e.flag = "none" /\ ~Off(e)
  BY <1>5, EntryType
<1>8. ~scroll_active => fifo' = Append(fifo, e)
  BY <1>7, <1>6 DEF Push
<1>9. ascii(Space) = Space
  BY <1>5, AsciiType
<1>10. PICK t \in Image : Lead(Pending, Now, t) /\ Promised(t)
  BY DEF VideoInv, Kept
<1>11. t.v = Bottom /\ t.sup = IF scroll_active THEN 0 ELSE Cols - clearing
  BY <1>1, <1>10 DEF Promised
<1>12. ASSUME NEW c \in 0..clearing PROVE screen'[<<Bottom, c>>] = Space
  <2>1. <<Bottom, c>> \in Place
    BY <1>5, <1>12, PlaceParts, Sizes
  <2>2. CASE c = clearing
    BY <1>3, <1>6, <2>1, <2>2
  <2>3. CASE c # clearing
    <3>1. c \in 0..clearing - 1
      BY <1>1, <1>12, <2>3
    <3>2. screen[<<Bottom, c>>] = Space
      BY <1>1, <3>1 DEF VideoInv, Scrolling
    <3> QED BY <1>6, <2>1, <3>2
  <2> QED BY <2>2, <2>3
\* An image that is as the text page but for the bottom line, which is clear.
<1>13. ASSUME NEW u \in Image, u.v = Bottom, u.sup = Cols - (clearing + 1),
             \A p \in Place : u.text[p] = IF p[1] = Bottom THEN Space ELSE ascii(screen[p])
      PROVE  Promised(u)'
  <2>1. ASSUME NEW p \in Place
        PROVE  u.text[p] = IF p[1] = Bottom /\ clearing' < Cols THEN Space ELSE ascii(screen'[p])
    <3>1. CASE p[1] = Bottom /\ clearing' < Cols
      BY <1>13, <3>1
    <3>2. CASE p[1] = Bottom /\ ~(clearing' < Cols)
      <4>1. p = <<Bottom, p[2]>> /\ p[2] \in 0..clearing
        BY <1>1, <1>5, <3>2, PlaceParts, Sizes
      <4>2. screen'[p] = Space
        BY <1>12, <4>1
      <4> QED BY <1>9, <1>13, <3>2, <4>2
    <3>3. CASE p[1] # Bottom
      <4>1. p # place
        BY <1>5, <3>3
      <4> QED BY <1>13, <1>6, <3>3, <4>1
    <3> QED BY <3>1, <3>2, <3>3
  <2>2. ~scroll_active' /\ u.sup = Cols - clearing'
    BY <1>1, <1>13, <1>6
  <2> QED BY <1>13, <2>1, <2>2 DEF Promised
<1>14. Kept' /\ fifo' \in Seq(Entries)
  <2>1. CASE ~scroll_active
    <3>0. PICK u \in Image : u = After(e, t)
      BY <1>7, AfterType
    <3>1. u = [t EXCEPT !.sup = @ - 1] /\ t.sup = Cols - clearing
      BY <1>5, <1>7, <1>9, <1>11, <2>1, <3>0, Sizes DEF After
    <3>2. /\ u.v = Bottom /\ u.sup = Cols - (clearing + 1) /\ u.text = t.text
      BY <1>5, <1>11, <3>1, Sizes DEF Image
    <3>3. \A p \in Place : t.text[p] = IF p[1] = Bottom THEN Space ELSE ascii(screen[p])
      BY <1>1, <1>10, <2>1 DEF Promised
    <3>5. Promised(u)'
      BY <1>13, <3>2, <3>3
    <3>6. Fits(e, t) /\ Typed /\ fifo' = Append(fifo, e)
      BY <1>7, <1>8, <2>1 DEF Fits, VideoInv
    <3> QED BY <1>7, <1>10, <1>6, <3>0, <3>5, <3>6, KeptPushed
  <2>2. CASE scroll_active
    <3>1. clearing = 0 /\ last = <<Bottom - 1, 0>>
      BY <2>2 DEF VideoInv, Scrolling
    <3>2. last \in Place
      BY <3>1, PlaceParts, Sizes
    <3>3. PICK b \in Entries : b = Entry(screen[last], last, "end") /\ b.flag = "end" /\ ~Off(b)
      BY <1>6, <3>2, EntryType, PlaceParts
    <3>4. fifo' = fifo \o <<b, e>>
      <4>1. Len(fifo) + 1 < Depth /\ Len(fifo) \in Nat /\ Depth \in Nat
        <5>1. RoomForTwo /\ scroll_active => Len(fifo) + 1 < Depth
          BY <1>4 DEF Write
        <5>2. fifo \in Seq(Entries) /\ Depth \in Nat
          BY VideoAssumption DEF VideoInv, Typed
        <5> QED BY <2>2, <5>1, <5>2, LenProperties DEF Room
      <4>2. Len(fifo) + 1 # Depth
        BY <4>1
      <4> QED BY <1>7, <1>6, <2>2, <3>3, <4>2 DEF Push
    <3>5. PICK s \in Image : s = After(b, t) /\ s = [text |-> Shifted(t.text), v |-> t.v, sup |-> Cols]
      BY <3>3, AfterType DEF After
    <3>6. Fits(b, t) /\ Fits(e, s)
      BY <1>7, <1>11, <3>3 DEF Fits
    <3>7. PICK u \in Image : u = After(e, s)
      BY <1>7, AfterType
    <3>8. u = [s EXCEPT !.sup = @ - 1]
      BY <1>7, <1>9, <3>5, <3>7, Sizes DEF After
    <3>9. /\ u.v = Bottom /\ u.sup = Cols - (clearing + 1) /\ u.text = Shifted(t.text)
      BY <1>11, <3>1, <3>5, <3>8, Sizes
    <3>10. \A p \in Place : u.text[p] = IF p[1] = Bottom THEN Space ELSE ascii(screen[p])
      <4>1. ASSUME NEW p \in Place, p[1] # Bottom PROVE t.text[<<p[1] + 1, p[2]>>] = ascii(screen[p])
        <5>1. p[1] < Bottom
          BY <4>1, PlaceParts, Sizes
        <5> QED BY <1>10, <2>2, <5>1 DEF Promised
      <4> QED BY <3>9, <4>1 DEF Shifted
    <3>11. Promised(u)'
      BY <1>13, <3>9, <3>10
    <3>12. Typed
      BY DEF VideoInv
    <3> QED BY <1>7, <1>10, <1>6, <3>3, <3>4, <3>5, <3>6, <3>7, <3>11, <3>12, KeptPushedTwice
  <2> QED BY <2>1, <2>2
<1>15. Typed'
  <2>1. clearing' \in 0..Cols
    BY <1>5, Sizes
  <2>2. last' \in Place /\ scroll_active' \in BOOLEAN
    BY <1>5, <1>6
  <2> QED BY <1>6, <1>14, <2>1, <2>2 DEF VideoInv, Typed, cursor, terminal
<1>16. Scrolling'
  <2>1. ~scroll_active' /\ clearing' # 0
    BY <1>5, <1>6
  <2>2. \A c \in 0..clearing' - 1 : screen'[<<Bottom, c>>] = Space
    BY <1>1, <1>12
  <2> QED BY <2>1, <2>2 DEF Scrolling
<1>17. CursorTracked'
  BY <1>6 DEF VideoInv, CursorTracked, cursor, terminal
<1>18. LastShown'
  <2>1. screen'[last'] = Space
    BY <1>5, <1>6
  <2> QED BY <2>1, VideoAssumption DEF LastShown
<1> QED BY <1>14, <1>15, <1>16, <1>17, <1>18 DEF VideoInv

\* The circuit's first write of a scroll; the image is what it was.
LEMMA ScrollStep == ASSUME VideoInv, scroll PROVE VideoInv'
<1>0. /\ clearing = Cols /\ last[1] = Bottom /\ last # Hole /\ last \in Place /\ ~scroll_active
      /\ screen \in [Place -> Code] /\ Cols > 0
  BY Sizes DEF scroll, VideoInv, Typed, Scrolling
<1>1. /\ screen' = [p \in Place |-> IF p[1] = Bottom THEN screen[p] ELSE screen[<<p[1] + 1, p[2]>>]]
      /\ fifo' = Append(fifo, Entry(screen[<<1, Cols - 1>>], <<0, Cols - 1>>, "start"))
      /\ scroll_active' = TRUE /\ last' = <<Bottom - 1, 0>> /\ clearing' = 0
      /\ UNCHANGED <<vid, at, cursor, region, terminal>>
  BY DEF scroll
<1>2. <<1, Cols - 1>> \in Place /\ <<0, Cols - 1>> \in Place /\ <<Bottom - 1, 0>> \in Place
  BY Sizes, PlaceParts
<1> DEFINE e == Entry(screen[<<1, Cols - 1>>], <<0, Cols - 1>>, "start")
<1>3. e \in Entries /\ e.flag = "start"
  BY <1>0, <1>2, EntryType
<1>4. fifo' = Append(fifo, e)
  BY <1>1
<1> HIDE DEF e
<1>5. PICK t \in Image : Lead(Pending, Now, t) /\ Promised(t)
  BY DEF VideoInv, Kept
<1>6. t.sup = 0 /\ t.v = Bottom /\ \A p \in Place : t.text[p] = ascii(screen[p])
  BY <1>0, <1>5, Sizes DEF Promised
<1>7. After(e, t) = t /\ Fits(e, t)
  BY <1>3 DEF After, Fits
<1>8. ASSUME NEW p \in Place, p[1] # Bottom
      PROVE  <<p[1] + 1, p[2]>> \in Place /\ screen'[p] = screen[<<p[1] + 1, p[2]>>]
  <2>1. p[1] + 1 \in 0..Bottom /\ p[2] \in 0..Cols - 1
    BY <1>8, PlaceParts, Sizes
  <2> QED BY <1>1, <1>8, <2>1, PlaceParts
<1>9. Promised(t)'
  <2>1. ASSUME NEW p \in Place, p[1] < Bottom PROVE t.text[<<p[1] + 1, p[2]>>] = ascii(screen'[p])
    <3>1. p[1] # Bottom
      BY <2>1, PlaceParts, Sizes
    <3> QED BY <1>6, <1>8, <3>1
  <2> QED BY <1>1, <1>6, <2>1 DEF Promised
<1>10. Typed /\ Now' = Now /\ vid' = vid
  BY <1>1 DEF VideoInv, Now, cursor, terminal
<1>11. Kept' /\ fifo' \in Seq(Entries)
  BY <1>3, <1>4, <1>5, <1>7, <1>9, <1>10, KeptPushed
<1>12. Typed'
  <2>1. screen' \in [Place -> Code]
    BY <1>0, <1>1, <1>8
  <2>2. clearing' \in 0..Cols /\ last' \in Place /\ scroll_active' \in BOOLEAN
    BY <1>1, <1>2, Sizes
  <2> QED BY <1>1, <1>10, <1>11, <2>1, <2>2 DEF Typed, cursor, terminal
<1>13. Scrolling' /\ CursorTracked'
  <2>1. Scrolling'
    BY <1>1 DEF Scrolling
  <2> QED BY <1>1, <2>1 DEF VideoInv, CursorTracked, cursor, terminal
<1>14. LastShown'
  BY <1>0, <1>1 DEF LastShown
<1> QED BY <1>11, <1>12, <1>13, <1>14 DEF VideoInv

----------------------------------------------------------------------------
(* The theorems *)

LEMMA VideoInit == Init => VideoInv
<1> SUFFICES ASSUME Init PROVE VideoInv
  OBVIOUS
<1>1. <<0, 0>> \in Place /\ <<0, 0>>[1] = 0
  BY Sizes, PlaceParts
<1>2. Typed
  <2>1. /\ 0 \in -1..Cols - 1 /\ 0 \in 0..Bottom /\ 0 \in 0..Cols /\ Cols \in 0..Cols
        /\ 0 \in Int /\ <<>> \in Seq(Entries)
    BY Sizes
  <2>2. screen \in [Place -> Code] /\ shown \in [Place -> {Letter, Space}]
    BY DEF Init, Code
  <2>3. clearing \in 0..Cols /\ scroll_active \in BOOLEAN /\ last \in Place
    BY <1>1, <2>1 DEF Init
  <2>4. fifo \in Seq(Entries) /\ vid \in Entries \cup {none}
    BY <2>1 DEF Init
  <2>5. prev_h \in -1..Cols - 1 /\ prev_v \in 0..Bottom /\ space_supress \in 0..Cols
    BY <2>1 DEF Init
  <2>6. cursor_h \in Int /\ cursor_v \in Int /\ cursor_h >= -1 /\ cursor_h # -1
    BY DEF Init
  <2> QED BY <2>2, <2>3, <2>4, <2>5, <2>6 DEF Typed
<1>3. Scrolling /\ CursorTracked
  BY Sizes DEF Init, Scrolling, CursorTracked
<1>4. Kept
  <2>1. Pending = <<>>
    BY DEF Init, Pending
  <2>2. Now \in Image /\ Lead(Pending, Now, Now)
    BY <1>2, <2>1, PendingType, LeadEmpty
  <2>3. Promised(Now)
    <3>1. ascii(Space) = Space
      BY AsciiType DEF Code
    <3>2. \A p \in Place : shown[p] = Space /\ screen[p] = Space
      BY DEF Init
    <3> QED BY <1>1, <3>1, <3>2, Sizes DEF Init, Promised, Now
  <2> QED BY <2>2, <2>3 DEF Kept
<1>5. LastShown
  BY VideoAssumption DEF Init, LastShown
<1> QED BY <1>2, <1>3, <1>4, <1>5 DEF VideoInv

LEMMA VideoStep == Room /\ VideoInv /\ [Next]_vars => VideoInv'
<1> SUFFICES ASSUME Room, VideoInv, [Next]_vars PROVE VideoInv'
  OBVIOUS
<1>1. CASE UNCHANGED vars
  BY <1>1 DEF vars, apple, cursor, terminal, VideoInv, Typed, Scrolling, CursorTracked, Kept,
              Promised, LastShown, Pending, Now
<1> QED
  BY <1>1, WriteStep, ScrollStep, ClearStep, EnterStep, OffScreenStep, ScrollBeginsStep,
     ScrollEndsStep, SupressStep, PrintStep, LeaveStep
  DEF Next

\* In the enhanced mode the entries in the FIFO always lead from what the
\* terminal shows to the text page, if stdout never overflows and no entry is
\* dropped at the end of a scroll (sw/src/main.c, video_task, and apple2.py).
THEOREM TextKept == Room => (Spec => []VideoInv)
<1> SUFFICES ASSUME Room PROVE Spec => []VideoInv
  OBVIOUS
<1>1. VideoInv /\ [Next]_vars => VideoInv'
  BY VideoStep
<1> QED BY <1>1, VideoInit, PTL DEF Spec

\* When video_task has taken all entries from the FIFO, the terminal shows the
\* text page, on the same conditions (sw/src/main.c, video_task, and
\* hw/rtl/apple2.py).
THEOREM ScreenRight == Room => (Spec => []ScreenShown)
<1>1. VideoInv => ScreenShown
  <2> SUFFICES ASSUME VideoInv, AllDone, NEW p \in Place PROVE shown[p] = ascii(screen[p])
    BY DEF ScreenShown
  <2>1. Pending = <<>> /\ clearing = Cols
    BY DEF AllDone, Pending
  <2>2. PICK t \in Image : Lead(Pending, Now, t) /\ Promised(t)
    BY DEF VideoInv, Kept
  <2>3. Now = t
    BY <2>1, <2>2, LeadEmpty, PendingType DEF VideoInv
  <2>4. ~scroll_active
    BY <2>1, Sizes DEF VideoInv, Scrolling
  <2>5. t.text[p] = ascii(screen[p])
    BY <2>1, <2>2, <2>4, Sizes DEF Promised
  <2> QED BY <2>3, <2>5 DEF Now
<1> QED BY <1>1, TextKept, PTL

\* On the same conditions video_task always knows where the terminal's cursor is,
\* by whatever way it moved it there (sw/src/main.c, video_task).
THEOREM CursorRight == Room => (Spec => []CursorTracked)
<1>1. VideoInv => CursorTracked
  BY DEF VideoInv
<1> QED BY <1>1, TextKept, PTL

\* When everything has been shown and a flashing character came last, the
\* cursor is on it, on the same conditions: leaving the loop sets it back
\* (sw/src/main.c, video_task).
THEOREM CursorOnFlash == Room => (Spec => []CursorShown)
<1>1. VideoInv => CursorShown
  <2> SUFFICES ASSUME VideoInv, AllDone, last \in Place, screen[last] = Flash
               PROVE  <<line, col>> = last
    BY DEF CursorShown
  <2>1. Pending = <<>> /\ clearing = Cols /\ at = "out"
    BY DEF AllDone, Pending
  <2>2. prev_v = last[1] /\ prev_h = last[2] - 1
    BY <2>1 DEF VideoInv, LastShown
  <2>3. last[2] \in Int /\ last = <<last[1], last[2]>>
    BY PlaceParts, Sizes
  <2>4. line = last[1] /\ col = last[2]
    BY <2>2, <2>3 DEF VideoInv, CursorTracked
  <2> QED BY <2>3, <2>4
<1> QED BY <1>1, TextKept, PTL
=============================================================================
