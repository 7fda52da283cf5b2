------------------------- MODULE ExternalDiskProofs -------------------------
(***************************************************************************)
(* Proofs about the external disk: with a host that answers in time or not *)
(* at all, and announces disks in a form of which no digit is taken from   *)
(* the token behind, the parser never loses a byte, the line keeps out     *)
(* other tracks, and it behaves as the head of the drive expects.          *)
(***************************************************************************)
EXTENDS ExternalDisk, SequenceTheorems, TLAPS

Announced == [k |-> "@"]
AnswerLength == SectorSize + 3

(* What the host has sent, received or not, and what it is about to send.  *)
Stream == buf \o from_host \o sending

AllAnnounced(s) == \A i \in 1..Len(s) : s[i] = Announced

\* The answer to r without its first j tokens, behind m announcements and
\* before others.
Carries(s, r, m, j) ==
  /\ m \in Nat /\ j \in 0..AnswerLength - 1
  /\ j > 0 => m = 0
  /\ m + AnswerLength - j <= Len(s)
  /\ \A i \in 1..Len(s) :
       s[i] = IF m < i /\ i <= m + AnswerLength - j THEN Answer(r)[i - m + j] ELSE Announced

----------------------------------------------------------------------------
(* Tokens *)

LEMMA SizeType == SectorSize \in Nat /\ SectorSize > 0 /\ AnswerLength \in Nat
BY ExternalAssumption DEF AnswerLength

LEMMA LineType == EndOfLine \in Nat /\ SectorSize <= EndOfLine
<1>1. SectorCount \in Nat /\ SectorCount >= 1 /\ SectorSize \in Nat
  BY ExternalAssumption
<1>2. SectorCount * SectorSize \in Nat /\ SectorSize <= SectorCount * SectorSize
  BY <1>1
<1> QED BY <1>2 DEF EndOfLine

LEMMA AnnouncedType == Announced \in Token /\ Announced.k = "@"
BY DEF Announced, Token

\* The tokens of an answer, one after the other.
LEMMA AnswerShape ==
  ASSUME NEW r \in Request
  PROVE  /\ Answer(r) \in Seq(Token) /\ Len(Answer(r)) = AnswerLength
         /\ Answer(r)[1] = [k |-> "#", of |-> r]
         /\ \A i \in 2..SectorSize + 1 :
              Answer(r)[i] = [k |-> "byte", byte |-> Data(r.track, r.sector)[i - 2]]
         /\ Answer(r)[SectorSize + 2] = [k |-> "=", of |-> r]
         /\ Answer(r)[SectorSize + 3] = [k |-> "*"]
<1> DEFINE h == <<[k |-> "#", of |-> r]>>
           b == [i \in 1..SectorSize |-> [k |-> "byte", byte |-> Data(r.track, r.sector)[i - 1]]]
           e == <<[k |-> "=", of |-> r], [k |-> "*"]>>
<1>1. h \in Seq(Token) /\ Len(h) = 1 /\ h[1] = [k |-> "#", of |-> r]
  BY DEF Token
<1>2. b \in Seq(Token) /\ Len(b) = SectorSize
  <2>1. ASSUME NEW i \in 1..SectorSize PROVE b[i] \in Token
    <3>1. i - 1 \in Place
      BY SizeType DEF Place
    <3>2. Data(r.track, r.sector)[i - 1] \in Byte
      BY <3>1 DEF Data, Byte, Request
    <3> QED BY <3>2 DEF Token
  <2>2. b \in [1..SectorSize -> Token]
    BY <2>1
  <2> QED BY <2>2, SizeType
<1>3. e \in Seq(Token) /\ Len(e) = 2 /\ e[1] = [k |-> "=", of |-> r] /\ e[2] = [k |-> "*"]
  BY DEF Token
<1>4. \A i \in 1..SectorSize : b[i] = [k |-> "byte", byte |-> Data(r.track, r.sector)[i - 1]]
  OBVIOUS
<1>5. Answer(r) = h \o b \o e
  BY DEF Answer
<1> HIDE DEF h, b, e
<1> DEFINE hb == h \o b
           all == hb \o e
<1>6. /\ hb \in Seq(Token) /\ Len(hb) = 1 + SectorSize
      /\ \A i \in 1..1 + SectorSize : hb[i] = IF i <= 1 THEN h[i] ELSE b[i - 1]
  <2>1. /\ hb \in Seq(Token) /\ Len(hb) = Len(h) + Len(b)
        /\ \A i \in 1..Len(h) + Len(b) : hb[i] = IF i <= Len(h) THEN h[i] ELSE b[i - Len(h)]
    BY <1>1, <1>2, ConcatProperties, Zenon
  <2> HIDE DEF hb
  <2> QED BY <1>1, <1>2, <2>1
<1> HIDE DEF hb
<1>7. /\ all \in Seq(Token) /\ Len(all) = SectorSize + 3
      /\ \A i \in 1..SectorSize + 3 :
           all[i] = IF i <= SectorSize + 1 THEN hb[i] ELSE e[i - (SectorSize + 1)]
  <2>1. /\ all \in Seq(Token) /\ Len(all) = Len(hb) + Len(e)
        /\ \A i \in 1..Len(hb) + Len(e) : all[i] = IF i <= Len(hb) THEN hb[i] ELSE e[i - Len(hb)]
    BY <1>3, <1>6, ConcatProperties, Zenon
  <2> HIDE DEF all
  <2>2. Len(hb) = SectorSize + 1 /\ Len(hb) + Len(e) = SectorSize + 3
    BY <1>3, <1>6, SizeType
  <2> QED BY <2>1, <2>2, Zenon
<1>8. Answer(r) = all
  BY <1>5 DEF hb
<1> HIDE DEF all
<1>9. ASSUME NEW i \in 2..SectorSize + 1
      PROVE  all[i] = [k |-> "byte", byte |-> Data(r.track, r.sector)[i - 2]]
  <2>1. /\ i - 1 \in 1..SectorSize /\ i - 1 - 1 = i - 2 /\ i \in 1..SectorSize + 3
        /\ i \in 1..1 + SectorSize /\ i <= SectorSize + 1 /\ ~(i <= 1)
    BY SizeType
  <2>2. all[i] = b[i - 1]
    BY <1>6, <1>7, <2>1
  <2> QED BY <1>4, <2>1, <2>2
<1>10. all[1] = h[1] /\ all[SectorSize + 2] = e[1] /\ all[SectorSize + 3] = e[2]
  <2>1. /\ 1 \in 1..SectorSize + 3 /\ 1 <= SectorSize + 1 /\ 1 \in 1..1 + SectorSize
        /\ SectorSize + 2 \in 1..SectorSize + 3 /\ ~(SectorSize + 2 <= SectorSize + 1)
        /\ SectorSize + 3 \in 1..SectorSize + 3 /\ ~(SectorSize + 3 <= SectorSize + 1)
    BY SizeType
  <2>2. SectorSize + 2 - (SectorSize + 1) = 1 /\ SectorSize + 3 - (SectorSize + 1) = 2
    BY SizeType
  <2>3. all[1] = h[1]
    BY <1>6, <1>7, <2>1
  <2>4. all[SectorSize + 2] = e[1] /\ all[SectorSize + 3] = e[2]
    BY <1>7, <2>1, <2>2, SizeType
  <2> QED BY <2>3, <2>4
<1> QED BY <1>1, <1>3, <1>7, <1>8, <1>9, <1>10 DEF AnswerLength

----------------------------------------------------------------------------
(* What the steps do to the stream *)

\* A new announcement comes behind everything.
LEMMA AnnouncedBehind ==
  ASSUME NEW s \in Seq(Token)
  PROVE  /\ AllAnnounced(s) => AllAnnounced(Append(s, Announced))
         /\ \A r, m, j : Carries(s, r, m, j) => Carries(Append(s, Announced), r, m, j)
<1>1. /\ Len(s) \in Nat /\ Len(Append(s, Announced)) = Len(s) + 1
      /\ \A i \in 1..Len(s) : Append(s, Announced)[i] = s[i]
      /\ Append(s, Announced)[Len(s) + 1] = Announced
  BY AnnouncedType, AppendProperties, LenProperties
<1>2. \A i \in 1..Len(s) + 1 : i \in 1..Len(s) \/ i = Len(s) + 1
  BY <1>1
<1>3. AllAnnounced(s) => AllAnnounced(Append(s, Announced))
  BY <1>1, <1>2 DEF AllAnnounced
<1>4. ASSUME NEW r, NEW m, NEW j, Carries(s, r, m, j)
      PROVE  Carries(Append(s, Announced), r, m, j)
  <2>1. /\ m \in Nat /\ j \in 0..AnswerLength - 1 /\ (j > 0 => m = 0)
        /\ m + AnswerLength - j <= Len(s)
        /\ \A i \in 1..Len(s) :
             s[i] = IF m < i /\ i <= m + AnswerLength - j THEN Answer(r)[i - m + j] ELSE Announced
    BY <1>4 DEF Carries
  <2>2. ~(Len(s) + 1 <= m + AnswerLength - j) /\ m + AnswerLength - j <= Len(s) + 1
    BY <1>1, <2>1, SizeType
  <2>3. ASSUME NEW i \in 1..Len(s) + 1
        PROVE  Append(s, Announced)[i]
                 = IF m < i /\ i <= m + AnswerLength - j THEN Answer(r)[i - m + j] ELSE Announced
    <3>1. CASE i \in 1..Len(s)
      BY <1>1, <2>1, <3>1
    <3>2. CASE i = Len(s) + 1
      BY <1>1, <2>2, <3>2
    <3> QED BY <1>2, <3>1, <3>2
  <2> QED BY <1>1, <2>1, <2>2, <2>3 DEF Carries
<1> QED BY <1>3, <1>4

\* The parser takes a token in front: an announcement, or the next one of the answer.
LEMMA TakenInFront ==
  ASSUME NEW s \in Seq(Token), s # <<>>
  PROVE  /\ AllAnnounced(s) => Head(s) = Announced /\ AllAnnounced(Tail(s))
         /\ \A r, m, j : Carries(s, r, m, j) =>
              \/ Head(s) = Announced /\ m > 0 /\ Carries(Tail(s), r, m - 1, j)
              \/ /\ Head(s) = Answer(r)[j + 1] /\ m = 0
                 /\ IF j + 1 < AnswerLength THEN Carries(Tail(s), r, 0, j + 1)
                    ELSE AllAnnounced(Tail(s))
<1>1. /\ Len(s) \in Nat /\ Len(s) > 0 /\ Len(Tail(s)) = Len(s) - 1
      /\ \A i \in 1..Len(s) - 1 : Tail(s)[i] = s[i + 1]
      /\ Head(s) = s[1]
  BY HeadTailProperties, LenProperties, EmptySeq
<1>2. \A i \in 1..Len(s) - 1 : i + 1 \in 1..Len(s) /\ 1 \in 1..Len(s)
  BY <1>1
<1>3. AllAnnounced(s) => Head(s) = Announced /\ AllAnnounced(Tail(s))
  BY <1>1, <1>2 DEF AllAnnounced
<1>4. ASSUME NEW r, NEW m, NEW j, Carries(s, r, m, j)
      PROVE  \/ Head(s) = Announced /\ m > 0 /\ Carries(Tail(s), r, m - 1, j)
             \/ /\ Head(s) = Answer(r)[j + 1] /\ m = 0
                /\ IF j + 1 < AnswerLength THEN Carries(Tail(s), r, 0, j + 1)
                   ELSE AllAnnounced(Tail(s))
  <2> DEFINE At(i) == IF m < i /\ i <= m + AnswerLength - j
                        THEN Answer(r)[i - m + j] ELSE Announced
  <2>1. /\ m \in Nat /\ j \in 0..AnswerLength - 1 /\ (j > 0 => m = 0)
        /\ m + AnswerLength - j <= Len(s)
        /\ \A i \in 1..Len(s) : s[i] = At(i)
    BY <1>4 DEF Carries
  <2>2. \A i \in 1..Len(s) - 1 : Tail(s)[i] = At(i + 1)
    BY <1>1, <1>2, <2>1
  <2>3. Head(s) = At(1)
    BY <1>1, <2>1
  <2>4. CASE m > 0
    <3>1. At(1) = Announced
      BY <2>1, <2>4
    <3>2. j = 0 /\ m - 1 \in Nat /\ (m - 1) + AnswerLength - j <= Len(s) - 1
      BY <1>1, <2>1, <2>4, SizeType
    <3>3. ASSUME NEW i \in 1..Len(s) - 1
          PROVE  Tail(s)[i] = IF m - 1 < i /\ i <= (m - 1) + AnswerLength - j
                                THEN Answer(r)[i - (m - 1) + j] ELSE Announced
      <4>1. /\ (m < i + 1) <=> (m - 1 < i)
            /\ (i + 1 <= m + AnswerLength - j) <=> (i <= (m - 1) + AnswerLength - j)
        BY <1>1, <2>1, SizeType
      <4>2. i + 1 - m + j = i - (m - 1) + j
        BY <1>1, <2>1
      <4>3. Tail(s)[i] = IF m < i + 1 /\ i + 1 <= m + AnswerLength - j
                           THEN Answer(r)[i + 1 - m + j] ELSE Announced
        BY <1>1, <2>1, <2>2
      <4> QED BY <4>1, <4>2, <4>3, Zenon
    <3> QED BY <1>1, <2>1, <2>3, <2>4, <3>1, <3>2, <3>3 DEF Carries
  <2>5. CASE m = 0
    <3>1. At(1) = Answer(r)[j + 1]
      <4>1. m < 1 /\ 1 <= m + AnswerLength - j /\ 1 - m + j = j + 1
        BY <2>1, <2>5, SizeType
      <4> QED BY <4>1
    <3>2. ASSUME j + 1 < AnswerLength PROVE Carries(Tail(s), r, 0, j + 1)
      <4>1. j + 1 \in 0..AnswerLength - 1 /\ 0 + AnswerLength - (j + 1) <= Len(s) - 1
        BY <1>1, <2>1, <2>5, <3>2, SizeType
      <4>2. ASSUME NEW i \in 1..Len(s) - 1
            PROVE  Tail(s)[i] = IF 0 < i /\ i <= 0 + AnswerLength - (j + 1)
                                  THEN Answer(r)[i - 0 + (j + 1)] ELSE Announced
        <5>1. /\ (m < i + 1) /\ 0 < i
              /\ (i + 1 <= m + AnswerLength - j) <=> (i <= 0 + AnswerLength - (j + 1))
          BY <1>1, <2>1, <2>5, SizeType
        <5>2. i + 1 - m + j = i - 0 + (j + 1)
          BY <1>1, <2>1, <2>5
        <5>3. Tail(s)[i] = IF m < i + 1 /\ i + 1 <= m + AnswerLength - j
                             THEN Answer(r)[i + 1 - m + j] ELSE Announced
          BY <1>1, <2>1, <2>2
        <5> QED BY <5>1, <5>2, <5>3, Zenon
      <4> QED BY <1>1, <4>1, <4>2 DEF Carries
    <3>3. ASSUME ~(j + 1 < AnswerLength) PROVE AllAnnounced(Tail(s))
      <4>1. ASSUME NEW i \in 1..Len(s) - 1 PROVE ~(i + 1 <= m + AnswerLength - j)
        BY <1>1, <2>1, <2>5, <3>3, SizeType
      <4> QED BY <1>1, <2>2, <4>1 DEF AllAnnounced
    <3> QED BY <2>3, <2>5, <3>1, <3>2, <3>3
  <2> QED BY <2>1, <2>4, <2>5
<1> QED BY <1>3, <1>4

\* An answer goes out behind announcements.
LEMMA AnswerBehind ==
  ASSUME NEW s \in Seq(Token), AllAnnounced(s), NEW r \in Request
  PROVE  Carries(s \o Answer(r), r, Len(s), 0)
<1> DEFINE a == Answer(r)
           t == s \o a
<1>1. Len(s) \in Nat /\ a \in Seq(Token) /\ Len(a) = AnswerLength
  BY AnswerShape, LenProperties, Zenon
<1>2. /\ Len(t) = Len(s) + Len(a)
      /\ \A i \in 1..Len(s) + Len(a) : t[i] = IF i <= Len(s) THEN s[i] ELSE a[i - Len(s)]
  BY <1>1, ConcatProperties, Zenon
<1> HIDE DEF t, a
<1>3. ASSUME NEW i \in 1..Len(s) + AnswerLength
      PROVE  t[i] = IF Len(s) < i /\ i <= Len(s) + AnswerLength - 0
                      THEN a[i - Len(s) + 0] ELSE Announced
  <2>1. CASE i <= Len(s)
    BY <1>1, <1>2, <2>1 DEF AllAnnounced
  <2>2. CASE ~(i <= Len(s))
    <3>1. Len(s) < i /\ i <= Len(s) + AnswerLength - 0 /\ i - Len(s) + 0 = i - Len(s)
      BY <1>1, <2>2, SizeType
    <3> QED BY <1>1, <1>2, <2>2, <3>1
  <2> QED BY <2>1, <2>2
<1>4. 0 \in 0..AnswerLength - 1 /\ Len(s) + AnswerLength - 0 <= Len(s) + AnswerLength /\ ~(0 > 0)
  BY <1>1, SizeType DEF AnswerLength
<1>5. Carries(t, r, Len(s), 0)
  BY <1>1, <1>2, <1>3, <1>4 DEF Carries, a
<1> QED BY <1>5 DEF t, a

\* Sequences one behind the other, seen from their ends.
LEMMA FrontOfConcat ==
  ASSUME NEW a \in Seq(Token), NEW b \in Seq(Token), a # <<>>
  PROVE  Head(a \o b) = Head(a) /\ Tail(a \o b) = Tail(a) \o b /\ a \o b # <<>>
<1> DEFINE t == a \o b
           u == Tail(a)
           v == u \o b
<1>1. /\ t \in Seq(Token) /\ Len(t) = Len(a) + Len(b)
      /\ \A i \in 1..Len(a) + Len(b) : t[i] = IF i <= Len(a) THEN a[i] ELSE b[i - Len(a)]
  BY ConcatProperties, Zenon
<1>2. /\ u \in Seq(Token) /\ Len(u) = Len(a) - 1 /\ Head(a) = a[1]
      /\ \A i \in 1..Len(u) : u[i] = a[i + 1]
  BY HeadTailProperties
<1>3. /\ v \in Seq(Token) /\ Len(v) = Len(u) + Len(b)
      /\ \A i \in 1..Len(u) + Len(b) : v[i] = IF i <= Len(u) THEN u[i] ELSE b[i - Len(u)]
  BY <1>2, ConcatProperties, Zenon
<1>4. Len(a) \in Nat /\ Len(b) \in Nat /\ Len(a) > 0
  BY EmptySeq, LenProperties
<1> HIDE DEF t, u, v
<1>5. t # <<>> /\ Head(t) = t[1] /\ Head(t) = Head(a)
  <2>1. Len(t) > 0 /\ 1 \in 1..Len(a) + Len(b) /\ 1 <= Len(a)
    BY <1>1, <1>4
  <2> QED BY <1>1, <1>2, <2>1
<1>6. /\ Tail(t) \in Seq(Token) /\ Len(Tail(t)) = Len(t) - 1
      /\ \A i \in 1..Len(Tail(t)) : Tail(t)[i] = t[i + 1]
  BY <1>1, <1>5, HeadTailProperties
<1>7. Len(Tail(t)) = Len(v)
  BY <1>1, <1>2, <1>3, <1>4, <1>6
<1>8. ASSUME NEW i \in 1..Len(v) PROVE Tail(t)[i] = v[i]
  <2>1. i + 1 \in 1..Len(a) + Len(b) /\ i \in 1..Len(u) + Len(b)
    BY <1>1, <1>2, <1>3, <1>4
  <2>2. CASE i <= Len(u)
    <3>1. i + 1 <= Len(a) /\ i \in 1..Len(u)
      BY <1>2, <1>4, <2>2
    <3> QED BY <1>1, <1>2, <1>3, <1>6, <1>7, <2>1, <2>2, <3>1
  <2>3. CASE ~(i <= Len(u))
    <3>1. ~(i + 1 <= Len(a)) /\ i + 1 - Len(a) = i - Len(u)
      BY <1>2, <1>4, <2>3
    <3>2. Tail(t)[i] = b[i + 1 - Len(a)]
      BY <1>1, <1>6, <1>7, <2>1, <3>1
    <3>3. v[i] = b[i - Len(u)]
      BY <1>3, <2>1, <2>3
    <3> QED BY <3>1, <3>2, <3>3
  <2> QED BY <2>2, <2>3
<1>9. Tail(t) = v
  BY <1>3, <1>6, <1>7, <1>8, SeqEqual, Zenon
<1> QED BY <1>5, <1>9 DEF t, u, v

LEMMA MovedOver ==
  ASSUME NEW a \in Seq(Token), NEW b \in Seq(Token), b # <<>>
  PROVE  Append(a, Head(b)) \o Tail(b) = a \o b
<1> DEFINE x == Head(b)
           y == <<x>>
           w == Tail(b)
<1>1. x \in Token /\ w \in Seq(Token) /\ y \in Seq(Token)
  BY HeadTailProperties
<1>2. y \o w = b
  BY HeadTailProperties
<1>3. Append(a, x) = a \o y
  BY <1>1, AppendIsConcat, Zenon
<1> HIDE DEF x, y, w
<1>4. (a \o y) \o w = a \o (y \o w)
  BY <1>1, ConcatAssociative, SMTT(40)
<1>5. Append(a, x) \o w = a \o b
  BY <1>2, <1>3, <1>4
<1> QED BY <1>5 DEF x, w

----------------------------------------------------------------------------
(* The type invariant *)

Typed == TypeOK /\ sending \in Seq(Token)

LEMMA TokenFields ==
  ASSUME NEW x \in Token
  PROVE  /\ x.k \in {"#", "="} => x.of \in Request
         /\ x.k = "byte" => x.byte \in Byte
BY DEF Token

\* What bytes leave in the line, wherever they are written.
LEMMA PutSomewhere ==
  ASSUME Typed, NEW k \in Nat, NEW byte \in Byte \cup {NULL}, Put(k, byte)
  PROVE  /\ track_cache' \in [Sectors -> [Place -> Byte \cup {NULL}]]
         /\ current_byte' \in 0..EndOfLine
         /\ \A s \in Sectors, n \in Place : track_cache'[s][n] \in {track_cache[s][n], byte}
<1> DEFINE Hit(s, n) == /\ sector_start # NULL
                        /\ (s - sector_start) * SectorSize + n \in current_byte..current_byte + k - 1
<1>1. track_cache' = [s \in Sectors |-> [n \in Place |->
                        IF Hit(s, n) THEN byte ELSE track_cache[s][n]]]
  BY DEF Put
<1> HIDE DEF Hit
<1>2. track_cache \in [Sectors -> [Place -> Byte \cup {NULL}]]
  BY DEF Typed, TypeOK
<1>3. ASSUME NEW s \in Sectors
      PROVE  /\ track_cache'[s] \in [Place -> Byte \cup {NULL}]
             /\ \A n \in Place : track_cache'[s][n] \in {track_cache[s][n], byte}
  <2>1. track_cache'[s] = [n \in Place |-> IF Hit(s, n) THEN byte ELSE track_cache[s][n]]
    BY <1>1
  <2>2. track_cache[s] \in [Place -> Byte \cup {NULL}]
    BY <1>2
  <2> QED BY <2>1, <2>2
<1>4. track_cache' \in [Sectors -> [Place -> Byte \cup {NULL}]]
  BY <1>1, <1>3
<1>5. current_byte' \in 0..EndOfLine
  BY LineType DEF Put, Typed, TypeOK
<1> QED BY <1>3, <1>4, <1>5

\* A byte inside its sector is written there and nowhere else.
LEMMA PutInPlace ==
  ASSUME Typed, NEW byte \in Byte \cup {NULL}, Put(1, byte),
         sector_start \in Sectors, sector_start # NULL, current_byte \in Place
  PROVE  /\ track_cache'[sector_start][current_byte] = byte
         /\ \A n \in Place : n # current_byte =>
              track_cache'[sector_start][n] = track_cache[sector_start][n]
         /\ \A s \in Sectors : s # sector_start => track_cache'[s] = track_cache[s]
         /\ current_byte' = current_byte + 1
<1> DEFINE At(s, n) == (s - sector_start) * SectorSize + n
<1>1. /\ SectorSize \in Nat /\ SectorSize > 0 /\ current_byte \in 0..SectorSize - 1
      /\ sector_start \in Nat /\ current_byte + 1 - 1 = current_byte
  BY SizeType, ExternalAssumption DEF Place, Sectors
<1>2. ASSUME NEW s \in Sectors, NEW n \in Place
      PROVE  /\ (At(s, n) \in current_byte..current_byte + 1 - 1)
                  <=> (s = sector_start /\ n = current_byte)
  <2>1. s \in Nat /\ n \in 0..SectorSize - 1
    BY ExternalAssumption DEF Place, Sectors
  <2>2. CASE s = sector_start
    <3>1. s - sector_start = 0 /\ 0 * SectorSize = 0
      BY <1>1, <2>1, <2>2
    <3>2. At(s, n) = n
      BY <1>1, <2>1, <3>1
    <3> QED BY <1>1, <2>1, <2>2, <3>2
  <2>3. CASE s - sector_start >= 1
    <3> DEFINE d == s - sector_start
               x == d * SectorSize
    <3>1. d \in Int /\ d >= 1
      BY <1>1, <2>1, <2>3
    <3> HIDE DEF d
    <3>2. x \in Int /\ x >= SectorSize
      BY <1>1, <3>1
    <3>3. At(s, n) = x + n
      BY DEF d
    <3> HIDE DEF x, At
    <3>4. ~(At(s, n) \in current_byte..current_byte + 1 - 1)
      BY <1>1, <2>1, <3>2, <3>3
    <3> QED BY <1>1, <2>1, <2>3, <3>4
  <2>4. CASE s - sector_start <= -1
    <3> DEFINE d == s - sector_start
               x == d * SectorSize
    <3>1. d \in Int /\ d <= -1
      BY <1>1, <2>1, <2>4
    <3> HIDE DEF d
    <3>2. x \in Int /\ x <= -SectorSize
      BY <1>1, <3>1
    <3>3. At(s, n) = x + n
      BY DEF d
    <3> HIDE DEF x, At
    <3>4. ~(At(s, n) \in current_byte..current_byte + 1 - 1)
      BY <1>1, <2>1, <3>2, <3>3
    <3> QED BY <1>1, <2>1, <2>4, <3>4
  <2>5. s = sector_start \/ s - sector_start >= 1 \/ s - sector_start <= -1
    BY <1>1, <2>1
  <2> QED BY <2>2, <2>3, <2>4, <2>5
<1>3. track_cache' = [s \in Sectors |-> [n \in Place |->
                        IF s = sector_start /\ n = current_byte THEN byte ELSE track_cache[s][n]]]
  <2>1. track_cache' = [s \in Sectors |-> [n \in Place |->
                          IF /\ sector_start # NULL
                             /\ At(s, n) \in current_byte..current_byte + 1 - 1
                            THEN byte ELSE track_cache[s][n]]]
    BY DEF Put
  <2> HIDE DEF At
  <2> QED BY <1>2, <2>1
<1>4. track_cache \in [Sectors -> [Place -> Byte \cup {NULL}]]
  BY DEF Typed, TypeOK
<1>5. /\ track_cache'[sector_start]
           = [n \in Place |-> IF n = current_byte THEN byte ELSE track_cache[sector_start][n]]
      /\ \A s \in Sectors : s # sector_start => track_cache'[s] = [n \in Place |-> track_cache[s][n]]
  BY <1>3
<1>6. \A s \in Sectors : [n \in Place |-> track_cache[s][n]] = track_cache[s]
  BY <1>4
<1>7. current_byte' = current_byte + 1
  <2>1. current_byte + 1 <= EndOfLine /\ current_byte + 1 \in Nat /\ EndOfLine \in Nat
    BY <1>1, LineType
  <2> QED BY <2>1 DEF Put
<1> QED BY <1>5, <1>6, <1>7

\* Digits that belong to no byte: what they leave in the line is a byte of nobody.
LEMMA DigitsSomewhere ==
  ASSUME Typed, NEW n \in Nat, digits(n)
  PROVE  /\ track_cache' \in [Sectors -> [Place -> Byte \cup {NULL}]]
         /\ current_byte' \in 0..EndOfLine /\ half_byte' \in BOOLEAN
         /\ \A s \in Sectors, i \in Place : track_cache'[s][i] \in {track_cache[s][i], NULL}
<1> DEFINE all == IF half_byte THEN n + 1 ELSE n
           k == all \div 2
<1>1. all \in Nat
  OBVIOUS
<1>2. Put(k, NULL) /\ half_byte' = (all % 2 = 1)
  BY DEF digits
<1> HIDE DEF all
<1>3. k \in Nat
  BY <1>1
<1> HIDE DEF k
<1>4. half_byte' \in BOOLEAN
  BY <1>2
<1> QED BY <1>2, <1>3, <1>4, PutSomewhere

LEMMA TypedInit == Init => Typed
<1> SUFFICES ASSUME Init PROVE Typed
  OBVIOUS
<1>1. <<>> \in Seq(Token) /\ <<>> \in Seq(Request) /\ Len(<<>>) = 0
  BY EmptySeq
<1>2. track_cache \in [Sectors -> [Place -> Byte \cup {NULL}]]
  BY DEF Init
<1>3. 0 \in 0..EndOfLine /\ 0 \in 0..RetryLimit + 1 /\ 0 <= TxRoom /\ 0 <= RxSize
  BY LineType, ExternalAssumption
<1> QED BY <1>1, <1>2, <1>3 DEF Init, Typed, TypeOK

LEMMA TypedStep == Typed /\ [Next]_vars => Typed'
<1> SUFFICES ASSUME Typed, [Next]_vars PROVE Typed'
  OBVIOUS
<1> USE DEF Typed, TypeOK
<1>0. CASE UNCHANGED vars
  BY <1>0 DEF vars, index, host
<1>1. ASSUME NEW t \in Tracks, NEW s \in Sectors, cache_request(t, s) PROVE Typed'
  <2>1. line' \in [track : Tracks \cup {NoTrack}, valid : SUBSET Sectors]
    BY <1>1 DEF cache_request, Line
  <2>2. to_host' \in Seq(Request) /\ Len(to_host') <= TxRoom
    <3>1. [track |-> t, sector |-> s] \in Request
      BY DEF Request
    <3>2. CASE Len(to_host) < TxRoom
      <4>1. to_host' = Append(to_host, [track |-> t, sector |-> s])
        BY <1>1, <3>2 DEF cache_request
      <4>2. Len(to_host) \in Nat /\ Len(to_host') = Len(to_host) + 1 /\ to_host' \in Seq(Request)
        BY <3>1, <4>1, AppendProperties, LenProperties
      <4> QED BY <3>2, <4>2, ExternalAssumption
    <3>3. CASE ~(Len(to_host) < TxRoom)
      BY <1>1, <3>3 DEF cache_request
    <3> QED BY <3>2, <3>3
  <2>3. /\ external_disk_state' \in {"disconnected", "no_disk", "inserted", "reading"}
        /\ asked' \in Request \cup {NULL} /\ sector_start' \in Sectors \cup {NULL}
    BY <1>1 DEF cache_request, Request
  <2> QED BY <1>1, <2>1, <2>2, <2>3 DEF cache_request
<1>2. CASE receive
  <2>1. 0 \in 0..RetryLimit + 1 /\ Len(<<>>) = 0 /\ 0 <= RxSize /\ <<>> \in Seq(Token)
    BY ExternalAssumption, EmptySeq
  <2> QED BY <1>2, <2>1 DEF receive, index, host
<1>3. CASE poll
  <2>1. retries' \in 0..RetryLimit + 1
    BY <1>3, ExternalAssumption DEF poll
  <2> QED BY <1>3, <2>1 DEF poll, host
<1>4. CASE idle
  <2>1. <<>> \in Seq(Token) /\ Len(<<>>) = 0 /\ 0 <= RxSize
    BY ExternalAssumption, EmptySeq
  <2>2. /\ line' \in [track : Tracks \cup {NoTrack}, valid : SUBSET Sectors]
        /\ external_disk_state' \in {"disconnected", "no_disk", "inserted", "reading"}
        /\ sector_start' \in Sectors \cup {NULL}
    BY <1>4 DEF idle
  <2> QED BY <1>4, <2>1, <2>2 DEF idle, host
<1>5. ASSUME NEW k, Parses(k)
      PROVE  Head(buf) \in Token /\ Head(buf).k = k /\ buf' \in Seq(Token)
  BY <1>5, HeadTailProperties DEF Parses
<1>6. CASE parse_header
  <2>1. Head(buf).of.sector \in Sectors /\ 0 \in 0..EndOfLine
    BY <1>5, <1>6, TokenFields, LineType DEF parse_header, Request
  <2> QED BY <1>5, <1>6, <2>1 DEF parse_header, host
<1>7. CASE parse_byte
  <2>1. Head(buf).byte \in Byte
    BY <1>5, <1>7, TokenFields DEF parse_byte
  <2>2. /\ track_cache' \in [Sectors -> [Place -> Byte \cup {NULL}]]
        /\ current_byte' \in 0..EndOfLine /\ half_byte' \in BOOLEAN
    <3>1. CASE half_byte
      BY <1>7, <3>1, DigitsSomewhere DEF parse_byte
    <3>2. CASE ~half_byte
      <4>1. Put(1, Head(buf).byte) /\ half_byte' = half_byte
        BY <1>7, <3>2 DEF parse_byte
      <4>2. half_byte' \in BOOLEAN
        BY <4>1
      <4> HIDE DEF Typed, TypeOK
      <4> QED BY <2>1, <4>1, <4>2, PutSomewhere
    <3> QED BY <3>1, <3>2
  <2> QED BY <1>5, <1>7, <2>2 DEF parse_byte, host
<1>8. CASE parse_checksum
  <2>1. line' \in [track : Tracks \cup {NoTrack}, valid : SUBSET Sectors]
    <3>1. line' = line \/ line' = [line EXCEPT !.valid = line.valid \cup {current_sector}]
      BY <1>8, Zenon DEF parse_checksum
    <3>2. [line EXCEPT !.valid = line.valid \cup {current_sector}]
            \in [track : Tracks \cup {NoTrack}, valid : SUBSET Sectors]
      OBVIOUS
    <3> QED BY <3>1, <3>2
  <2> QED BY <1>5, <1>8, <2>1 DEF parse_checksum, host
<1>9. CASE parse_end
  BY <1>5, <1>9 DEF parse_end, index, host
<1>14. CASE parse_volume
  <2>1. buf' \in Seq(Token)
    <3>1. buf # <<>> /\ (buf' = Tail(buf) \/ (Tail(buf) # <<>> /\ buf' = Tail(Tail(buf))))
      <4> DEFINE next == IF Terse /\ Tail(buf) # <<>> THEN Head(Tail(buf)).k ELSE "none"
      <4>1. /\ buf # <<>>
            /\ \/ buf' = Tail(buf)
               \/ next \in {"#", "=", "*", "@"} /\ buf' = Tail(Tail(buf))
        BY <1>14 DEF parse_volume
      <4> QED BY <4>1
    <3>2. Tail(buf) \in Seq(Token)
      BY <3>1, HeadTailProperties
    <3>3. ASSUME Tail(buf) # <<>> PROVE Tail(Tail(buf)) \in Seq(Token)
      BY <3>2, <3>3, HeadTailProperties
    <3> QED BY <3>1, <3>2, <3>3
  <2>2. /\ track_cache' \in [Sectors -> [Place -> Byte \cup {NULL}]]
        /\ current_byte' \in 0..EndOfLine /\ half_byte' \in BOOLEAN
    <3> DEFINE k == (IF half_byte THEN 4 ELSE 3) \div 2
    <3>1. \/ digits(1) \/ digits(3) \/ digits(4)
          \/ UNCHANGED <<track_cache, current_byte, half_byte>>
          \/ Put(k, NULL) /\ half_byte' = FALSE
      BY <1>14 DEF parse_volume
    <3>2. k \in Nat
      OBVIOUS
    <3> HIDE DEF k
    <3>3. CASE digits(1) \/ digits(3) \/ digits(4)
      BY <3>3, DigitsSomewhere
    <3>4. CASE UNCHANGED <<track_cache, current_byte, half_byte>>
      BY <3>4
    <3>5. CASE Put(k, NULL) /\ half_byte' = FALSE
      BY <3>2, <3>5, PutSomewhere
    <3> QED BY <3>1, <3>3, <3>4, <3>5
  <2> QED BY <1>14, <2>1, <2>2 DEF parse_volume, host
<1>10. CASE take
  <2>1. /\ Head(to_host) \in Request /\ to_host' \in Seq(Request)
        /\ Len(to_host') = Len(to_host) - 1 /\ Len(to_host) \in Nat
    BY <1>10, HeadTailProperties, LenProperties DEF take
  <2>2. sending' \in Seq(Token)
    BY <1>10, <2>1, AnswerShape, EmptySeq DEF take
  <2> QED BY <1>10, <2>1, <2>2, ExternalAssumption DEF take, index
<1>11. CASE send
  <2>1. Head(sending) \in Token /\ sending' \in Seq(Token) /\ Len(from_host) \in Nat
    BY <1>11, HeadTailProperties, LenProperties DEF send
  <2>2. from_host' \in Seq(Token) /\ Len(from_host') = Len(from_host) + 1
    BY <1>11, <2>1, AppendProperties DEF send
  <2>3. Len(from_host) < RxSize
    BY <1>11 DEF send
  <2> QED BY <1>11, <2>1, <2>2, <2>3, ExternalAssumption DEF send, index
<1>12. CASE announce
  <2>1. /\ from_host' = Append(from_host, Announced) /\ Len(from_host) < RxSize
        /\ Len(from_host) \in Nat
    BY <1>12, LenProperties DEF announce, Announced
  <2>2. from_host' \in Seq(Token) /\ Len(from_host') = Len(from_host) + 1
    BY <2>1, AnnouncedType, AppendProperties
  <2> QED BY <1>12, <2>1, <2>2, ExternalAssumption DEF announce, index, host
<1>13. CASE line_state
  <2>1. to_host' \in Seq(Request) /\ Len(to_host') <= TxRoom
    BY <1>13, EmptySeq, ExternalAssumption DEF line_state
  <2> QED BY <1>13, <2>1 DEF line_state, index
<1> QED BY <1>0, <1>1, <1>2, <1>3, <1>4, <1>6, <1>7, <1>8, <1>9, <1>10, <1>11, <1>12, <1>13, <1>14
        DEF Next, external_disk_buffer_management

----------------------------------------------------------------------------
(* The conversation with a patient host *)

\* What has been read of an answer is in its sector.
Placed(j) ==
  /\ sector_start = asked.sector /\ current_sector = asked.sector /\ ~half_byte
  /\ current_byte = IF j <= SectorSize THEN j - 1 ELSE SectorSize
  /\ \A n \in Place : n < current_byte =>
       track_cache[asked.sector][n] = Data(asked.track, asked.sector)[n]

\* The answer is on its way, and j of its tokens have been read.  The sector is
\* not valid before its checksum.
UnderWay(m, j) ==
  /\ Carries(Stream, asked, m, j)
  /\ j > 0 => Placed(j)
  /\ j <= SectorSize + 1 => asked.sector \notin line.valid

\* A request waits to be read, or will not be answered, or is being answered;
\* without one there are only announcements.
Conversation ==
  /\ reading => asked \in Request /\ asked.track = line.track
  /\ ~open => Stream = <<>>
  /\ open /\ ~reading => to_host = <<>> /\ AllAnnounced(Stream)
  /\ open /\ reading =>
       \/ to_host = <<asked>> /\ AllAnnounced(Stream) /\ asked.sector \notin line.valid
       \/ to_host = <<>> /\ AllAnnounced(Stream)
       \/ to_host = <<>> /\ \E m, j : UnderWay(m, j)

\* A sector marked valid holds the bytes of the line's track, but for those that
\* digits behind two announcements have written over.
Held == \A s \in line.valid, n \in Place : track_cache[s][n] \in {Data(line.track, s)[n], NULL}

DiskInv == Typed /\ Conversation /\ Held

\* What each step does to the stream.
LEMMA StreamType == Typed => Stream \in Seq(Token)
<1> SUFFICES ASSUME Typed PROVE Stream \in Seq(Token)
  OBVIOUS
<1>1. buf \in Seq(Token) /\ from_host \in Seq(Token) /\ sending \in Seq(Token)
  BY DEF Typed, TypeOK
<1>2. buf \o from_host \in Seq(Token)
  BY <1>1, ConcatProperties, Zenon
<1> QED BY <1>1, <1>2, ConcatProperties, Zenon DEF Stream

LEMMA StreamParsed ==
  ASSUME Typed, NEW k, Parses(k), UNCHANGED <<from_host, sending>>
  PROVE  Stream # <<>> /\ Head(Stream) = Head(buf) /\ Stream' = Tail(Stream)
<1>1. /\ buf \in Seq(Token) /\ from_host \in Seq(Token) /\ sending \in Seq(Token)
      /\ buf # <<>> /\ buf' = Tail(buf)
  BY DEF Typed, TypeOK, Parses
<1> DEFINE bf == buf \o from_host
<1>2. bf \in Seq(Token)
  BY <1>1, ConcatProperties, Zenon
<1>3. Head(bf) = Head(buf) /\ Tail(bf) = Tail(buf) \o from_host /\ bf # <<>>
  BY <1>1, FrontOfConcat
<1>4. /\ Head(bf \o sending) = Head(bf) /\ Tail(bf \o sending) = Tail(bf) \o sending
      /\ bf \o sending # <<>>
  BY <1>1, <1>2, <1>3, FrontOfConcat
<1>5. Stream' = (Tail(buf) \o from_host) \o sending
  BY <1>1 DEF Stream
<1> QED BY <1>3, <1>4, <1>5 DEF Stream

LEMMA StreamOtherwise ==
  ASSUME Typed, buf = <<>>
  PROVE  /\ Stream = from_host \o sending
         /\ receive => Stream' = Stream
         /\ send => Stream' = Stream
         /\ announce => Stream' = Append(Stream, Announced)
         /\ idle => Stream' = sending
         /\ take => Stream = from_host /\ Stream' = from_host \o sending'
<1>1. from_host \in Seq(Token) /\ sending \in Seq(Token)
  BY DEF Typed, TypeOK
<1>2. \A a \in Seq(Token) : <<>> \o a = a /\ a \o <<>> = a
  BY ConcatEmptySeq, Zenon
<1>3. Stream = from_host \o sending
  BY <1>1, <1>2 DEF Stream
<1>4. ASSUME receive PROVE Stream' = Stream
  BY <1>1, <1>2, <1>3, <1>4 DEF receive, host, Stream
<1>5. ASSUME send PROVE Stream' = Stream
  <2>1. /\ sending # <<>> /\ buf' = <<>>
        /\ from_host' = Append(from_host, Head(sending)) /\ sending' = Tail(sending)
    BY <1>5 DEF send
  <2>2. Append(from_host, Head(sending)) \in Seq(Token)
    BY <1>1, <2>1, HeadTailProperties, AppendProperties
  <2>3. from_host' \o sending' = from_host \o sending
    BY <1>1, <2>1, MovedOver
  <2> QED BY <1>2, <1>3, <2>1, <2>2, <2>3 DEF Stream
<1>6. ASSUME announce PROVE Stream' = Append(Stream, Announced)
  <2>1. /\ sending = <<>> /\ sending' = <<>> /\ buf' = <<>>
        /\ from_host' = Append(from_host, Announced)
    BY <1>6 DEF announce, host, Announced
  <2>2. from_host' \in Seq(Token)
    BY <1>1, <2>1, AnnouncedType, AppendProperties
  <2> QED BY <1>1, <1>2, <1>3, <2>1, <2>2 DEF Stream
<1>7. ASSUME idle PROVE Stream' = sending
  <2>1. from_host' = <<>> /\ buf' = <<>> /\ sending' = sending
    BY <1>7 DEF idle, host
  <2>2. <<>> \o <<>> = <<>>
    BY <1>2, EmptySeq
  <2> QED BY <1>1, <1>2, <2>1, <2>2 DEF Stream
<1>8. ASSUME take PROVE Stream = from_host /\ Stream' = from_host \o sending'
  <2>1. sending = <<>> /\ buf' = <<>> /\ from_host' = from_host
    BY <1>8 DEF take
  <2> QED BY <1>1, <1>2, <1>3, <2>1 DEF Stream
<1> QED BY <1>3, <1>4, <1>5, <1>6, <1>7, <1>8

\* What is announced only, is so in each part.
LEMMA AnnouncedParts ==
  ASSUME NEW a \in Seq(Token), NEW b \in Seq(Token), AllAnnounced(a \o b)
  PROVE  AllAnnounced(b)
<1> DEFINE t == a \o b
<1>1. /\ Len(t) = Len(a) + Len(b)
      /\ \A i \in 1..Len(a) + Len(b) : t[i] = IF i <= Len(a) THEN a[i] ELSE b[i - Len(a)]
  BY ConcatProperties, Zenon
<1>2. Len(a) \in Nat /\ Len(b) \in Nat
  BY LenProperties
<1> HIDE DEF t
<1>3. \A i \in 1..Len(t) : t[i] = Announced
  BY DEF AllAnnounced, t
<1>4. ASSUME NEW i \in 1..Len(b) PROVE b[i] = Announced
  <2>1. i + Len(a) \in 1..Len(a) + Len(b) /\ ~(i + Len(a) <= Len(a)) /\ i + Len(a) - Len(a) = i
    BY <1>2
  <2>2. t[i + Len(a)] = b[i]
    BY <1>1, <2>1
  <2> QED BY <1>1, <1>3, <2>1, <2>2
<1> QED BY <1>4 DEF AllAnnounced

LEMMA NothingSent == AllAnnounced(<<>>)
BY DEF AllAnnounced

----------------------------------------------------------------------------
(* The parser keeps the conversation *)

\* The token in front of the parser is an announcement, or the next one of the
\* answer to the request.
LEMMA Parsing ==
  ASSUME DiskInv, NEW k, Parses(k), UNCHANGED <<from_host, sending>>
  PROVE  /\ open
         /\ \/ Head(buf) = Announced /\ AllAnnounced(Stream) /\ AllAnnounced(Stream')
            \/ /\ reading /\ to_host = <<>> /\ Head(buf) = Announced
               /\ \E m, j : UnderWay(m, j) /\ m > 0 /\ Carries(Stream', asked, m - 1, j)
            \/ /\ reading /\ to_host = <<>>
               /\ \E j : /\ UnderWay(0, j) /\ Head(buf) = Answer(asked)[j + 1]
                         /\ IF j + 1 < AnswerLength THEN Carries(Stream', asked, 0, j + 1)
                            ELSE AllAnnounced(Stream')
<1>1. /\ Stream \in Seq(Token) /\ Stream # <<>> /\ Head(Stream) = Head(buf)
      /\ Stream' = Tail(Stream)
  BY StreamType, StreamParsed DEF DiskInv
<1>2. open
  BY <1>1 DEF DiskInv, Conversation
<1>3. CASE AllAnnounced(Stream)
  BY <1>1, <1>2, <1>3, TakenInFront
<1>4. CASE reading /\ to_host = <<>> /\ \E m, j : UnderWay(m, j)
  <2>1. PICK m, j : UnderWay(m, j)
    BY <1>4
  <2>2. \/ Head(buf) = Announced /\ m > 0 /\ Carries(Stream', asked, m - 1, j)
        \/ /\ Head(buf) = Answer(asked)[j + 1] /\ m = 0
           /\ IF j + 1 < AnswerLength THEN Carries(Stream', asked, 0, j + 1)
              ELSE AllAnnounced(Stream')
    <3>1. Carries(Stream, asked, m, j)
      BY <2>1 DEF UnderWay
    <3> QED BY <1>1, <3>1, TakenInFront
  <2> QED BY <1>2, <1>4, <2>1, <2>2, Zenon
<1>5. AllAnnounced(Stream) \/ (reading /\ to_host = <<>> /\ \E m, j : UnderWay(m, j))
  BY <1>2, Zenon DEF DiskInv, Conversation
<1> QED BY <1>3, <1>4, <1>5

\* A token that is not an announcement is one of the answer.
LEMMA Answered ==
  ASSUME DiskInv, NEW k, Parses(k), k # "@", UNCHANGED <<from_host, sending>>
  PROVE  /\ open /\ reading /\ to_host = <<>> /\ asked \in Request /\ asked.track = line.track
         /\ \E j \in 0..AnswerLength - 1 :
              /\ UnderWay(0, j) /\ Head(buf) = Answer(asked)[j + 1]
              /\ IF j + 1 < AnswerLength THEN Carries(Stream', asked, 0, j + 1)
                 ELSE AllAnnounced(Stream')
<1>1. Head(buf) # Announced
  BY AnnouncedType DEF Parses
<1>2. /\ open /\ reading /\ to_host = <<>>
      /\ \E j : /\ UnderWay(0, j) /\ Head(buf) = Answer(asked)[j + 1]
                /\ IF j + 1 < AnswerLength THEN Carries(Stream', asked, 0, j + 1)
                   ELSE AllAnnounced(Stream')
  BY <1>1, Parsing, Zenon
<1>3. \A j : UnderWay(0, j) => j \in 0..AnswerLength - 1
  BY DEF UnderWay, Carries
<1>4. asked \in Request /\ asked.track = line.track
  BY <1>2 DEF DiskInv, Conversation
<1> QED BY <1>2, <1>3, <1>4, Zenon

\* The place of a token in the answer, by its kind.
LEMMA KindOfToken ==
  ASSUME NEW r \in Request, NEW j \in 0..AnswerLength - 1
  PROVE  LET x == Answer(r)[j + 1] IN
         /\ x.k = "#" => j = 0 /\ x.of = r
         /\ x.k = "byte" => j \in 1..SectorSize /\ x.byte = Data(r.track, r.sector)[j - 1]
         /\ x.k = "=" => j = SectorSize + 1 /\ x.of = r
         /\ x.k = "*" => j = SectorSize + 2
         /\ x.k # "@"
<1> DEFINE x == Answer(r)[j + 1]
<1>1. CASE j = 0
  <2>1. x = [k |-> "#", of |-> r]
    <3>1. j + 1 = 1
      BY <1>1
    <3> QED BY <3>1, AnswerShape
  <2> QED BY <1>1, <2>1
<1>2. CASE j \in 1..SectorSize
  <2>1. j + 1 \in 2..SectorSize + 1 /\ j + 1 - 2 = j - 1
    BY <1>2, SizeType
  <2> HIDE DEF x
  <2>2. x = [k |-> "byte", byte |-> Data(r.track, r.sector)[j - 1]]
    <3>1. \A i \in 2..SectorSize + 1 :
            Answer(r)[i] = [k |-> "byte", byte |-> Data(r.track, r.sector)[i - 2]]
      BY AnswerShape
    <3> QED BY <2>1, <3>1 DEF x
  <2>3. x.k = "byte" /\ x.byte = Data(r.track, r.sector)[j - 1]
    BY <2>2
  <2> QED BY <1>2, <2>3 DEF x
<1>3. CASE j = SectorSize + 1
  <2>1. x = [k |-> "=", of |-> r]
    <3>1. j + 1 = SectorSize + 2
      BY <1>3, SizeType
    <3> QED BY <3>1, AnswerShape
  <2> QED BY <1>3, <2>1
<1>4. CASE j = SectorSize + 2
  <2>1. x = [k |-> "*"]
    <3>1. j + 1 = SectorSize + 3
      BY <1>4, SizeType
    <3> QED BY <3>1, AnswerShape
  <2> QED BY <1>4, <2>1
<1>5. j = 0 \/ j \in 1..SectorSize \/ j = SectorSize + 1 \/ j = SectorSize + 2
  BY SizeType DEF AnswerLength
<1> QED BY <1>1, <1>2, <1>3, <1>4, <1>5

\* The invariant is kept while the answer comes in.
LEMMA StillUnderWay ==
  ASSUME DiskInv, open, reading, to_host = <<>>, UNCHANGED <<open, to_host, asked>>, reading',
         line'.track = line.track, NEW m, NEW j, UnderWay(m, j)'
  PROVE  Conversation'
BY DEF DiskInv, Conversation

LEMMA HeaderStep == DiskInv /\ parse_header => Conversation' /\ Held'
<1> SUFFICES ASSUME DiskInv, parse_header PROVE Conversation' /\ Held'
  OBVIOUS
<1>1. /\ Parses("#") /\ UNCHANGED <<from_host, sending, line, track_cache, asked, open, to_host>>
      /\ external_disk_state' = external_disk_state
      /\ sector_start' = Head(buf).of.sector /\ current_sector' = Head(buf).of.sector
      /\ current_byte' = 0 /\ half_byte' = FALSE /\ Head(buf).k = "#"
  BY DEF parse_header, host, Parses
<1>2. open /\ reading /\ to_host = <<>> /\ asked \in Request
  BY <1>1, Answered
<1>3. PICK j \in 0..AnswerLength - 1 :
        /\ UnderWay(0, j) /\ Head(buf) = Answer(asked)[j + 1]
        /\ IF j + 1 < AnswerLength THEN Carries(Stream', asked, 0, j + 1)
           ELSE AllAnnounced(Stream')
  BY <1>1, Answered
<1>4. j = 0 /\ Head(buf).of = asked
  BY <1>1, <1>2, <1>3, KindOfToken
<1>5. Carries(Stream', asked, 0, 1)
  BY <1>3, <1>4, SizeType DEF AnswerLength
<1>6. asked.sector \notin line.valid
  BY <1>3, <1>4, SizeType DEF UnderWay
<1>7. Placed(1)'
  BY <1>1, <1>4, SizeType DEF Placed, Place
<1>8. UnderWay(0, 1)'
  BY <1>1, <1>5, <1>6, <1>7 DEF UnderWay
<1>9. Conversation'
  BY <1>1, <1>2, <1>8, StillUnderWay DEF reading
<1> QED BY <1>1, <1>9 DEF DiskInv, Held

LEMMA ByteStep ==
  DiskInv /\ parse_byte
    => /\ ~half_byte /\ sector_start = Head(buf).byte.sector /\ current_byte = Head(buf).byte.n
       /\ Conversation' /\ Held'
<1> SUFFICES ASSUME DiskInv, parse_byte
             PROVE  /\ ~half_byte /\ sector_start = Head(buf).byte.sector
                    /\ current_byte = Head(buf).byte.n
                    /\ Conversation' /\ Held'
  OBVIOUS
<1>1. /\ Parses("byte") /\ UNCHANGED <<from_host, sending, line, asked, open, to_host>>
      /\ external_disk_state' = external_disk_state /\ Head(buf).k = "byte"
      /\ UNCHANGED <<sector_start, current_sector>>
  BY DEF parse_byte, host, Parses
<1>2. open /\ reading /\ to_host = <<>> /\ asked \in Request
  BY <1>1, Answered
<1>3. PICK j \in 0..AnswerLength - 1 :
        /\ UnderWay(0, j) /\ Head(buf) = Answer(asked)[j + 1]
        /\ IF j + 1 < AnswerLength THEN Carries(Stream', asked, 0, j + 1)
           ELSE AllAnnounced(Stream')
  BY <1>1, Answered
<1>4. j \in 1..SectorSize /\ Head(buf).byte = Data(asked.track, asked.sector)[j - 1]
  BY <1>1, <1>2, <1>3, KindOfToken
<1>5. /\ sector_start = asked.sector /\ current_sector = asked.sector /\ current_byte = j - 1
      /\ ~half_byte
      /\ \A n \in Place : n < j - 1 =>
           track_cache[asked.sector][n] = Data(asked.track, asked.sector)[n]
  <2>1. Placed(j) /\ j <= SectorSize
    BY <1>3, <1>4, SizeType DEF UnderWay
  <2> QED BY <2>1 DEF Placed
<1>6. asked.sector \in Sectors /\ asked.sector # NULL
  BY <1>2, ExternalAssumption DEF Request
<1>7. current_byte < SectorSize /\ j - 1 \in Place /\ j + 1 < AnswerLength
  BY <1>4, <1>5, SizeType DEF Place, AnswerLength
<1>8. Put(1, Head(buf).byte) /\ UNCHANGED half_byte
  BY <1>5 DEF parse_byte
<1>9. Head(buf).byte = [track |-> asked.track, sector |-> asked.sector, n |-> j - 1]
  BY <1>4, <1>7 DEF Data
<1>10. /\ track_cache'[asked.sector][j - 1] = Data(asked.track, asked.sector)[j - 1]
       /\ \A n \in Place : n # j - 1 =>
            track_cache'[asked.sector][n] = track_cache[asked.sector][n]
       /\ \A s \in Sectors : s # asked.sector => track_cache'[s] = track_cache[s]
       /\ current_byte' = j
  <2>1. Head(buf).byte \in Byte
    BY <1>2, <1>7, <1>9 DEF Byte, Request
  <2>2. /\ track_cache'[sector_start][current_byte] = Head(buf).byte
        /\ \A n \in Place : n # current_byte =>
             track_cache'[sector_start][n] = track_cache[sector_start][n]
        /\ \A s \in Sectors : s # sector_start => track_cache'[s] = track_cache[s]
        /\ current_byte' = current_byte + 1
    BY <1>5, <1>6, <1>7, <1>8, <2>1, PutInPlace DEF DiskInv
  <2> QED BY <1>4, <1>5, <2>2
<1>11. asked.sector \notin line.valid /\ line.valid \subseteq Sectors
  BY <1>3, <1>4, SizeType DEF UnderWay, DiskInv, Typed, TypeOK
<1>12. Placed(j + 1)'
  <2>1. ASSUME NEW n \in Place, n < j
        PROVE  track_cache'[asked.sector][n] = Data(asked.track, asked.sector)[n]
    <3>1. n = j - 1 \/ (n < j - 1 /\ n # j - 1)
      BY <1>4, <2>1, SizeType DEF Place
    <3> QED BY <1>5, <1>10, <3>1
  <2>2. j = IF j + 1 <= SectorSize THEN j + 1 - 1 ELSE SectorSize
    BY <1>4, SizeType
  <2> QED BY <1>1, <1>5, <1>8, <1>10, <2>1, <2>2 DEF Placed
<1>13. UnderWay(0, j + 1)'
  <2>1. Carries(Stream', asked, 0, j + 1)
    BY <1>3, <1>7
  <2> QED BY <1>1, <1>11, <1>12, <2>1 DEF UnderWay
<1>14. Conversation'
  BY <1>1, <1>2, <1>13, StillUnderWay DEF reading
<1>15. Held'
  BY <1>1, <1>10, <1>11 DEF DiskInv, Held
<1> QED BY <1>5, <1>9, <1>14, <1>15

\* With every byte in its place the checksum agrees.
LEMMA ChecksumStep ==
  DiskInv /\ parse_checksum
    => /\ reading /\ asked \in Request /\ line' = [line EXCEPT !.valid = @ \cup {asked.sector}]
       /\ Conversation' /\ Held'
<1> SUFFICES ASSUME DiskInv, parse_checksum
             PROVE  /\ reading /\ asked \in Request
                    /\ line' = [line EXCEPT !.valid = @ \cup {asked.sector}]
                    /\ Conversation' /\ Held'
  OBVIOUS
<1>1. /\ Parses("=") /\ UNCHANGED <<from_host, sending, asked, open, to_host>>
      /\ external_disk_state' = external_disk_state /\ Head(buf).k = "="
      /\ UNCHANGED <<sector_start, current_sector, current_byte, half_byte, track_cache>>
  BY DEF parse_checksum, host, Parses
<1>2. open /\ reading /\ to_host = <<>> /\ asked \in Request /\ asked.track = line.track
  BY <1>1, Answered
<1>3. PICK j \in 0..AnswerLength - 1 :
        /\ UnderWay(0, j) /\ Head(buf) = Answer(asked)[j + 1]
        /\ IF j + 1 < AnswerLength THEN Carries(Stream', asked, 0, j + 1)
           ELSE AllAnnounced(Stream')
  BY <1>1, Answered
<1>4. j = SectorSize + 1 /\ Head(buf).of = asked
  BY <1>1, <1>2, <1>3, KindOfToken
<1>5. Placed(j) /\ j > SectorSize /\ j + 1 < AnswerLength /\ ~(j + 1 <= SectorSize + 1) /\ j > 0
  BY <1>3, <1>4, SizeType DEF UnderWay, AnswerLength
<1>6. /\ sector_start = asked.sector /\ current_sector = asked.sector
      /\ current_byte = SectorSize
      /\ \A n \in Place : track_cache[asked.sector][n] = Data(asked.track, asked.sector)[n]
  BY <1>5, <1>4, SizeType DEF Placed, Place
<1>7. asked.sector \in Sectors /\ asked.sector # NULL
  BY <1>2, ExternalAssumption DEF Request
<1>8. track_cache[asked.sector] = Data(asked.track, asked.sector)
  <2>1. track_cache[asked.sector] \in [Place -> Byte \cup {NULL}]
    BY <1>7 DEF DiskInv, Typed, TypeOK
  <2> QED BY <1>6, <2>1 DEF Data
<1>9. line' = [line EXCEPT !.valid = line.valid \cup {asked.sector}]
  <2>1. /\ sector_start # NULL
        /\ track_cache[sector_start] = Data(Head(buf).of.track, Head(buf).of.sector)
    BY <1>4, <1>6, <1>7, <1>8
  <2> QED BY <1>6, <2>1, Zenon DEF parse_checksum
<1>10. line'.track = line.track /\ line'.valid = line.valid \cup {asked.sector}
  BY <1>9 DEF DiskInv, Typed, TypeOK
<1>11. UnderWay(0, j + 1)'
  <2>1. Carries(Stream', asked, 0, j + 1)
    BY <1>3, <1>5
  <2>2. Placed(j + 1)'
    <3>1. ~(j <= SectorSize) /\ ~(j + 1 <= SectorSize)
      BY <1>4, SizeType
    <3> QED BY <1>1, <1>5, <3>1 DEF Placed
  <2> QED BY <1>1, <1>5, <2>1, <2>2 DEF UnderWay
<1>12. Conversation'
  BY <1>1, <1>2, <1>10, <1>11, StillUnderWay DEF reading
<1>13. Held'
  BY <1>1, <1>2, <1>8, <1>10 DEF DiskInv, Held
<1> QED BY <1>2, <1>9, <1>12, <1>13

LEMMA EndStep == DiskInv /\ parse_end => Conversation' /\ Held'
<1> SUFFICES ASSUME DiskInv, parse_end PROVE Conversation' /\ Held'
  OBVIOUS
<1>1. /\ Parses("*") /\ UNCHANGED <<from_host, sending, line, track_cache, asked, open, to_host>>
      /\ external_disk_state' = "inserted" /\ Head(buf).k = "*"
  BY DEF parse_end, index, host, Parses
<1>2. open /\ to_host = <<>> /\ asked \in Request
  BY <1>1, Answered
<1>3. PICK j \in 0..AnswerLength - 1 :
        /\ UnderWay(0, j) /\ Head(buf) = Answer(asked)[j + 1]
        /\ IF j + 1 < AnswerLength THEN Carries(Stream', asked, 0, j + 1)
           ELSE AllAnnounced(Stream')
  BY <1>1, Answered
<1>4. j = SectorSize + 2
  BY <1>1, <1>2, <1>3, KindOfToken
<1>5. AllAnnounced(Stream')
  BY <1>3, <1>4, SizeType DEF AnswerLength
<1>6. Conversation'
  BY <1>1, <1>2, <1>5 DEF Conversation, reading
<1> QED BY <1>1, <1>6 DEF DiskInv, Held

\* Of an announcement that ends with the digit of its own, digits are left over
\* and nothing else is read.
LEMMA VolumeStep == ~Terse /\ DiskInv /\ parse_volume => Conversation' /\ Held'
<1> SUFFICES ASSUME ~Terse, DiskInv, parse_volume PROVE Conversation' /\ Held'
  OBVIOUS
<1>1. /\ Parses("@") /\ UNCHANGED <<from_host, sending, asked, open, to_host>>
      /\ external_disk_state' = external_disk_state /\ Head(buf).k = "@" /\ digits(1)
  BY DEF parse_volume, host, Parses
<1>2. /\ UNCHANGED <<line, sector_start, current_sector, reading>>
      /\ \A s \in Sectors, n \in Place : track_cache'[s][n] \in {track_cache[s][n], NULL}
  BY <1>1, DigitsSomewhere DEF parse_volume, reading, DiskInv
<1>3. open /\ open'
  BY <1>1, Parsing
<1>4. Held'
  BY <1>2 DEF DiskInv, Held, Typed, TypeOK
<1>5. CASE AllAnnounced(Stream) /\ AllAnnounced(Stream')
  <2>1. /\ reading => asked \in Request /\ asked.track = line.track
        /\ ~reading => to_host = <<>>
        /\ reading => \/ to_host = <<asked>> /\ asked.sector \notin line.valid
                      \/ to_host = <<>>
    BY <1>3 DEF DiskInv, Conversation
  <2>2. AllAnnounced(Stream)'
    BY <1>5
  <2>3. \/ ~reading' /\ to_host' = <<>>
        \/ /\ reading' /\ asked' \in Request /\ asked'.track = line'.track
           /\ \/ to_host' = <<asked'>> /\ asked'.sector \notin line'.valid
              \/ to_host' = <<>>
    BY <1>1, <1>2, <2>1 DEF reading
  <2>4. Conversation'
    BY <1>3, <2>2, <2>3, Zenon DEF Conversation
  <2> QED BY <1>4, <2>4
<1>6. CASE /\ reading /\ to_host = <<>>
           /\ \E m, j : UnderWay(m, j) /\ m > 0 /\ Carries(Stream', asked, m - 1, j)
  <2>1. PICK m, j : UnderWay(m, j) /\ m > 0 /\ Carries(Stream', asked, m - 1, j)
    BY <1>6
  <2>2. ~(j > 0)
    BY <2>1 DEF UnderWay, Carries
  <2>3. UnderWay(m - 1, j)'
    BY <1>1, <1>2, <2>1, <2>2 DEF UnderWay
  <2> QED BY <1>1, <1>2, <1>3, <1>6, <1>4, <2>3, StillUnderWay DEF reading
<1>7. CASE /\ reading
           /\ \E j : UnderWay(0, j) /\ Head(buf) = Answer(asked)[j + 1]
  <2>1. PICK j : UnderWay(0, j) /\ Head(buf) = Answer(asked)[j + 1]
    BY <1>7
  <2>2. j \in 0..AnswerLength - 1 /\ asked \in Request
    BY <1>7, <2>1 DEF UnderWay, Carries, DiskInv, Conversation
  <2> QED BY <1>1, <2>1, <2>2, KindOfToken
<1>8. \/ Head(buf) = Announced /\ AllAnnounced(Stream) /\ AllAnnounced(Stream')
      \/ /\ reading /\ to_host = <<>> /\ Head(buf) = Announced
         /\ \E m, j : UnderWay(m, j) /\ m > 0 /\ Carries(Stream', asked, m - 1, j)
      \/ /\ reading /\ to_host = <<>>
         /\ \E j : /\ UnderWay(0, j) /\ Head(buf) = Answer(asked)[j + 1]
                   /\ IF j + 1 < AnswerLength THEN Carries(Stream', asked, 0, j + 1)
                      ELSE AllAnnounced(Stream')
  BY <1>1, Parsing
<1> QED BY <1>5, <1>6, <1>7, <1>4, <1>8, Zenon

----------------------------------------------------------------------------
(* The head and the host keep the conversation *)

\* The request goes out on its own, for a sector that is not in the line.
LEMMA RequestStep ==
  ASSUME DiskInv, NEW t \in Tracks, NEW s \in Sectors, cache_request(t, s)
  PROVE  Conversation' /\ Held'
<1>1. /\ ~reading /\ UNCHANGED <<from_host, sending, buf, open, track_cache>>
      /\ (line'.track = t /\ s \notin line'.valid)
      /\ (line' = line \/ line'.valid = {})
  BY DEF cache_request, Line, DiskInv, Typed, TypeOK
<1>2. Held'
  BY <1>1 DEF DiskInv, Held
<1>3. Stream' = Stream
  BY <1>1 DEF Stream
<1>4. \/ /\ Len(to_host) < TxRoom
         /\ to_host' = Append(to_host, asked') /\ asked' = [track |-> t, sector |-> s]
         /\ external_disk_state' = "reading"
      \/ /\ ~(Len(to_host) < TxRoom)
         /\ UNCHANGED <<to_host, asked, external_disk_state>>
  BY DEF cache_request
<1>5. ~open => Stream = <<>>
  BY DEF DiskInv, Conversation
<1>6. open => to_host = <<>> /\ AllAnnounced(Stream)
  BY <1>1 DEF DiskInv, Conversation
<1>7. CASE /\ Len(to_host) < TxRoom
           /\ to_host' = Append(to_host, asked') /\ asked' = [track |-> t, sector |-> s]
           /\ external_disk_state' = "reading"
  <2>1. reading' /\ asked' \in Request /\ asked'.track = line'.track /\ asked'.sector \notin line'.valid
    BY <1>1, <1>7 DEF reading, Request
  <2>2. AllAnnounced(Stream) => AllAnnounced(Stream)'
    BY <1>3
  <2>3. open => to_host' = <<asked'>> /\ AllAnnounced(Stream)'
    <3>1. Append(<<>>, asked') = <<asked'>>
      OBVIOUS
    <3> QED BY <1>6, <1>7, <2>2, <3>1
  <2>4. Conversation'
    BY <1>1, <1>3, <1>5, <2>1, <2>3, Zenon DEF Conversation
  <2> QED BY <1>2, <2>4
<1>8. CASE ~(Len(to_host) < TxRoom) /\ UNCHANGED <<to_host, asked, external_disk_state>>
  <2>1. ~reading' /\ ~open
    BY <1>1, <1>6, <1>8, ExternalAssumption DEF reading
  <2>2. Conversation'
    BY <1>1, <1>3, <1>5, <2>1, Zenon DEF Conversation
  <2> QED BY <1>2, <2>2
<1> QED BY <1>4, <1>7, <1>8

\* The port only moves what has been sent.
LEMMA PortStep == DiskInv /\ (receive \/ send) => Conversation' /\ Held'
<1> SUFFICES ASSUME DiskInv, receive \/ send PROVE Conversation' /\ Held'
  OBVIOUS
<1>1. buf = <<>> /\ UNCHANGED <<external_disk_state, index, asked, open, to_host>>
  BY DEF receive, send, host
<1>2. Stream' = Stream
  BY <1>1, StreamOtherwise DEF DiskInv
<1>3. UNCHANGED <<line, track_cache, sector_start, current_sector, current_byte, half_byte, reading>>
  BY <1>1 DEF index, reading
<1>4. Held'
  BY <1>3 DEF DiskInv, Held
<1>5. \A m, j : UnderWay(m, j) => UnderWay(m, j)'
  BY <1>1, <1>2, <1>3 DEF UnderWay, Placed
<1>6. AllAnnounced(Stream) => AllAnnounced(Stream)'
  BY <1>2
<1>7. Conversation'
  BY <1>1, <1>2, <1>3, <1>5, <1>6 DEF DiskInv, Conversation
<1> QED BY <1>4, <1>7

\* A patient host owes nothing when the request is given up.
LEMMA PollStep == Patient /\ DiskInv /\ poll => Conversation' /\ Held'
<1> SUFFICES ASSUME Patient, DiskInv, poll PROVE Conversation' /\ Held'
  OBVIOUS
<1>1. /\ reading /\ buf = <<>> /\ from_host = <<>>
      /\ UNCHANGED <<line, track_cache, current_sector, current_byte, half_byte, buf, asked, open, to_host,
                     sending, from_host>>
      /\ Owed => retries < RetryLimit
  BY DEF poll, host
<1>2. Stream' = Stream
  BY <1>1 DEF Stream
<1>3. Held'
  BY <1>1 DEF DiskInv, Held
<1>4. CASE retries > RetryLimit
  <2>1. ~Owed
    BY <1>1, <1>4, ExternalAssumption DEF DiskInv, Typed, TypeOK
  <2>2. open => to_host = <<>> /\ sending = <<>>
    BY <2>1 DEF Owed
  <2>3. open => Stream = <<>>
    BY <1>1, <2>2, StreamOtherwise, ConcatEmptySeq, EmptySeq DEF DiskInv
  <2>4. ~reading'
    BY <1>4 DEF poll, reading
  <2>5. Stream = <<>>
    BY <2>3 DEF DiskInv, Conversation
  <2> QED BY <1>1, <1>2, <1>3, <2>2, <2>4, <2>5, NothingSent DEF Conversation
<1>5. CASE ~(retries > RetryLimit)
  <2>1. UNCHANGED <<reading, sector_start>>
    BY <1>5 DEF poll, reading
  <2>2. \A m, j : UnderWay(m, j) => UnderWay(m, j)'
    BY <1>1, <1>2, <2>1 DEF UnderWay, Placed
  <2>3. AllAnnounced(Stream) => AllAnnounced(Stream)'
    BY <1>2
  <2> QED BY <1>1, <1>2, <1>3, <2>1, <2>2, <2>3 DEF DiskInv, Conversation
<1> QED BY <1>4, <1>5

LEMMA IdleStep == DiskInv /\ idle => Conversation' /\ Held'
<1> SUFFICES ASSUME DiskInv, idle PROVE Conversation' /\ Held'
  OBVIOUS
<1>1. /\ ~reading /\ buf = <<>> /\ from_host # <<>>
      /\ UNCHANGED <<track_cache, asked, open, to_host>>
      /\ line' = line \/ line'.valid = {}
      /\ ~reading'
  BY DEF idle, host, reading, DiskInv, Typed, TypeOK
<1>2. from_host \in Seq(Token) /\ sending \in Seq(Token)
  BY DEF DiskInv, Typed, TypeOK
<1>3. Stream = from_host \o sending /\ Stream' = sending
  BY <1>1, StreamOtherwise DEF DiskInv
<1>4. Stream # <<>>
  BY <1>1, <1>2, <1>3, FrontOfConcat
<1>5. open /\ to_host = <<>> /\ AllAnnounced(Stream)
  BY <1>1, <1>4 DEF DiskInv, Conversation
<1>6. AllAnnounced(sending)
  BY <1>2, <1>3, <1>5, AnnouncedParts
<1>7. AllAnnounced(Stream)'
  BY <1>3, <1>6
<1>8. Held'
  BY <1>1 DEF DiskInv, Held
<1>9. Conversation'
  BY <1>1, <1>5, <1>7, Zenon DEF Conversation
<1> QED BY <1>8, <1>9

\* The host reads the only request there is, and has nothing else to say.
LEMMA TakeStep == DiskInv /\ take => Conversation' /\ Held'
<1> SUFFICES ASSUME DiskInv, take PROVE Conversation' /\ Held'
  OBVIOUS
<1>1. /\ open /\ buf = <<>> /\ to_host # <<>> /\ sending = <<>> /\ to_host' = Tail(to_host)
      /\ sending' \in {<<>>, Answer(Head(to_host))}
      /\ UNCHANGED <<external_disk_state, index, asked, open>>
  BY DEF take
<1>2. UNCHANGED <<line, track_cache, sector_start, current_sector, current_byte, half_byte, reading>>
  BY <1>1 DEF index, reading
<1>3. /\ reading /\ to_host = <<asked>> /\ AllAnnounced(Stream) /\ asked.sector \notin line.valid
      /\ asked \in Request /\ asked.track = line.track
  BY <1>1 DEF DiskInv, Conversation
<1>4. to_host' = <<>> /\ Head(to_host) = asked
  BY <1>1, <1>3
<1>5. Stream = from_host /\ Stream' = from_host \o sending' /\ from_host \in Seq(Token)
  BY <1>1, StreamOtherwise DEF DiskInv, Typed, TypeOK
<1>6. Held'
  BY <1>2 DEF DiskInv, Held
<1>7. CASE sending' = <<>>
  <2>1. Stream' = Stream
    BY <1>5, <1>7, ConcatEmptySeq, Zenon
  <2>2. AllAnnounced(Stream)'
    BY <1>3, <2>1
  <2>3. Conversation'
    BY <1>1, <1>2, <1>3, <1>4, <2>2 DEF Conversation
  <2> QED BY <1>6, <2>3
<1>8. CASE sending' = Answer(asked)
  <2>1. Carries(Stream', asked, Len(from_host), 0)
    BY <1>3, <1>5, <1>8, AnswerBehind
  <2>2. UnderWay(Len(from_host), 0)'
    <3> DEFINE m == Len(from_host)
    <3>1. UNCHANGED from_host
      BY DEF take
    <3> QED BY <1>1, <1>2, <1>3, <2>1, <3>1 DEF UnderWay
  <2>3. \E m, j : UnderWay(m, j)'
    BY <2>2, Zenon
  <2>4. Conversation'
    BY <1>1, <1>2, <1>3, <1>4, <2>3 DEF Conversation
  <2> QED BY <1>6, <2>4
<1> QED BY <1>1, <1>4, <1>7, <1>8

LEMMA AnnounceStep == DiskInv /\ announce => Conversation' /\ Held'
<1> SUFFICES ASSUME DiskInv, announce PROVE Conversation' /\ Held'
  OBVIOUS
<1>1. /\ open /\ buf = <<>>
      /\ UNCHANGED <<external_disk_state, index, asked, open, to_host>>
  BY DEF announce, host
<1>2. UNCHANGED <<line, track_cache, sector_start, current_sector, current_byte, half_byte, reading>>
  BY <1>1 DEF index, reading
<1>3. Stream' = Append(Stream, Announced) /\ Stream \in Seq(Token)
  BY <1>1, StreamOtherwise, StreamType DEF DiskInv
<1>4. AllAnnounced(Stream) => AllAnnounced(Stream)'
  BY <1>3, AnnouncedBehind
<1>5. \A m, j : Carries(Stream, asked, m, j) => Carries(Stream', asked, m, j)
  BY <1>3, AnnouncedBehind
<1>6. \A m, j : UnderWay(m, j) => UnderWay(m, j)'
  BY <1>1, <1>2, <1>5 DEF UnderWay, Placed
<1>7. Held'
  BY <1>2 DEF DiskInv, Held
<1>8. Conversation'
  BY <1>1, <1>2, <1>4, <1>6 DEF DiskInv, Conversation
<1> QED BY <1>7, <1>8

LEMMA LineStateStep == Patient /\ DiskInv /\ line_state => Conversation' /\ Held'
<1> SUFFICES ASSUME Patient, DiskInv, line_state PROVE Conversation' /\ Held'
  OBVIOUS
<1>1. /\ buf = <<>> /\ sending = <<>> /\ from_host = <<>> /\ to_host' = <<>>
      /\ UNCHANGED <<buf, sending, from_host, index>> /\ ~reading'
  BY DEF line_state, reading
<1>2. Stream = <<>>
  BY <1>1, StreamOtherwise, ConcatEmptySeq, EmptySeq DEF DiskInv
<1>3. Stream' = <<>>
  BY <1>1, <1>2 DEF Stream
<1>4. Held'
  BY <1>1 DEF DiskInv, Held, index
<1>5. Conversation'
  BY <1>1, <1>3, NothingSent DEF Conversation
<1> QED BY <1>4, <1>5

LEMMA DiskInvInit == Init => DiskInv
<1> SUFFICES ASSUME Init PROVE Conversation /\ Held
  BY TypedInit DEF DiskInv
<1>1. buf = <<>> /\ from_host = <<>> /\ sending = <<>> /\ ~open /\ ~reading /\ line.valid = {}
  BY DEF Init, reading
<1>2. Stream = <<>>
  BY <1>1, ConcatEmptySeq, EmptySeq DEF Stream
<1> QED BY <1>1, <1>2 DEF Conversation, Held

LEMMA DiskInvStep == Patient /\ ~Terse /\ DiskInv /\ [Next]_vars => DiskInv'
<1> SUFFICES ASSUME Patient, ~Terse, DiskInv, [Next]_vars PROVE Conversation' /\ Held'
  BY TypedStep DEF DiskInv
<1>1. CASE UNCHANGED vars
  BY <1>1 DEF vars, index, host, DiskInv, Conversation, Held, reading, Stream, UnderWay, Placed
<1>2. CASE \E t \in Tracks, s \in Sectors : cache_request(t, s)
  BY <1>2, RequestStep
<1>3. CASE external_disk_buffer_management
  BY <1>3, PortStep, PollStep, IdleStep, HeaderStep, ByteStep, ChecksumStep, EndStep, VolumeStep, Zenon
     DEF external_disk_buffer_management
<1>4. CASE take \/ send \/ announce \/ line_state
  BY <1>4, TakeStep, PortStep, AnnounceStep, LineStateStep, Zenon
<1> QED BY <1>1, <1>2, <1>3, <1>4 DEF Next

----------------------------------------------------------------------------
(* The theorems *)

\* The variables hold values of their types, whatever the host sends and when.
THEOREM TypeCorrect == Spec => []TypeOK
<1>1. Typed => TypeOK
  BY DEF Typed
<1> QED BY <1>1, TypedInit, TypedStep, PTL DEF Spec

\* With a patient host the conversation is always one of request and answer, and
\* what is marked valid is what the line's track holds.  An announcement must have a
\* character of its own where the parser takes one for a digit (disk.c:642-654).
THEOREM Conversing == Patient /\ ~Terse => (Spec => []DiskInv)
<1> SUFFICES ASSUME Patient, ~Terse PROVE Spec => []DiskInv
  OBVIOUS
<1>1. DiskInv /\ [Next]_vars => DiskInv'
  BY DiskInvStep
<1> QED BY <1>1, DiskInvInit, PTL DEF Spec

\* With such a host no byte of an answer is lost, and each goes to its own place
\* in the sector of its header (disk.c:643-665).
THEOREM EveryByteHasAPlace == Patient /\ ~Terse => (Spec => BytesHaveAPlace)
<1> SUFFICES ASSUME Patient, ~Terse PROVE Spec => BytesHaveAPlace
  OBVIOUS
<1>1. DiskInv => [parse_byte => /\ ~half_byte
                              /\ sector_start = Head(buf).byte.sector
                              /\ current_byte = Head(buf).byte.n]_vars
  BY ByteStep
<1>2. Spec => []DiskInv
  BY Conversing
<1> QED BY <1>1, <1>2, PTL DEF Spec, BytesHaveAPlace

\* With such a host the line never holds the bytes of another track, which a late
\* host can bring about.
THEOREM OtherTracksKeptOut == Patient /\ ~Terse => (Spec => []OtherTracksIgnored)
<1> SUFFICES ASSUME Patient, ~Terse PROVE Spec => []OtherTracksIgnored
  OBVIOUS
<1>1. DiskInv => OtherTracksIgnored
  <2> SUFFICES ASSUME DiskInv, NEW s \in line.valid, NEW t \in Tracks,
                      track_cache[s] = Data(t, s)
               PROVE  t = line.track
    BY DEF OtherTracksIgnored
  <2>1. 0 \in Place /\ s \in Sectors
    BY SizeType DEF DiskInv, Typed, TypeOK, Place
  <2>2. Data(t, s)[0] \in {Data(line.track, s)[0], NULL}
    BY <2>1 DEF DiskInv, Held
  <2>3. Data(t, s)[0] = [track |-> t, sector |-> s, n |-> 0]
    BY <2>1 DEF Data
  <2>4. Data(t, s)[0] # NULL
    BY <2>1, <2>3, ExternalAssumption DEF Byte
  <2>5. Data(line.track, s)[0] = [track |-> line.track, sector |-> s, n |-> 0]
    BY <2>1 DEF Data
  <2> QED BY <2>2, <2>3, <2>4, <2>5
<1>2. Spec => []DiskInv
  BY Conversing
<1> QED BY <1>1, <1>2, PTL

----------------------------------------------------------------------------
(* The line is the one that the head of the drive expects *)

Wanted == IF reading THEN asked ELSE NULL

LEMMA CacheInit == Init => Cache!Init
BY DEF Init, Cache!Init, reading

\* A request turns the line to its track, or asks for what the line has not got.
LEMMA RequestTurnsOrAsks ==
  ASSUME DiskInv, NEW t \in Tracks, NEW s \in Sectors, cache_request(t, s)
  PROVE  [Cache!Next]_Cache!vars
<1>1. /\ ~reading /\ line \in [track : Tracks \cup {NoTrack}, valid : SUBSET Sectors]
      /\ ~(line.track = t /\ s \in line.valid)
      /\ line' = [track |-> t, valid |-> {}] \/ (line.track = t /\ line' = line)
  BY DEF cache_request, Line, DiskInv, Typed, TypeOK
<1>2. \/ asked' = [track |-> t, sector |-> s] /\ reading'
      \/ asked' = asked /\ ~reading'
  BY <1>1 DEF cache_request, reading
<1>3. CASE line' = [track |-> t, valid |-> {}]
  <2>1. Wanted' \in {NULL} \cup [track : {t}, sector : Sectors]
    BY <1>2 DEF Wanted
  <2>2. Cache!Turn(t)
    BY <1>1, <1>3, <2>1 DEF Cache!Turn, Wanted
  <2> QED BY <2>2 DEF Cache!Next
<1>4. CASE line.track = t /\ line' = line
  <2>1. CASE asked' = [track |-> t, sector |-> s] /\ reading'
    <3>1. Wanted' \in [track : {line.track}, sector : Sectors \ line.valid]
      BY <1>1, <1>4, <2>1 DEF Wanted
    <3>2. Cache!Ask
      BY <1>1, <1>4, <3>1 DEF Cache!Ask, Wanted
    <3> QED BY <3>2 DEF Cache!Next
  <2>2. CASE asked' = asked /\ ~reading'
    BY <1>1, <1>4, <2>2 DEF Cache!vars
  <2> QED BY <1>2, <2>1, <2>2
<1> QED BY <1>1, <1>3, <1>4

LEMMA CacheStep == DiskInv /\ [Next]_vars => [Cache!Next]_Cache!vars
<1> SUFFICES ASSUME DiskInv, [Next]_vars PROVE [Cache!Next]_Cache!vars
  OBVIOUS
<1>1. CASE UNCHANGED vars
  BY <1>1 DEF vars, index, reading, Cache!vars
<1>2. ASSUME NEW t \in Tracks, NEW s \in Sectors, cache_request(t, s)
      PROVE  [Cache!Next]_Cache!vars
  BY <1>2, RequestTurnsOrAsks
<1>3. CASE receive \/ take \/ send \/ announce \/ parse_header \/ parse_byte \/ parse_volume
  <2>1. UNCHANGED <<line, external_disk_state, asked>>
    BY <1>3 DEF receive, take, send, announce, parse_header, parse_byte, parse_volume, index
  <2> QED BY <2>1 DEF reading, Cache!vars
<1>4. CASE parse_checksum
  <2>1. /\ reading /\ asked \in Request /\ UNCHANGED <<external_disk_state, asked>>
        /\ line' = [line EXCEPT !.valid = @ \cup {asked.sector}]
    BY <1>4, ChecksumStep DEF parse_checksum
  <2>2. asked # NULL
    BY <2>1, ExternalAssumption DEF Request
  <2>3. line'.track = line.track /\ line'.valid = line.valid \cup {asked.sector}
    BY <2>1 DEF DiskInv, Typed, TypeOK
  <2>4. Cache!Arrive
    BY <2>1, <2>2, <2>3 DEF Cache!Arrive, reading
  <2> QED BY <2>4 DEF Cache!Next
<1>5. CASE parse_end \/ poll \/ line_state
  <2>1. UNCHANGED line /\ (~reading' \/ UNCHANGED <<external_disk_state, asked>>)
    BY <1>5 DEF parse_end, poll, line_state, index, reading
  <2>2. Cache!End \/ UNCHANGED Cache!vars
    BY <2>1 DEF Cache!End, Cache!vars, reading
  <2> QED BY <2>2 DEF Cache!Next
<1>6. CASE idle
  <2>1. ~reading /\ ~reading' /\ (line' = line \/ line' = [line EXCEPT !.valid = {}])
    BY <1>6 DEF idle, reading
  <2>2. line'.track = line.track /\ (line'.valid = {} \/ line' = line)
    BY <2>1 DEF DiskInv, Typed, TypeOK
  <2>3. Cache!Flush \/ UNCHANGED Cache!vars
    BY <2>1, <2>2 DEF Cache!Flush, Cache!vars
  <2> QED BY <2>3 DEF Cache!Next
<1> QED BY <1>1, <1>2, <1>3, <1>4, <1>5, <1>6 DEF Next, external_disk_buffer_management

\* With such a host the external disk is a cache line for the head: only what
\* was asked for arrives, and the track stays until the wait is over.
THEOREM DiskIsCache == Patient /\ ~Terse => (Spec => ImplementsCache)
<1> SUFFICES ASSUME Patient, ~Terse PROVE Spec => ImplementsCache
  OBVIOUS
<1>1. DiskInv /\ [Next]_vars => [Cache!Next]_Cache!vars
  BY CacheStep
<1>2. Spec => []DiskInv
  BY Conversing
<1> QED BY <1>1, <1>2, CacheInit, PTL DEF Spec, ImplementsCache, Cache!Spec
=============================================================================
