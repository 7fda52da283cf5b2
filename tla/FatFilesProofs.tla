--------------------------- MODULE FatFilesProofs ---------------------------
(***************************************************************************)
(* Proofs about the table of open files and the programs that share it:    *)
(* only scripts stay open, and what is installed or loaded is the file     *)
(* that was named, wherever its clusters lie and whatever else runs.       *)
(* And about the walk of readdir: a path leads to its entry, and a typed   *)
(* catalog shows the root directory.                                       *)
(***************************************************************************)
EXTENDS FatFiles, FiniteSetTheorems, SequenceTheorems, WellFoundedInduction, TLAPS

----------------------------------------------------------------------------
(* Numbers *)

Below == {pair \in Nat \X Nat : pair[1] < pair[2]}

LEMMA Smallest == ASSUME NEW S \in SUBSET Nat, S # {} PROVE \E n \in S : \A m \in S : n <= m
<1>1. IsWellFoundedOn(Below, Nat)
  BY NatLessThanWellFounded DEF OpToRel, Below
<1>2. PICK n \in S : \A m \in S : <<m, n>> \notin Below
  BY <1>1, WFMin
<1>3. ASSUME NEW m \in S PROVE n <= m
  <2>1. m \in Nat /\ n \in Nat /\ <<m, n>> \in Nat \X Nat
    OBVIOUS
  <2>2. ~(m < n)
    BY <1>2, <2>1 DEF Below
  <2> QED BY <2>1, <2>2
<1> QED BY <1>3

LEMMA Induction ==
  ASSUME NEW S \in SUBSET Nat, 0 \in S, \A n \in S : n + 1 \in S
  PROVE  S = Nat
<1> SUFFICES ASSUME Nat \ S # {} PROVE FALSE
  OBVIOUS
<1>1. PICK n \in Nat \ S : \A m \in Nat \ S : n <= m
  BY Smallest
<1>2. n # 0 /\ n - 1 \in Nat
  BY <1>1
<1>3. n - 1 \in S
  BY <1>1, <1>2
<1> QED BY <1>1, <1>2, <1>3

LEMMA Division ==
  ASSUME NEW p \in Nat, NEW d \in Nat, d > 0
  PROVE  p \div d \in Nat /\ p % d \in 0..d - 1 /\ p = (p \div d) * d + (p % d)
OBVIOUS

LEMMA DivisionUnique ==
  ASSUME NEW d \in Nat, NEW q \in Nat, NEW c \in Nat, NEW r \in Nat, NEW e \in Nat,
         r < d, e < d, q * d + r = c * d + e
  PROVE  q = c /\ r = e
<1>1. CASE q > c
  <2>1. PICK k \in Nat : q = c + 1 + k
    BY <1>1
  <2>2. q * d = c * d + d + k * d /\ k * d >= 0
    BY <2>1
  <2> QED BY <2>2
<1>2. CASE q < c
  <2>1. PICK k \in Nat : c = q + 1 + k
    BY <1>2
  <2>2. c * d = q * d + d + k * d /\ k * d >= 0
    BY <2>1
  <2> QED BY <2>2
<1> QED BY <1>1, <1>2

\* What a function makes of x when it is applied again and again.
Iterates(h, g, x) == h[0] = x /\ \A k \in Nat : h[k + 1] = g[h[k]]
IteratesTo(h, g, x, n) == h[0] = x /\ \A k \in 0..n - 1 : h[k + 1] = g[h[k]]

LEMMA IteratesSame ==
  ASSUME NEW n \in Nat, NEW m \in Nat, n <= m, NEW g, NEW x, NEW h, NEW e,
         IteratesTo(h, g, x, n), IteratesTo(e, g, x, m)
  PROVE  \A k \in 0..n : h[k] = e[k]
<1> DEFINE S == {k \in Nat : k <= n => h[k] = e[k]}
<1>1. 0 \in S
  BY DEF IteratesTo
<1>2. ASSUME NEW k \in S PROVE k + 1 \in S
  <2>1. CASE k + 1 <= n
    <3>1. k \in 0..n - 1 /\ k \in 0..m - 1 /\ k <= n
      BY <2>1
    <3>2. h[k + 1] = g[h[k]] /\ e[k + 1] = g[e[k]] /\ h[k] = e[k]
      BY <3>1 DEF IteratesTo
    <3> QED BY <3>2
  <2> QED BY <2>1
<1>3. S \in SUBSET Nat
  OBVIOUS
<1> HIDE DEF S
<1>4. S = Nat
  BY <1>1, <1>2, <1>3, Induction
<1> QED BY <1>4 DEF S

LEMMA IteratesToSome ==
  ASSUME NEW T, NEW g \in [T -> T], NEW x \in T, NEW n \in Nat
  PROVE  \E h \in [0..n -> T] : IteratesTo(h, g, x, n)
<1> DEFINE S == {k \in Nat : \E h \in [0..k -> T] : IteratesTo(h, g, x, k)}
<1>1. 0 \in S
  <2>1. [i \in 0..0 |-> x] \in [0..0 -> T] /\ IteratesTo([i \in 0..0 |-> x], g, x, 0)
    BY DEF IteratesTo
  <2> QED BY <2>1
<1>2. ASSUME NEW k \in S PROVE k + 1 \in S
  <2>1. PICK h \in [0..k -> T] : IteratesTo(h, g, x, k)
    OBVIOUS
  <2> DEFINE e == [i \in 0..k + 1 |-> IF i <= k THEN h[i] ELSE g[h[k]]]
  <2>2. e \in [0..k + 1 -> T]
    OBVIOUS
  <2>3. e[0] = x
    BY <2>1 DEF IteratesTo
  <2>4. ASSUME NEW i \in 0..(k + 1) - 1 PROVE e[i + 1] = g[e[i]]
    <3>1. CASE i = k
      BY <3>1
    <3>2. CASE i # k
      <4>1. i \in 0..k - 1
        BY <3>2
      <4> QED BY <2>1, <4>1 DEF IteratesTo
    <3> QED BY <3>1, <3>2
  <2> HIDE DEF e
  <2>5. IteratesTo(e, g, x, k + 1)
    BY <2>3, <2>4 DEF IteratesTo
  <2> QED BY <2>2, <2>5
<1>3. S \in SUBSET Nat
  OBVIOUS
<1> HIDE DEF S
<1>4. S = Nat
  BY <1>1, <1>2, <1>3, Induction
<1> QED BY <1>4 DEF S

LEMMA IteratesSome ==
  ASSUME NEW T, NEW g \in [T -> T], NEW x \in T
  PROVE  \E h \in [Nat -> T] : Iterates(h, g, x)
<1> DEFINE To(n) == CHOOSE h \in [0..n -> T] : IteratesTo(h, g, x, n)
           e == [n \in Nat |-> To(n)[n]]
<1>1. ASSUME NEW n \in Nat PROVE To(n) \in [0..n -> T] /\ IteratesTo(To(n), g, x, n)
  BY IteratesToSome
<1> HIDE DEF To
<1>2. e \in [Nat -> T]
  BY <1>1
<1>3. e[0] = x
  BY <1>1 DEF IteratesTo
<1>4. ASSUME NEW n \in Nat PROVE e[n + 1] = g[e[n]]
  <2>1. To(n)[n] = To(n + 1)[n]
    <3>1. n + 1 \in Nat /\ n <= n + 1 /\ n \in 0..n
      OBVIOUS
    <3> QED BY <1>1, <3>1, IteratesSame
  <2>2. n \in 0..(n + 1) - 1
    OBVIOUS
  <2>3. To(n + 1)[n + 1] = g[To(n + 1)[n]]
    BY <1>1, <2>2 DEF IteratesTo
  <2> QED BY <2>1, <2>3
<1> HIDE DEF e
<1>5. Iterates(e, g, x)
  BY <1>3, <1>4 DEF Iterates
<1> QED BY <1>2, <1>5

----------------------------------------------------------------------------
(* The volume *)

VolumeTyped ==
  /\ g_filesystem.p_ino \in Int /\ g_filesystem.n_fatent \in Int
  /\ \A c \in 2..g_filesystem.n_fatent - 1 : image.fat[c] \in Int
  /\ \A a \in DOMAIN image.cell : image.cell[a].first_cluster \in Int

LEMMA Sizes == SectorSize \in Nat /\ SectorSize > 0
BY FatAssumption

LEMMA MountType ==
  ASSUME NEW b,
         {b.num_fats, b.sectors_per_fat, b.max_root_dir_ent, b.num_sectors} \subseteq Nat
  PROVE  mount(b).p_ino \in Int /\ mount(b).n_fatent \in Int
<1> DEFINE root == Base + (1 + b.num_fats * b.sectors_per_fat) * SectorSize
           ino == root + b.max_root_dir_ent - 2 * SectorSize
<1>1. b.num_fats \in Nat /\ b.sectors_per_fat \in Nat /\ b.max_root_dir_ent \in Nat
      /\ b.num_sectors \in Nat
  OBVIOUS
<1>2. b.num_fats * b.sectors_per_fat \in Nat
  BY <1>1
<1>3. (1 + b.num_fats * b.sectors_per_fat) * SectorSize \in Nat
  BY <1>2, Sizes
<1>4. ino \in Int
  BY <1>1, <1>3, FatAssumption
<1>5. (ino - Base) \div SectorSize \in Int
  <2> HIDE DEF ino
  <2> QED BY <1>4, FatAssumption
<1> QED BY <1>1, <1>4, <1>5 DEF mount, NotMounted, NULL

LEMMA InitVolume == Init => VolumeTyped
<1> SUFFICES ASSUME Init PROVE VolumeTyped
  OBVIOUS
<1>1. image \in Images /\ g_filesystem = mount(image.boot)
  BY DEF Init
<1>2. g_filesystem.p_ino \in Int /\ g_filesystem.n_fatent \in Int
  BY <1>1, MountType, FilesAssumption
<1>3. \A c \in 2..g_filesystem.n_fatent - 1 : image.fat[c] \in Int
  BY <1>1, FilesAssumption
<1>4. \A a \in DOMAIN image.cell : image.cell[a].first_cluster \in Int
  BY <1>1, FilesAssumption
<1> QED BY <1>2, <1>3, <1>4 DEF VolumeTyped

Same == UNCHANGED <<image, g_filesystem>>

LEMMA StepSame == [Next]_vars => Same
BY DEF Next, Step, init_exec, exec, cli_exec, next_line, other_command, cli_bload, cli_catalog,
  catalog_goes_on, cli_install, install_goes_on, install_ends, Unchanged, vars, Same

LEMMA VolumeStays == VolumeTyped /\ Same => VolumeTyped'
BY DEF VolumeTyped, Same

LEMMA NextType ==
  ASSUME VolumeTyped, NEW c \in Int
  PROVE  next_cluster(c) \in Int /\ lookup_fat(c) \in Int /\ Valid(c) \in BOOLEAN
<1>1. Valid(c) => c \in 2..g_filesystem.n_fatent - 1
  BY DEF Valid, VolumeTyped
<1>2. next_cluster(c) \in Int
  BY <1>1 DEF next_cluster, VolumeTyped
<1>3. c * SectorSize \in Int
  BY Sizes
<1>4. lookup_fat(c) \in Int
  BY <1>3 DEF lookup_fat, VolumeTyped, NULL
<1>5. Valid(c) \in BOOLEAN
  BY DEF Valid
<1> QED BY <1>2, <1>4, <1>5

LEMMA FirstType == ASSUME VolumeTyped, NEW a PROVE Cell(a).first_cluster \in Int
BY DEF Cell, VolumeTyped

----------------------------------------------------------------------------
(* The rounds of read *)

FlashFiles(ent) ==
  [device : {"flash"}, minor : {ent}, loc : Int, buffer : Int,
   head : 0..SectorSize, tail : {SectorSize}]

Rest(s, count) == Least(s.f.tail - s.f.head, count - Len(s.cells))

Round(s, count) ==
  IF ~s.more \/ Len(s.cells) = count THEN s
  ELSE [cells |-> s.cells \o Cells(s.f, Rest(s, count)),
        more |-> Valid(next_cluster(s.f.loc)),
        f |-> IF Len(s.cells) + Rest(s, count) < count /\ Valid(next_cluster(s.f.loc))
              THEN NextBuffer([s.f EXCEPT !.head = @ + Rest(s, count)])
              ELSE [s.f EXCEPT !.head = @ + Rest(s, count)]]

States(ent, count) ==
  {s \in [f : FlashFiles(ent), cells : Seq(Int), more : BOOLEAN] : Len(s.cells) <= count}

LEMMA OpenedType ==
  ASSUME VolumeTyped, NEW ent PROVE Opened(ent) \in FlashFiles(ent)
BY FirstType, NextType, Sizes DEF Opened, FlashFiles

LEMMA CellsType ==
  ASSUME NEW ent, NEW f \in FlashFiles(ent), NEW n \in Nat
  PROVE  /\ Cells(f, n) \in Seq(Int) /\ Len(Cells(f, n)) = n
         /\ \A i \in 1..n : Cells(f, n)[i] = f.buffer + f.head + i - 1
<1>1. f.buffer \in Int /\ f.head \in Int
  BY Sizes DEF FlashFiles
<1>2. \A i \in 1..n : f.buffer + f.head + i - 1 \in Int
  BY <1>1
<1>3. Cells(f, n) = [i \in 1..n |-> f.buffer + f.head + i - 1]
  BY DEF Cells
<1>4. Cells(f, n) \in [1..n -> Int]
  BY <1>2, <1>3
<1>5. Cells(f, n) \in Seq(Int)
  BY <1>4, SeqDef
<1> QED BY <1>3, <1>4, <1>5, LenProperties

LEMMA RestType ==
  ASSUME NEW ent, NEW count \in Nat, NEW s \in States(ent, count)
  PROVE  /\ Rest(s, count) \in Nat /\ s.f.head + Rest(s, count) <= SectorSize
         /\ Len(s.cells) + Rest(s, count) <= count
         /\ s.f.head + Rest(s, count) = SectorSize \/ Len(s.cells) + Rest(s, count) = count
<1>1. Len(s.cells) \in Nat /\ Len(s.cells) <= count
  BY LenProperties DEF States
<1>2. s.f.head \in 0..SectorSize /\ s.f.tail = SectorSize
  BY DEF States, FlashFiles
<1> QED BY <1>1, <1>2, Sizes DEF Rest, Least

\* A round that goes on: what it does to the FILE and to the memory.
LEMMA RoundIs ==
  ASSUME VolumeTyped, NEW ent, NEW count \in Nat, NEW s \in States(ent, count),
         s.more, Len(s.cells) # count
  PROVE  LET n == Rest(s, count)
             r == Round(s, count)
             on == Len(s.cells) + n < count /\ Valid(next_cluster(s.f.loc))
         IN  /\ r \in States(ent, count)
             /\ r.cells = s.cells \o Cells(s.f, n) /\ Len(r.cells) = Len(s.cells) + n
             /\ r.more = Valid(next_cluster(s.f.loc))
             /\ on => /\ r.f.loc = next_cluster(s.f.loc) /\ r.f.buffer = lookup_fat(r.f.loc)
                      /\ r.f.head = 0
             /\ ~on => /\ r.f.loc = s.f.loc /\ r.f.buffer = s.f.buffer
                       /\ r.f.head = s.f.head + n
<1> DEFINE n == Rest(s, count)
           r == Round(s, count)
           copied == [s.f EXCEPT !.head = @ + n]
           on == Len(s.cells) + n < count /\ Valid(next_cluster(s.f.loc))
<1>1. /\ n \in Nat /\ s.f.head + n <= SectorSize /\ Len(s.cells) + n <= count
  BY RestType
<1>2. /\ s.f \in FlashFiles(ent) /\ s.cells \in Seq(Int) /\ Len(s.cells) \in Nat
      /\ s.f.loc \in Int /\ s.f.head \in Nat
  BY LenProperties, Sizes DEF States, FlashFiles
<1> HIDE DEF n
<1>3. /\ r.cells = s.cells \o Cells(s.f, n) /\ r.more = Valid(next_cluster(s.f.loc))
      /\ r.f = IF on THEN NextBuffer(copied) ELSE copied
      /\ r = [cells |-> r.cells, more |-> r.more, f |-> r.f]
  BY DEF Round, n
<1> HIDE DEF r
<1>4. copied \in FlashFiles(ent) /\ copied.loc = s.f.loc /\ copied.buffer = s.f.buffer
      /\ copied.head = s.f.head + n
  BY <1>1, <1>2, Sizes, SMTT(40) DEF FlashFiles
<1>5. next_cluster(s.f.loc) \in Int /\ lookup_fat(next_cluster(s.f.loc)) \in Int
      /\ Valid(next_cluster(s.f.loc)) \in BOOLEAN
  BY <1>2, NextType
<1> HIDE DEF copied
<1>6. /\ NextBuffer(copied) \in FlashFiles(ent)
      /\ NextBuffer(copied).loc = next_cluster(s.f.loc)
      /\ NextBuffer(copied).buffer = lookup_fat(next_cluster(s.f.loc))
      /\ NextBuffer(copied).head = 0
  <2>1. PICK c, b : c = next_cluster(s.f.loc) /\ b = lookup_fat(c) /\ c \in Int /\ b \in Int
    BY <1>5
  <2>2. NextBuffer(copied) =
          [copied EXCEPT !.loc = c, !.buffer = b, !.head = 0, !.tail = SectorSize]
    BY <1>4, <2>1, Zenon DEF NextBuffer
  <2>3. NextBuffer(copied) =
          [device |-> "flash", minor |-> ent, loc |-> c, buffer |-> b, head |-> 0, tail |-> SectorSize]
    BY <1>4, <2>1, <2>2 DEF FlashFiles
  <2> QED BY <2>1, <2>3, Sizes DEF FlashFiles
<1>7. /\ r.f \in FlashFiles(ent)
      /\ on => r.f.loc = next_cluster(s.f.loc) /\ r.f.buffer = lookup_fat(r.f.loc) /\ r.f.head = 0
      /\ ~on => r.f.loc = s.f.loc /\ r.f.buffer = s.f.buffer /\ r.f.head = s.f.head + n
  <2> HIDE DEF on
  <2>1. CASE on
    BY <1>3, <1>6, <2>1
  <2>2. CASE ~on
    BY <1>3, <1>4, <2>2
  <2> QED BY <2>1, <2>2
<1>8. Cells(s.f, n) \in Seq(Int) /\ Len(Cells(s.f, n)) = n
  BY <1>1, <1>2, CellsType
<1>9. r.cells \in Seq(Int) /\ Len(r.cells) = Len(s.cells) + n
  <2>1. s.cells \o Cells(s.f, n) \in Seq(Int)
        /\ Len(s.cells \o Cells(s.f, n)) = Len(s.cells) + Len(Cells(s.f, n))
    BY <1>2, <1>8, ConcatProperties, Zenon
  <2> QED BY <1>3, <1>8, <2>1, Zenon
<1>10. r \in States(ent, count)
  <2>1. r.more \in BOOLEAN
    BY <1>3, <1>5
  <2>2. r \in [f : FlashFiles(ent), cells : Seq(Int), more : BOOLEAN]
    BY <1>3, <1>7, <1>9, <2>1
  <2> QED BY <1>1, <1>9, <2>2 DEF States
<1>11. r.more = Valid(next_cluster(s.f.loc))
  BY <1>3
<1>12. r.cells = s.cells \o Cells(s.f, n)
  BY <1>3
<1> QED BY <1>7, <1>9, <1>10, <1>11, <1>12, Zenon DEF n, r, on

Begin(f) == [f |-> f, cells |-> <<>>, more |-> TRUE]

LEMMA RoundType ==
  ASSUME VolumeTyped, NEW ent, NEW count \in Nat, NEW s \in States(ent, count)
  PROVE  Round(s, count) \in States(ent, count)
<1>1. CASE ~s.more \/ Len(s.cells) = count
  BY <1>1 DEF Round
<1>2. CASE s.more /\ Len(s.cells) # count
  BY <1>2, RoundIs
<1> QED BY <1>1, <1>2

LEMMA BeginType ==
  ASSUME NEW ent, NEW count \in Nat, NEW f \in FlashFiles(ent)
  PROVE  Begin(f) \in States(ent, count)
<1>1. <<>> \in Seq(Int) /\ Len(<<>>) = 0
  OBVIOUS
<1> QED BY <1>1 DEF States, Begin

\* What read returns are the rounds, as many as it may need.
LEMMA ReadIs ==
  ASSUME VolumeTyped, NEW ent, NEW count \in Nat, NEW f \in FlashFiles(ent)
  PROVE  \E h \in [Nat -> States(ent, count)] :
           /\ h[0] = Begin(f)
           /\ \A k \in Nat : h[k + 1] = Round(h[k], count)
           /\ read(f, count) = h[Rounds(count)]
<1> DEFINE T == States(ent, count)
           g == [s \in T |-> Round(s, count)]
           R == Rounds(count)
           Is(l) == l = [k \in 0..R |-> IF k = 0 THEN Begin(f) ELSE Round(l[k - 1], count)]
           chosen == CHOOSE l : Is(l)
<1>1. g \in [T -> T] /\ Begin(f) \in T
  BY RoundType, BeginType
<1>2. \A s \in T : g[s] = Round(s, count)
  OBVIOUS
<1> HIDE DEF g
<1>3. PICK h \in [Nat -> T] : Iterates(h, g, Begin(f))
  <2> HIDE DEF T
  <2> QED BY <1>1, IteratesSome
<1>4. h[0] = Begin(f) /\ \A k \in Nat : h[k + 1] = Round(h[k], count)
  <2> HIDE DEF T
  <2> QED BY <1>2, <1>3 DEF Iterates
<1>5. R \in Nat
  <2>1. count \div SectorSize \in Nat
    BY Division, Sizes
  <2> QED BY <2>1 DEF Rounds
<1>6. read(f, count) = chosen[R]
  BY Zenon DEF read, Round, Rest, Begin
<1> HIDE DEF R
<1> DEFINE e == [k \in 0..R |-> h[k]]
<1>7. Is(e)
  <2>1. ASSUME NEW k \in 0..R, k # 0 PROVE h[k] = Round(e[k - 1], count)
    <3>1. k - 1 \in Nat /\ (k - 1) + 1 = k /\ k - 1 \in 0..R
      BY <1>5, <2>1
    <3>2. h[(k - 1) + 1] = Round(h[k - 1], count)
      BY <1>4, <3>1
    <3> QED BY <3>1, <3>2
  <2> QED BY <1>4, <2>1
<1> HIDE DEF e
<1>8. Is(chosen)
  <2> HIDE DEF Is
  <2> QED BY <1>7
<1> HIDE DEF chosen
<1>9. PICK l : l = chosen /\ Is(l)
  BY <1>8
<1> DEFINE S == {k \in Nat : k <= R => l[k] = h[k]}
<1>10. 0 \in S
  <2>1. 0 \in 0..R
    BY <1>5
  <2> QED BY <1>4, <1>9, <2>1
<1>11. ASSUME NEW k \in S PROVE k + 1 \in S
  <2>1. CASE k + 1 <= R
    <3>1. k \in Nat /\ k + 1 \in 0..R /\ k + 1 # 0 /\ (k + 1) - 1 = k /\ l[k] = h[k]
      BY <1>5, <2>1
    <3>2. l[k + 1] = Round(l[k], count)
      BY <1>9, <3>1
    <3> QED BY <1>4, <3>1, <3>2
  <2> QED BY <2>1
<1>12. S \in SUBSET Nat
  OBVIOUS
<1> HIDE DEF S
<1>13. S = Nat
  BY <1>10, <1>11, <1>12, Induction
<1>14. l[R] = h[R]
  BY <1>5, <1>13 DEF S
<1>15. read(f, count) = h[R]
  BY <1>6, <1>9, <1>14
<1> QED BY <1>4, <1>15, Zenon DEF R

----------------------------------------------------------------------------
(* The cells of a file *)

\* ch are the clusters of a file, one after the other.
IsChain(ch, first) ==
  /\ ch \in [Nat -> Int] /\ ch[0] = first
  /\ \A k \in Nat : ch[k + 1] = next_cluster(ch[k])

Upto(ch, j) == \A i \in 0..j : Valid(ch[i])

Address(ch, i) == lookup_fat(ch[(i - 1) \div SectorSize]) + ((i - 1) % SectorSize)

Part(ch, m, n) == [i \in 1..n |-> Address(ch, m + i)]

\* A FILE of which m cells have been read.
At(f, ch, m) ==
  \E j \in Nat : /\ Upto(ch, j) /\ m = j * SectorSize + f.head
                 /\ f.loc = ch[j] /\ f.buffer = lookup_fat(ch[j])

\* The file has m cells.
EndsAt(ch, m) ==
  \E j \in Nat : Upto(ch, j) /\ m = j * SectorSize + SectorSize /\ ~Valid(ch[j + 1])

LEMMA ChainSome ==
  ASSUME VolumeTyped, NEW first \in Int
  PROVE  \E ch : IsChain(ch, first)
<1> DEFINE g == [c \in Int |-> next_cluster(c)]
<1>1. g \in [Int -> Int] /\ \A c \in Int : g[c] = next_cluster(c)
  BY NextType
<1> HIDE DEF g
<1>2. PICK h \in [Nat -> Int] : Iterates(h, g, first)
  BY <1>1, IteratesSome
<1>3. \A k \in Nat : h[k + 1] = next_cluster(h[k])
  BY <1>1, <1>2 DEF Iterates
<1> QED BY <1>2, <1>3 DEF IsChain, Iterates

LEMMA AddressIs ==
  ASSUME NEW ch, NEW j \in Nat, NEW o \in 0..SectorSize - 1
  PROVE  Address(ch, j * SectorSize + o + 1) = lookup_fat(ch[j]) + o
<1> DEFINE i == j * SectorSize + o
           q == i \div SectorSize
           r == i % SectorSize
<1>1. j * SectorSize \in Nat
  BY Sizes
<1>2. i \in Nat /\ (i + 1) - 1 = i
  BY <1>1, Sizes
<1>3. q \in Nat /\ r \in 0..SectorSize - 1 /\ i = q * SectorSize + r
  BY <1>2, Division, Sizes
<1> HIDE DEF q, r
<1>4. q = j /\ r = o
  BY <1>3, DivisionUnique, Sizes
<1>5. Address(ch, i + 1) = lookup_fat(ch[q]) + r
  BY <1>2 DEF Address, q, r
<1> QED BY <1>4, <1>5

IsPart(cells, ch, m, n) ==
  cells \in Seq(Int) /\ Len(cells) = n /\ \A x \in 1..n : cells[x] = Address(ch, m + x)

Reads(s, ch, m) ==
  IsPart(s.cells, ch, m, Len(s.cells)) /\ At(s.f, ch, m + Len(s.cells))

Done(s, ch, m, count) ==
  Len(s.cells) = count \/ (~s.more /\ EndsAt(ch, m + Len(s.cells)))

GoesOn(s, count) == s.more /\ Len(s.cells) # count

\* s goes on with r, unless that is the last of the rounds.
Continues(s, r, count, ch, m) ==
  \/ Done(r, ch, m, count)
  \/ r.more /\ r.f.head = 0 /\ Len(r.cells) = Len(s.cells) + SectorSize - s.f.head


LEMMA PartJoin ==
  ASSUME NEW ch, NEW m \in Nat, NEW a \in Nat, NEW n \in Nat, NEW front, NEW back
  PROVE  IsPart(front, ch, m, a) /\ IsPart(back, ch, m + a, n)
           => IsPart(front \o back, ch, m, a + n)
<1> SUFFICES ASSUME front \in Seq(Int), Len(front) = a, back \in Seq(Int), Len(back) = n,
                    \A x \in 1..a : front[x] = Address(ch, m + x),
                    \A x \in 1..n : back[x] = Address(ch, m + a + x)
             PROVE  /\ front \o back \in Seq(Int) /\ Len(front \o back) = a + n
                    /\ \A x \in 1..a + n : (front \o back)[x] = Address(ch, m + x)
  BY Zenon DEF IsPart
<1> DEFINE both == front \o back
<1>1. both \in Seq(Int) /\ Len(both) = a + n
  BY ConcatProperties, Zenon
<1>2. ASSUME NEW i \in 1..a + n PROVE both[i] = Address(ch, m + i)
  <2>1. CASE i <= a
    <3>1. i \in 1..a /\ i \in 1..Len(front) /\ i <= Len(front)
      BY <2>1
    <3>2. both[i] = front[i]
      BY <1>1, <3>1, ConcatProperties
    <3> QED BY <3>1, <3>2
  <2>2. CASE i > a
    <3>1. i - a \in 1..n /\ m + a + (i - a) = m + i
      BY <2>2
    <3>2. both[i] = back[i - a]
      BY <1>1, <2>2, ConcatProperties
    <3>3. back[i - a] = Address(ch, m + a + (i - a))
      BY <3>1
    <3> QED BY <3>1, <3>2, <3>3
  <2> QED BY <2>1, <2>2
<1> QED BY <1>1, <1>2

LEMMA PartIs ==
  ASSUME NEW ch, NEW m, NEW n \in Nat, NEW cells, IsPart(cells, ch, m, n)
  PROVE  cells = Part(ch, m, n)
<1>1. cells \in Seq(Int) /\ Len(cells) = n /\ \A x \in 1..n : cells[x] = Address(ch, m + x)
  BY DEF IsPart
<1>2. cells = [x \in 1..n |-> cells[x]]
  BY <1>1, SeqDef, LenProperties
<1> QED BY <1>1, <1>2, Zenon DEF Part

LEMMA RoundReads ==
  ASSUME VolumeTyped, NEW ent, NEW count \in Nat, NEW s \in States(ent, count),
         GoesOn(s, count), NEW ch, NEW first, IsChain(ch, first),
         NEW m \in Nat, Reads(s, ch, m)
  PROVE  Reads(Round(s, count), ch, m) /\ Continues(s, Round(s, count), count, ch, m)
<1>0. PICK r, n, a : r = Round(s, count) /\ n = Rest(s, count) /\ a = Len(s.cells)
  OBVIOUS
<1> DEFINE on == a + n < count /\ Valid(next_cluster(s.f.loc))
<1>1. /\ n \in Nat /\ s.f.head + n <= SectorSize /\ a + n <= count
      /\ s.f.head + n = SectorSize \/ a + n = count
  BY <1>0, RestType
<1>2. /\ s.f \in FlashFiles(ent) /\ s.cells \in Seq(Int) /\ a \in Nat
      /\ s.f.head \in Nat /\ s.f.buffer \in Int /\ s.f.loc \in Int
  BY <1>0, LenProperties, Sizes DEF States, FlashFiles
<1>3. /\ r \in States(ent, count) /\ r.cells = s.cells \o Cells(s.f, n) /\ Len(r.cells) = a + n
      /\ r.more = Valid(next_cluster(s.f.loc))
      /\ on => r.f.loc = next_cluster(s.f.loc) /\ r.f.buffer = lookup_fat(r.f.loc) /\ r.f.head = 0
      /\ ~on => r.f.loc = s.f.loc /\ r.f.buffer = s.f.buffer /\ r.f.head = s.f.head + n
  BY <1>0, RoundIs, ZenonT(60) DEF GoesOn
<1>4. PICK j \in Nat : /\ Upto(ch, j) /\ m + a = j * SectorSize + s.f.head
                       /\ s.f.loc = ch[j] /\ s.f.buffer = lookup_fat(ch[j])
  BY <1>0 DEF Reads, At
<1>14. PICK hd \in Nat, buf \in Int : hd = s.f.head /\ buf = s.f.buffer
  BY <1>2
<1>12. /\ hd + n <= SectorSize
       /\ hd + n = SectorSize \/ a + n = count
       /\ m + a = j * SectorSize + hd
  BY <1>1, <1>4, <1>14
<1>5. ch[j + 1] = next_cluster(s.f.loc)
  BY <1>4 DEF IsChain
<1>6. j * SectorSize \in Nat /\ (j + 1) * SectorSize = j * SectorSize + SectorSize
  BY Sizes
<1> PICK J \in Nat : J = j * SectorSize
  BY <1>6
<1>13. /\ n \in Nat /\ a \in Nat /\ m + a = J + hd /\ hd + n <= SectorSize
       /\ (j + 1) * SectorSize = J + SectorSize
  BY <1>1, <1>2, <1>6, <1>12
<1>7. /\ Cells(s.f, n) \in Seq(Int) /\ Len(Cells(s.f, n)) = n
      /\ \A x \in 1..n : Cells(s.f, n)[x] = s.f.buffer + s.f.head + x - 1
  BY <1>1, <1>2, CellsType
<1>8. ASSUME NEW x \in 1..n PROVE Cells(s.f, n)[x] = Address(ch, m + a + x)
  <2>1. PICK o \in 0..SectorSize - 1 : o = hd + x - 1
    BY <1>1, <1>12, Sizes
  <2>2. Address(ch, j * SectorSize + o + 1) = lookup_fat(ch[j]) + o
    BY AddressIs
  <2>3. J + o + 1 = m + a + x
    BY <1>13, <2>1, Sizes
  <2>4. Cells(s.f, n)[x] = s.f.buffer + o
    <3>1. Cells(s.f, n)[x] = buf + hd + x - 1
      BY <1>7, <1>14
    <3> QED BY <1>13, <1>14, <2>1, <3>1
  <2> QED BY <1>4, <2>2, <2>3, <2>4
<1>9. IsPart(r.cells, ch, m, a + n)
  <2>1. IsPart(s.cells, ch, m, a)
    BY <1>0 DEF Reads
  <2>2. IsPart(Cells(s.f, n), ch, m + a, n)
    BY <1>7, <1>8 DEF IsPart
  <2>3. n \in Nat /\ a \in Nat
    BY <1>13
  <2>4. IsPart(s.cells \o Cells(s.f, n), ch, m, a + n)
    BY <2>1, <2>2, <2>3, PartJoin, Zenon
  <2> QED BY <1>3, <2>4, Zenon
<1>10. CASE on
  <2>1. Valid(ch[j + 1]) /\ r.f.loc = ch[j + 1] /\ r.f.buffer = lookup_fat(ch[j + 1]) /\ r.f.head = 0
    BY <1>3, <1>5, <1>10
  <2>2. Upto(ch, j + 1)
    BY <1>4, <2>1 DEF Upto
  <2>3. s.f.head + n = SectorSize
    BY <1>1, <1>2, <1>10
  <2>4. m + (a + n) = (j + 1) * SectorSize + r.f.head
    <3>1. hd + n = SectorSize
      BY <1>14, <2>3
    <3>2. m + (a + n) = J + (hd + n)
      BY <1>13
    <3>3. m + (a + n) = J + SectorSize /\ J + SectorSize \in Nat
      BY <3>1, <3>2, Sizes
    <3> QED BY <1>13, <2>1, <3>3
  <2>5. j + 1 \in Nat
    OBVIOUS
  <2>6. At(r.f, ch, m + (a + n))
    BY <2>1, <2>2, <2>4, <2>5 DEF At
  <2>7. r.more
    BY <1>3, <1>10
  <2>8. Len(r.cells) = a + SectorSize - s.f.head
    BY <1>1, <1>2, <1>3, <2>3, Sizes
  <2>9. Reads(r, ch, m)
    BY <1>3, <1>9, <2>6 DEF Reads
  <2> QED BY <1>0, <2>1, <2>7, <2>8, <2>9, Zenon DEF Continues
<1>11. CASE ~on
  <2>1. r.f.loc = ch[j] /\ r.f.buffer = lookup_fat(ch[j]) /\ r.f.head = s.f.head + n
    BY <1>3, <1>4, <1>11
  <2>2. m + (a + n) = j * SectorSize + r.f.head
    <3>1. r.f.head = hd + n
      BY <1>14, <2>1
    <3>2. m + (a + n) = J + (hd + n)
      BY <1>13
    <3> QED BY <3>1, <3>2
  <2>3. At(r.f, ch, m + (a + n))
    BY <1>4, <2>1, <2>2 DEF At
  <2>4. Reads(r, ch, m)
    BY <1>3, <1>9, <2>3 DEF Reads
  <2>5. CASE a + n = count
    BY <1>0, <1>3, <2>4, <2>5, Zenon DEF Done, Continues
  <2>6. CASE a + n # count
    <3>1. ~Valid(next_cluster(s.f.loc))
      <4>1. a + n < count
        BY <1>1, <1>13, <2>6
      <4> QED BY <1>11, <4>1, Zenon
    <3>2. ~Valid(ch[j + 1]) /\ ~r.more
      BY <1>3, <1>5, <3>1
    <3>3. m + (a + n) = j * SectorSize + SectorSize
      BY <1>12, <1>13, <2>6, Sizes
    <3>4. EndsAt(ch, m + Len(r.cells))
      BY <1>3, <1>4, <3>2, <3>3 DEF EndsAt
    <3> QED BY <1>0, <2>4, <3>2, <3>4, Zenon DEF Done, Continues
  <2> QED BY <2>5, <2>6
<1> QED BY <1>10, <1>11

\* read hands out the next cells of the file, all that were asked for or all
\* that there are.
LEMMA ReadRight ==
  ASSUME VolumeTyped, NEW ent, NEW count \in Nat, NEW f \in FlashFiles(ent),
         NEW ch, NEW first, IsChain(ch, first), NEW m \in Nat, At(f, ch, m)
  PROVE  LET r == read(f, count)
         IN  /\ r \in States(ent, count)
             /\ Reads(r, ch, m)
             /\ Len(r.cells) = count \/ EndsAt(ch, m + Len(r.cells))
<1> DEFINE T == States(ent, count)
           R == Rounds(count)
           Goes(k, s) == s.more /\ s.f.head = 0 /\ Len(s.cells) >= k * SectorSize
<1>1. PICK h \in [Nat -> T] : /\ h[0] = Begin(f)
                              /\ \A k \in Nat : h[k + 1] = Round(h[k], count)
                              /\ read(f, count) = h[R]
  BY ReadIs, ZenonT(60)
<1>2. \A k \in Nat : h[k] \in T
  OBVIOUS
<1>3. Reads(h[0], ch, m)
  <2>1. h[0].f = f /\ h[0].cells = <<>> /\ Len(h[0].cells) = 0
    BY <1>1 DEF Begin
  <2>2. <<>> \in Seq(Int) /\ 1..0 = {} /\ m + 0 = m
    OBVIOUS
  <2>3. IsPart(h[0].cells, ch, m, 0)
    BY <2>1, <2>2 DEF IsPart
  <2>4. At(h[0].f, ch, m + 0)
    BY <2>1, <2>2
  <2> QED BY <2>1, <2>3, <2>4 DEF Reads
<1>4. ASSUME NEW k \in Nat, Reads(h[k], ch, m), Done(h[k], ch, m, count)
      PROVE  Reads(h[k + 1], ch, m) /\ Done(h[k + 1], ch, m, count)
  <2>1. Round(h[k], count) = h[k]
    BY <1>4, Zenon DEF Round, Done
  <2> QED BY <1>1, <1>4, <2>1
<1>5. ASSUME NEW k \in Nat, Reads(h[k], ch, m), h[k].more, Len(h[k].cells) # count
      PROVE  /\ Reads(h[k + 1], ch, m)
             /\ \/ Done(h[k + 1], ch, m, count)
                \/ /\ h[k + 1].more /\ h[k + 1].f.head = 0
                   /\ Len(h[k + 1].cells) = Len(h[k].cells) + SectorSize - h[k].f.head
  <2>1. h[k] \in States(ent, count) /\ h[k + 1] = Round(h[k], count)
    BY <1>1, <1>2
  <2>3. PICK s \in States(ent, count) : s = h[k]
    BY <2>1
  <2>4. Reads(s, ch, m) /\ GoesOn(s, count)
    BY <1>5, <2>3, Zenon DEF GoesOn
  <2>2. Reads(Round(s, count), ch, m) /\ Continues(s, Round(s, count), count, ch, m)
    BY <2>3, <2>4, RoundReads, Zenon
  <2> QED BY <2>1, <2>2, <2>3, Zenon DEF Continues
<1>6. \A k \in Nat : Len(h[k].cells) \in Nat /\ Len(h[k].cells) <= count
                     /\ h[k].f.head \in 0..SectorSize
  BY <1>2, LenProperties DEF States, FlashFiles
<1> HIDE DEF T
<1> DEFINE S == {k \in Nat : /\ Reads(h[k + 1], ch, m)
                             /\ Done(h[k + 1], ch, m, count) \/ Goes(k, h[k + 1])}
<1>7. 0 \in S
  <2>1. h[0].more
    BY <1>1 DEF Begin
  <2>2. CASE Len(h[0].cells) = count
    <3>1. Done(h[0], ch, m, count)
      BY <2>2 DEF Done
    <3> QED BY <1>3, <1>4, <3>1
  <2>3. CASE Len(h[0].cells) # count
    <3>1. Reads(h[0 + 1], ch, m)
      BY <1>3, <1>5, <2>1, <2>3
    <3>2. \/ Done(h[0 + 1], ch, m, count)
          \/ h[0 + 1].more /\ h[0 + 1].f.head = 0
      BY <1>3, <1>5, <2>1, <2>3
    <3>3. Len(h[0 + 1].cells) >= 0 * SectorSize
      BY <1>6, Sizes
    <3> QED BY <3>1, <3>2, <3>3
  <2> QED BY <2>2, <2>3
<1>8. ASSUME NEW k \in S PROVE k + 1 \in S
  <2>1. k \in Nat /\ k + 1 \in Nat /\ Reads(h[k + 1], ch, m)
    OBVIOUS
  <2>2. CASE Done(h[k + 1], ch, m, count)
    BY <1>4, <2>1, <2>2
  <2>3. CASE ~Done(h[k + 1], ch, m, count)
    <3>1. Goes(k, h[k + 1])
      BY <2>3
    <3>2. Len(h[k + 1].cells) # count
      BY <2>3 DEF Done
    <3>3. /\ Reads(h[(k + 1) + 1], ch, m)
          /\ \/ Done(h[(k + 1) + 1], ch, m, count)
             \/ /\ h[(k + 1) + 1].more /\ h[(k + 1) + 1].f.head = 0
                /\ Len(h[(k + 1) + 1].cells) = Len(h[k + 1].cells) + SectorSize - h[k + 1].f.head
      BY <1>5, <2>1, <3>1, <3>2
    <3>4. Len(h[k + 1].cells) + SectorSize - h[k + 1].f.head >= (k + 1) * SectorSize
      <4>1. k * SectorSize \in Nat /\ (k + 1) * SectorSize = k * SectorSize + SectorSize
        BY <2>1, Sizes
      <4>2. Len(h[k + 1].cells) \in Nat /\ Len(h[k + 1].cells) >= k * SectorSize
            /\ h[k + 1].f.head = 0
        BY <1>6, <2>1, <3>1
      <4> QED BY <4>1, <4>2, Sizes
    <3> QED BY <2>1, <3>3, <3>4
  <2> QED BY <2>2, <2>3
<1>9. S \in SUBSET Nat
  OBVIOUS
<1> HIDE DEF S
<1>10. S = Nat
  BY <1>7, <1>8, <1>9, Induction
<1>11. PICK k \in Nat : k = (count \div SectorSize) + 1 /\ R = k + 1 /\ k * SectorSize > count
  <2>1. PICK q \in Nat, o \in 0..SectorSize - 1 :
          q = count \div SectorSize /\ count = q * SectorSize + o
    BY Division, Sizes
  <2>2. q + 1 \in Nat /\ (q + 1) * SectorSize = q * SectorSize + SectorSize /\ q * SectorSize \in Nat
    BY Sizes
  <2> QED BY <2>1, <2>2, Sizes DEF Rounds
<1>12. Reads(h[R], ch, m) /\ (Done(h[R], ch, m, count) \/ Goes(k, h[R]))
  BY <1>10, <1>11 DEF S
<1>13. ~Goes(k, h[R])
  <2>1. R \in Nat /\ k * SectorSize \in Nat
    BY <1>11, Sizes
  <2>2. Len(h[R].cells) \in Nat /\ Len(h[R].cells) <= count
    BY <1>6, <2>1
  <2> QED BY <1>11, <2>1, <2>2
<1>14. Len(h[R].cells) = count \/ EndsAt(ch, m + Len(h[R].cells))
  BY <1>12, <1>13 DEF Done
<1>15. h[R] \in T
  <2>1. R \in Nat
    BY <1>11
  <2> QED BY <1>2, <2>1
<1> QED BY <1>1, <1>12, <1>14, <1>15, Zenon DEF T

LEMMA UptoSize == \A j \in Nat : IsFiniteSet(0..j) /\ Cardinality(0..j) = j + 1
<1> SUFFICES ASSUME NEW j \in Nat PROVE IsFiniteSet(0..j) /\ Cardinality(0..j) = j + 1
  OBVIOUS
<1>1. /\ IsFiniteSet(0..j)
      /\ Cardinality(0..j) = IF 0 > j THEN 0 ELSE j - 0 + 1
  BY FS_Interval
<1> QED BY <1>1

\* What the cells of a file are, from its chain: the first m, if they are as many
\* as were asked for or the last one is among them.
LEMMA ContentIs ==
  ASSUME VolumeTyped, NEW ent, NEW ch, IsChain(ch, Cell(ent).first_cluster),
         NEW n \in Nat, NEW m \in Nat, m <= n, NEW f, f.head \in 0..SectorSize, At(f, ch, m),
         m = n \/ EndsAt(ch, m)
  PROVE  Content(ent, n) = Part(ch, 0, m)
<1> DEFINE Is(c) == c = [k \in 0..n |-> IF k = 0 THEN Cell(ent).first_cluster
                                        ELSE next_cluster(c[k - 1])]
           chain == CHOOSE c : Is(c)
           clusters == {k \in 0..n : \A i \in 0..k : Valid(chain[i])}
           size == Cardinality(clusters)
<1>1. Content(ent, n) = [i \in 1..Least(n, size * SectorSize)
                          |-> lookup_fat(chain[(i - 1) \div SectorSize]) + ((i - 1) % SectorSize)]
  BY Zenon DEF Content
<1> DEFINE e == [k \in 0..n |-> ch[k]]
<1>2. Is(e)
  <2>1. ASSUME NEW k \in 0..n, k # 0 PROVE ch[k] = next_cluster(e[k - 1])
    <3>1. k - 1 \in Nat /\ (k - 1) + 1 = k /\ k - 1 \in 0..n
      BY <2>1
    <3>2. ch[(k - 1) + 1] = next_cluster(ch[k - 1])
      BY <3>1 DEF IsChain
    <3> QED BY <3>1, <3>2
  <2> QED BY <2>1 DEF IsChain
<1> HIDE DEF e
<1>3. Is(chain)
  <2> HIDE DEF Is
  <2> QED BY <1>2
<1> HIDE DEF chain
<1>4. PICK c : c = chain /\ Is(c)
  BY <1>3
<1> DEFINE S == {k \in Nat : k <= n => c[k] = ch[k]}
<1>5. 0 \in S
  <2>1. 0 \in 0..n
    OBVIOUS
  <2> QED BY <1>4, <2>1 DEF IsChain
<1>6. ASSUME NEW k \in S PROVE k + 1 \in S
  <2>1. CASE k + 1 <= n
    <3>1. k \in Nat /\ k + 1 \in 0..n /\ k + 1 # 0 /\ (k + 1) - 1 = k /\ c[k] = ch[k]
      BY <2>1
    <3>2. c[k + 1] = next_cluster(c[k])
      BY <1>4, <3>1
    <3> QED BY <3>1, <3>2 DEF IsChain
  <2> QED BY <2>1
<1>7. S \in SUBSET Nat
  OBVIOUS
<1> HIDE DEF S
<1>8. S = Nat
  BY <1>5, <1>6, <1>7, Induction
<1>9. \A k \in 0..n : chain[k] = ch[k]
  <2>1. ASSUME NEW k \in 0..n PROVE chain[k] = ch[k]
    <3>1. k \in S /\ k <= n
      BY <1>8
    <3> QED BY <1>4, <3>1 DEF S
  <2> QED BY <2>1
<1>10. clusters = {k \in 0..n : Upto(ch, k)}
  BY <1>9 DEF Upto
<1> HIDE DEF clusters
<1>11. clusters \subseteq 0..n /\ IsFiniteSet(clusters) /\ size \in Nat
  <2>1. IsFiniteSet(0..n)
    BY FS_Interval
  <2> QED BY <1>10, <2>1, FS_Subset, FS_CardinalityType
<1>12. \A j \in Nat : IsFiniteSet(0..j) /\ Cardinality(0..j) = j + 1
  BY UptoSize
<1> HIDE DEF size
<1>13. Least(n, size * SectorSize) = m
  <2>1. CASE EndsAt(ch, m)
    <3>1. PICK j \in Nat : Upto(ch, j) /\ m = j * SectorSize + SectorSize /\ ~Valid(ch[j + 1])
      BY <2>1 DEF EndsAt
    <3>2. j <= n
      <4>1. j <= j * SectorSize
        BY Sizes
      <4> QED BY <3>1, <4>1, Sizes
    <3>3. clusters = 0..j
      <4>1. ASSUME NEW k \in clusters PROVE k \in 0..j
        <5>1. k \in 0..n /\ Upto(ch, k)
          BY <1>10
        <5>2. ~(k >= j + 1)
          BY <3>1, <5>1 DEF Upto
        <5> QED BY <5>1, <5>2
      <4>2. ASSUME NEW k \in 0..j PROVE k \in clusters
        <5>1. k \in 0..n /\ Upto(ch, k)
          BY <3>1, <3>2 DEF Upto
        <5> QED BY <1>10, <5>1
      <4> QED BY <4>1, <4>2
    <3>4. size = j + 1
      BY <1>12, <3>3 DEF size
    <3>5. size * SectorSize = j * SectorSize + SectorSize
      BY <3>4, Sizes
    <3> QED BY <3>1, <3>5 DEF Least
  <2>2. CASE m = n
    <3>1. PICK j \in Nat : Upto(ch, j) /\ m = j * SectorSize + f.head
      BY DEF At
    <3>2. PICK hd \in 0..SectorSize : hd = f.head
      OBVIOUS
    <3>3. j <= n /\ n <= j * SectorSize + SectorSize
      <4>1. j <= j * SectorSize
        BY Sizes
      <4>2. n = j * SectorSize + hd
        BY <2>2, <3>1, <3>2
      <4> QED BY <4>1, <4>2, Sizes
    <3>4. 0..j \subseteq clusters
      <4>1. ASSUME NEW k \in 0..j PROVE k \in clusters
        <5>1. k \in 0..n /\ Upto(ch, k)
          BY <3>1, <3>3 DEF Upto
        <5> QED BY <1>10, <5>1
      <4> QED BY <4>1
    <3>5. j + 1 <= size
      <4>1. Cardinality(0..j) = j + 1
        BY <1>12
      <4>2. Cardinality(0..j) <= size
        BY <1>11, <3>4, FS_Subset DEF size
      <4> QED BY <4>1, <4>2
    <3>6. PICK k \in Nat : size = j + 1 + k
      BY <1>11, <3>5
    <3>7. size * SectorSize = j * SectorSize + SectorSize + k * SectorSize /\ k * SectorSize >= 0
      BY <3>6, Sizes
    <3>8. size * SectorSize >= n /\ size * SectorSize \in Int
      BY <3>3, <3>7, Sizes
    <3> QED BY <2>2, <3>8 DEF Least
  <2> QED BY <2>1, <2>2
<1>14. ASSUME NEW i \in 1..m
       PROVE  lookup_fat(chain[(i - 1) \div SectorSize]) + ((i - 1) % SectorSize) = Address(ch, 0 + i)
  <2> DEFINE q == (i - 1) \div SectorSize
  <2>1. i - 1 \in Nat /\ 0 + i = i
    OBVIOUS
  <2>2. q \in Nat /\ i - 1 = q * SectorSize + ((i - 1) % SectorSize) /\ (i - 1) % SectorSize \in 0..SectorSize - 1
    BY <2>1, Division, Sizes
  <2> HIDE DEF q
  <2>3. q <= n
    <3>1. q <= q * SectorSize
      BY <2>2, Sizes
    <3> QED BY <2>2, <3>1, Sizes
  <2>4. chain[q] = ch[q]
    BY <1>9, <2>2, <2>3
  <2> QED BY <2>1, <2>4 DEF Address, q
<1> QED BY <1>1, <1>13, <1>14, Zenon DEF Part

LEMMA OpenedAt ==
  ASSUME VolumeTyped, NEW ent, NEW ch, IsChain(ch, Cell(ent).first_cluster),
         Valid(Cell(ent).first_cluster)
  PROVE  At(Opened(ent), ch, 0)
<1>1. ch[0] = Cell(ent).first_cluster
  BY DEF IsChain
<1>2. Upto(ch, 0)
  <2>1. 0..0 = {0}
    OBVIOUS
  <2> QED BY <1>1, <2>1 DEF Upto
<1>3. Opened(ent).loc = ch[0] /\ Opened(ent).buffer = lookup_fat(ch[0]) /\ Opened(ent).head = 0
  BY <1>1 DEF Opened
<1>4. 0 = 0 * SectorSize + 0
  BY Sizes
<1> QED BY <1>2, <1>3, <1>4 DEF At

\* A FILE that is read as far as the file goes is read no further.
LEMMA NoneBehind ==
  ASSUME NEW ch, NEW m \in Int, EndsAt(ch, m), NEW f, f.head \in 0..SectorSize,
         NEW n \in Int, At(f, ch, n)
  PROVE  n <= m
<1>1. PICK j \in Nat : Upto(ch, j) /\ m = j * SectorSize + SectorSize /\ ~Valid(ch[j + 1])
  BY DEF EndsAt
<1>2. PICK i \in Nat, hd \in 0..SectorSize : Upto(ch, i) /\ n = i * SectorSize + hd
  BY DEF At
<1>3. i <= j
  <2>1. ~(i >= j + 1)
    BY <1>1, <1>2 DEF Upto
  <2> QED BY <2>1
<1>4. PICK k \in Nat : j = i + k
  BY <1>3
<1>5. j * SectorSize = i * SectorSize + k * SectorSize /\ k * SectorSize >= 0
      /\ i * SectorSize \in Nat /\ k * SectorSize \in Nat
  BY <1>4, Sizes
<1> QED BY <1>1, <1>2, <1>5, Sizes

LEMMA HeadType ==
  ASSUME NEW ent, NEW f \in FlashFiles(ent) PROVE f.head \in 0..SectorSize
BY DEF FlashFiles

----------------------------------------------------------------------------
(* What was read from a FILE: n cells, or the whole file *)

HasRead(f, cells, n) ==
  /\ f \in FlashFiles(f.minor) /\ n \in Nat
  /\ \A ch : IsChain(ch, Cell(f.minor).first_cluster) /\ Valid(Cell(f.minor).first_cluster)
       => \E m \in 0..n : /\ At(f, ch, m) /\ IsPart(cells, ch, 0, m)
                          /\ m = n \/ EndsAt(ch, m)

LEMMA ReadBegins ==
  ASSUME VolumeTyped, NEW ent PROVE HasRead(Opened(ent), <<>>, 0)
<1>1. Opened(ent) \in FlashFiles(ent) /\ Opened(ent).minor = ent
  BY OpenedType DEF FlashFiles
<1>2. ASSUME NEW ch, IsChain(ch, Cell(ent).first_cluster), Valid(Cell(ent).first_cluster)
      PROVE  \E m \in 0..0 : /\ At(Opened(ent), ch, m) /\ IsPart(<<>>, ch, 0, m)
                             /\ m = 0 \/ EndsAt(ch, m)
  <2>1. At(Opened(ent), ch, 0)
    BY <1>2, OpenedAt
  <2>2. <<>> \in Seq(Int) /\ Len(<<>>) = 0 /\ 1..0 = {}
    OBVIOUS
  <2>3. IsPart(<<>>, ch, 0, 0)
    BY <2>2 DEF IsPart
  <2> QED BY <2>1, <2>3
<1> QED BY <1>1, <1>2 DEF HasRead

LEMMA LoadRight ==
  ASSUME VolumeTyped, NEW ent, NEW count \in Nat, NEW r, r = read(Opened(ent), count)
  PROVE  r.f.minor = ent /\ HasRead(r.f, r.cells, count)
<1>1. PICK f : f = Opened(ent)
  OBVIOUS
<1>2. f \in FlashFiles(ent)
  BY <1>1, OpenedType
<1>3. r.f \in FlashFiles(ent) /\ r.f.minor = ent
  <2>1. \E h \in [Nat -> States(ent, count)] :
           /\ h[0] = Begin(f)
           /\ \A k \in Nat : h[k + 1] = Round(h[k], count)
           /\ read(f, count) = h[Rounds(count)]
    BY <1>2, ReadIs, ZenonT(60)
  <2>2. count \div SectorSize \in Nat
    BY Sizes, Division
  <2>3. Rounds(count) \in Nat
    BY <2>2 DEF Rounds
  <2>4. r \in States(ent, count)
    BY <1>1, <2>1, <2>3
  <2>5. r.f \in FlashFiles(ent)
    BY <2>4 DEF States
  <2> QED BY <2>5 DEF FlashFiles
<1>4. ASSUME NEW ch, IsChain(ch, Cell(ent).first_cluster), Valid(Cell(ent).first_cluster)
      PROVE  \E m \in 0..count : /\ At(r.f, ch, m) /\ IsPart(r.cells, ch, 0, m)
                                 /\ m = count \/ EndsAt(ch, m)
  <2>1. PICK m : m = Len(r.cells)
    OBVIOUS
  <2>2. At(f, ch, 0) /\ 0 \in Nat
    BY <1>1, <1>4, OpenedAt
  <2>3. LET e == read(f, count)
        IN  /\ e \in States(ent, count) /\ Reads(e, ch, 0)
            /\ Len(e.cells) = count \/ EndsAt(ch, 0 + Len(e.cells))
    BY <1>2, <1>4, <2>2, ReadRight, ZenonT(60)
  <2>4. /\ r \in States(ent, count) /\ Reads(r, ch, 0)
        /\ m = count \/ EndsAt(ch, 0 + m)
    BY <1>1, <2>1, <2>3, Zenon
  <2>5. m \in Nat /\ m <= count /\ 0 + m = m
    BY <2>1, <2>4, LenProperties DEF States
  <2>6. At(r.f, ch, m) /\ IsPart(r.cells, ch, 0, m)
    BY <2>1, <2>4, <2>5 DEF Reads
  <2>7. m \in 0..count /\ (m = count \/ EndsAt(ch, m))
    BY <2>4, <2>5
  <2> QED BY <2>6, <2>7
<1> QED BY <1>3, <1>4, Zenon DEF HasRead

LEMMA SectorRight ==
  ASSUME VolumeTyped, NEW f, NEW cells, NEW n, HasRead(f, cells, n), NEW r,
         r = read(f, SectorSize)
  PROVE  HasRead(r.f, cells \o r.cells, n + SectorSize) /\ r.f.minor = f.minor
<1> PICK ent : ent = f.minor
  OBVIOUS
<1>1. f \in FlashFiles(ent) /\ n \in Nat
  BY DEF HasRead
<1>2. SectorSize \in Nat
  BY Sizes
<1>3. r.f \in FlashFiles(ent) /\ r.f.minor = ent
  <2>1. \E h \in [Nat -> States(ent, SectorSize)] :
           /\ h[0] = Begin(f)
           /\ \A k \in Nat : h[k + 1] = Round(h[k], SectorSize)
           /\ read(f, SectorSize) = h[Rounds(SectorSize)]
    BY <1>1, <1>2, ReadIs, ZenonT(60)
  <2>2. SectorSize \div SectorSize \in Nat
    BY Sizes, Division
  <2>3. Rounds(SectorSize) \in Nat
    BY <2>2 DEF Rounds
  <2>4. r \in States(ent, SectorSize)
    BY <2>1, <2>3
  <2>5. r.f \in FlashFiles(ent)
    BY <2>4 DEF States
  <2> QED BY <2>5 DEF FlashFiles
<1>4. ASSUME NEW ch, IsChain(ch, Cell(ent).first_cluster), Valid(Cell(ent).first_cluster)
      PROVE  \E m \in 0..n + SectorSize :
               /\ At(r.f, ch, m) /\ IsPart(cells \o r.cells, ch, 0, m)
               /\ m = n + SectorSize \/ EndsAt(ch, m)
  <2>1. PICK m \in 0..n : /\ At(f, ch, m) /\ IsPart(cells, ch, 0, m)
                          /\ m = n \/ EndsAt(ch, m)
    BY <1>4 DEF HasRead
  <2>2. m \in Nat /\ m <= n
    BY <1>1
  <2>3. LET e == read(f, SectorSize)
        IN  /\ e \in States(ent, SectorSize) /\ Reads(e, ch, m)
            /\ Len(e.cells) = SectorSize \/ EndsAt(ch, m + Len(e.cells))
    BY <1>1, <1>2, <1>4, <2>1, <2>2, ReadRight, ZenonT(60)
  <2>4. PICK a : a = Len(r.cells)
    OBVIOUS
  <2>5. /\ r \in States(ent, SectorSize) /\ Reads(r, ch, m)
        /\ a = SectorSize \/ EndsAt(ch, m + a)
    BY <2>3, <2>4, Zenon
  <2>6. a \in Nat /\ a <= SectorSize
    BY <2>4, <2>5, LenProperties DEF States
  <2>7. At(r.f, ch, m + a) /\ IsPart(r.cells, ch, m, a)
    BY <2>4, <2>5 DEF Reads
  <2>8. IsPart(cells \o r.cells, ch, 0, m + a)
    <3>1. IsPart(r.cells, ch, 0 + m, a) /\ 0 \in Nat
      BY <2>2, <2>7
    <3>2. IsPart(cells \o r.cells, ch, 0, m + a)
      BY <2>1, <2>2, <2>6, <3>1, PartJoin, Zenon
    <3> QED BY <3>2
  <2>9. m + a \in 0..n + SectorSize
    BY <1>1, <1>2, <2>2, <2>6
  <2>10. m + a = n + SectorSize \/ EndsAt(ch, m + a)
    <3>1. CASE EndsAt(ch, m)
      <4>1. r.f.head \in 0..SectorSize
        BY <1>3, HeadType
      <4>2. m \in Int /\ m + a \in Int
        BY <2>2, <2>6
      <4>3. m + a <= m
        BY <2>7, <3>1, <4>1, <4>2, NoneBehind
      <4>4. m + a = m
        BY <2>2, <2>6, <4>3
      <4> QED BY <3>1, <4>4
    <3>2. CASE m = n /\ a = SectorSize
      BY <3>2
    <3> QED BY <2>1, <2>5, <3>1, <3>2, Zenon
  <2> QED BY <2>7, <2>8, <2>9, <2>10, Zenon
<1>5. n + SectorSize \in Nat
  BY <1>1, <1>2
<1> QED BY <1>3, <1>4, <1>5 DEF HasRead

LEMMA HasReadIs ==
  ASSUME VolumeTyped, NEW f, NEW cells, NEW n, HasRead(f, cells, n),
         Valid(Cell(f.minor).first_cluster)
  PROVE  cells = Content(f.minor, n)
<1> PICK ent : ent = f.minor
  OBVIOUS
<1>1. f \in FlashFiles(ent) /\ n \in Nat
  BY DEF HasRead
<1>2. PICK ch : IsChain(ch, Cell(ent).first_cluster)
  BY FirstType, ChainSome
<1>3. PICK m \in 0..n : /\ At(f, ch, m) /\ IsPart(cells, ch, 0, m)
                        /\ m = n \/ EndsAt(ch, m)
  BY <1>2 DEF HasRead
<1>4. m \in Nat /\ m <= n
  BY <1>1
<1>5. f.head \in 0..SectorSize
  BY <1>1, HeadType
<1>6. cells = Part(ch, 0, m)
  BY <1>3, <1>4, PartIs
<1>7. Content(ent, n) = Part(ch, 0, m)
  BY <1>1, <1>2, <1>3, <1>4, <1>5, ContentIs, Zenon
<1> QED BY <1>6, <1>7

\* The volume stays, and with it what was read.
LEMMA LooksSame ==
  ASSUME Same
  PROVE  \A c : /\ Valid(c)' <=> Valid(c)
               /\ next_cluster(c)' = next_cluster(c) /\ lookup_fat(c)' = lookup_fat(c)
               /\ Cell(c)' = Cell(c)
<1> USE DEF Same
<1>1. \A c : Valid(c)' <=> Valid(c)
  BY DEF Valid
<1>2. \A c : next_cluster(c)' = next_cluster(c)
  BY <1>1 DEF next_cluster
<1>3. \A c : lookup_fat(c)' = lookup_fat(c)
  BY <1>1 DEF lookup_fat
<1>4. \A c : Cell(c)' = Cell(c)
  BY DEF Cell
<1> QED BY <1>1, <1>2, <1>3, <1>4

LEMMA HasReadSame ==
  ASSUME Same, NEW f, NEW cells, NEW n, HasRead(f, cells, n)
  PROVE  HasRead(f, cells, n)'
<1>1. \A ch, first : IsChain(ch, first)' <=> IsChain(ch, first)
  BY LooksSame DEF IsChain
<1>2. \A ch, j : Upto(ch, j)' <=> Upto(ch, j)
  BY LooksSame DEF Upto
<1>3. \A e, ch, m : At(e, ch, m)' <=> At(e, ch, m)
  BY <1>2, LooksSame DEF At
<1>4. \A ch, m : EndsAt(ch, m)' <=> EndsAt(ch, m)
  BY <1>2, LooksSame DEF EndsAt
<1>5. \A ch, i : Address(ch, i)' = Address(ch, i)
  BY LooksSame DEF Address
<1>6. \A c, ch, m, i : IsPart(c, ch, m, i)' <=> IsPart(c, ch, m, i)
  BY <1>5 DEF IsPart
<1>7. PICK first : first = Cell(f.minor).first_cluster
  OBVIOUS
<1>8. Cell(f.minor)' = Cell(f.minor)
  BY LooksSame
<1>9. first = Cell(f.minor).first_cluster'
  BY <1>7, <1>8
<1>10. Valid(first)' <=> Valid(first)
  BY LooksSame
<1>11. /\ f \in FlashFiles(f.minor) /\ n \in Nat
       /\ \A ch : IsChain(ch, first) /\ Valid(first) =>
            \E m \in 0..n : /\ At(f, ch, m) /\ IsPart(cells, ch, 0, m)
                            /\ m = n \/ EndsAt(ch, m)
  BY <1>7 DEF HasRead
<1>12. \A ch : IsChain(ch, first)' /\ Valid(first)' =>
         \E m \in 0..n : /\ At(f, ch, m)' /\ IsPart(cells, ch, 0, m)'
                         /\ m = n \/ EndsAt(ch, m)'
  BY <1>1, <1>3, <1>4, <1>6, <1>10, <1>11, Zenon
<1> QED BY <1>9, <1>11, <1>12 DEF HasRead, FlashFiles

----------------------------------------------------------------------------
(* The table *)

IsFILE(f) ==
  f = [device |-> f.device, minor |-> f.minor, loc |-> f.loc, buffer |-> f.buffer,
       head |-> f.head, tail |-> f.tail]

PCs == {"start", "idle", "line", "command", "unknown", "catalog", "install"}

Shape ==
  /\ DOMAIN file = Fileno /\ file = [n \in Fileno |-> file[n]]
  /\ \A n \in Fileno : IsFILE(file[n])
  /\ place \in [Fileno -> Nat]
  /\ scripts \in [Program -> Seq(Fileno)]
  /\ pc \in [Program -> PCs]
  /\ DOMAIN job = Program /\ job = [p \in Program |-> job[p]]

\* The scripts of a program, and the FILE that its catalog or installation uses.
\* What is installed has no line taken, so it is no script.
ProgramRight(p) ==
  /\ pc[p] = "line" => scripts[p] # <<>>
  /\ \A i \in 1..Len(scripts[p]) : place[scripts[p][i]] > 0
  /\ pc[p] = "install" => job[p].f \in Fileno /\ ~IsFree(job[p].f) /\ place[job[p].f] = 0
  /\ pc[p] = "catalog" => job[p].f \in Fileno /\ place[job[p].f] > 0

\* HELLO has the lowest FILE, and keeps it.
HelloRight ==
  /\ pc["init"] = "start" => pc["tty"] = "idle" /\ \A n \in Fileno : IsFree(n)
  /\ pc["init"] \notin {"start", "idle"} => place[3] > 0

Table ==
  /\ \A p \in Program : ProgramRight(p)
  /\ \A n \in Fileno : place[n] > 0 => ~IsFree(n)
  /\ ~(pc["init"] = "install" /\ pc["tty"] = "install" /\ job["init"].f = job["tty"].f)
  /\ HelloRight
  /\ OnlyScriptsStayOpen

TableInv == Shape /\ Table

LEMMA Filenos == Fileno = {3, 4, 5} /\ NoFile = 6 /\ NoFile \notin Fileno /\ FOPEN_MAX = 6
BY DEF Fileno, NoFile, FOPEN_MAX

LEMMA LowestIs ==
  ASSUME NEW S \in SUBSET Fileno
  PROVE  /\ LowestOf(S) # NoFile => LowestOf(S) \in S /\ \A k \in S : LowestOf(S) <= k
         /\ LowestOf(S) = NoFile => S = {}
<1>1. CASE S = {}
  BY <1>1 DEF LowestOf
<1>2. CASE S # {}
  <2>1. S \in SUBSET Nat
    BY Filenos
  <2>2. \E n \in S : \A k \in S : n <= k
    BY <1>2, <2>1, Smallest
  <2>3. LowestOf(S) \in S /\ \A k \in S : LowestOf(S) <= k
    BY <1>2, <2>2 DEF LowestOf
  <2> QED BY <2>3, Filenos
<1> QED BY <1>1, <1>2

LEMMA FreeSlot ==
  ASSUME fopen_slot # NoFile
  PROVE  /\ fopen_slot \in Fileno /\ IsFree(fopen_slot)
         /\ (\A n \in Fileno : IsFree(n)) => fopen_slot = 3
<1>1. Fileno \ InUse \in SUBSET Fileno
  OBVIOUS
<1>2. fopen_slot \in Fileno \ InUse /\ \A k \in Fileno \ InUse : fopen_slot <= k
  BY <1>1, LowestIs DEF fopen_slot
<1>3. ASSUME \A n \in Fileno : IsFree(n) PROVE fopen_slot = 3
  <2>1. 3 \in Fileno \ InUse
    BY <1>3, Filenos DEF InUse
  <2>2. fopen_slot <= 3 /\ fopen_slot \in {3, 4, 5}
    BY <1>2, <2>1, Filenos
  <2> QED BY <2>2
<1> QED BY <1>2, <1>3 DEF InUse

LEMMA UsedSlot ==
  ASSUME opendir_slot # NoFile
  PROVE  /\ opendir_slot \in Fileno /\ ~IsFree(opendir_slot)
         /\ ~IsFree(3) => opendir_slot = 3
<1>1. InUse \in SUBSET Fileno
  BY DEF InUse
<1>2. opendir_slot \in InUse /\ \A k \in InUse : opendir_slot <= k
  BY <1>1, LowestIs DEF opendir_slot
<1>3. ASSUME ~IsFree(3) PROVE opendir_slot = 3
  <2>1. 3 \in InUse
    BY <1>3, Filenos DEF InUse
  <2>2. opendir_slot <= 3 /\ opendir_slot \in {3, 4, 5}
    BY <1>1, <1>2, <2>1, Filenos
  <2> QED BY <2>2
<1> QED BY <1>2, <1>3 DEF InUse

LEMMA InitTable == Init => TableInv
<1> SUFFICES ASSUME Init PROVE TableInv
  OBVIOUS
<1> USE DEF Init
<1>1. Shape
  <2>1. \A n \in Fileno : IsFILE(file[n])
    BY DEF IsFILE, Unused
  <2>2. pc \in [Program -> PCs]
    BY DEF PCs
  <2>3. scripts \in [Program -> Seq(Fileno)] /\ place \in [Fileno -> Nat]
    OBVIOUS
  <2> QED BY <2>1, <2>2, <2>3 DEF Shape
<1>2. \A n \in Fileno : IsFree(n) /\ place[n] = 0
  BY DEF IsFree, Unused
<1>3. pc["init"] = "start" /\ pc["tty"] = "idle"
  BY DEF Program
<1>4. \A p \in Program : ProgramRight(p)
  <2>1. \A p \in Program : scripts[p] = <<>> /\ pc[p] \notin {"line", "install", "catalog"}
    OBVIOUS
  <2> QED BY <2>1 DEF ProgramRight
<1>5. HelloRight
  BY <1>2, <1>3 DEF HelloRight
<1>6. OnlyScriptsStayOpen
  BY <1>2 DEF OnlyScriptsStayOpen
<1> QED BY <1>1, <1>2, <1>3, <1>4, <1>5, <1>6 DEF TableInv, Table

\* A step of p that is not the start, and what it leaves of the other program.
Active(p) == pc["init"] # "start" /\ (p = "init" => pc[p] # "idle")

Moves(p) ==
  /\ \A q \in Program \ {p} : pc'[q] = pc[q] /\ scripts'[q] = scripts[q] /\ job'[q] = job[q]
  /\ pc'[p] # "start"

\* What a step of p does to the table: the lines that were taken stay taken, and
\* the FILEs of the other program stay its own.
Respects(p) ==
  /\ \A n \in Fileno : place[n] > 0 => place'[n] > 0
  /\ \A n \in Fileno : place'[n] > 0 => ~IsFree(n)'
  /\ \A q \in Program \ {p} : pc[q] = "install" =>
       /\ ~IsFree(job[q].f)' /\ place'[job[q].f] = 0
       /\ pc'[p] = "install" => job'[p].f # job[q].f
  /\ \A n \in Fileno : ~IsFree(n)' =>
       \/ ~IsFree(n) /\ ~(pc[p] = "install" /\ job[p].f = n)
       \/ place'[n] > 0
       \/ pc'[p] = "install" /\ job'[p].f = n

LEMMA HelloKept ==
  ASSUME TableInv, NEW p \in Program, Active(p), Moves(p), Respects(p) PROVE HelloRight'
<1>1. pc'["init"] # "start"
  BY Zenon DEF Active, Moves, Program
<1>2. pc'["init"] \notin {"start", "idle"} => pc["init"] \notin {"start", "idle"}
  BY Zenon DEF Active, Moves, Program
<1>3. pc["init"] \notin {"start", "idle"} => place[3] > 0
  BY DEF TableInv, Table, HelloRight
<1>4. place[3] > 0 => place'[3] > 0
  BY Filenos DEF Respects
<1> QED BY <1>1, <1>2, <1>3, <1>4 DEF HelloRight

LEMMA TableStep ==
  ASSUME TableInv, NEW p \in Program, Moves(p), Respects(p), ProgramRight(p)', HelloRight',
         Shape'
  PROVE  TableInv'
<1> USE DEF TableInv
<1>1. \A q \in Program : ProgramRight(q)'
  <2> SUFFICES ASSUME NEW q \in Program, q # p PROVE ProgramRight(q)'
    OBVIOUS
  <2>1. ProgramRight(q) /\ pc'[q] = pc[q] /\ scripts'[q] = scripts[q] /\ job'[q] = job[q]
    BY DEF Table, Moves
  <2>2. scripts[q] \in Seq(Fileno)
    BY DEF Shape
  <2>3. \A i \in 1..Len(scripts[q]) : scripts[q][i] \in Fileno
    BY <2>2, ElementOfSeq
  <2>4. \A i \in 1..Len(scripts[q]) : place'[scripts[q][i]] > 0
    BY <2>1, <2>3 DEF ProgramRight, Respects
  <2>5. pc[q] = "install" => job[q].f \in Fileno /\ ~IsFree(job[q].f)' /\ place'[job[q].f] = 0
    BY <2>1, Zenon DEF ProgramRight, Respects
  <2>6. pc[q] = "catalog" => job[q].f \in Fileno /\ place'[job[q].f] > 0
    BY <2>1, Zenon DEF ProgramRight, Respects
  <2> QED BY <2>1, <2>4, <2>5, <2>6, Zenon DEF ProgramRight
<1>2. \A n \in Fileno : place'[n] > 0 => ~IsFree(n)'
  BY DEF Respects
<1>3. ~(pc'["init"] = "install" /\ pc'["tty"] = "install" /\ job'["init"].f = job'["tty"].f)
  <2>1. CASE p = "init"
    <3>1. "tty" \in Program \ {p}
      BY <2>1 DEF Program
    <3> QED BY <2>1, <3>1, Zenon DEF Moves, Respects
  <2>2. CASE p = "tty"
    <3>1. "init" \in Program \ {p}
      BY <2>2 DEF Program
    <3> QED BY <2>2, <3>1, Zenon DEF Moves, Respects
  <2> QED BY <2>1, <2>2 DEF Program
<1>5. OnlyScriptsStayOpen'
  <2> SUFFICES ASSUME NEW n \in Fileno, ~IsFree(n)'
               PROVE  place'[n] > 0 \/ \E q \in Program : pc'[q] = "install" /\ job'[q].f = n
    BY DEF OnlyScriptsStayOpen
  <2>1. CASE ~IsFree(n) /\ ~(pc[p] = "install" /\ job[p].f = n)
    <3>1. place[n] > 0 \/ \E q \in Program : pc[q] = "install" /\ job[q].f = n
      BY <2>1 DEF Table, OnlyScriptsStayOpen
    <3>2. CASE place[n] > 0
      BY <3>2 DEF Respects
    <3>3. ASSUME NEW q \in Program, pc[q] = "install", job[q].f = n
          PROVE  pc'[q] = "install" /\ job'[q].f = n
      BY <2>1, <3>3, Zenon DEF Moves
    <3> QED BY <3>1, <3>2, <3>3
  <2>2. CASE place'[n] > 0
    BY <2>2
  <2>3. CASE pc'[p] = "install" /\ job'[p].f = n
    BY <2>3
  <2> QED BY <2>1, <2>2, <2>3, Zenon DEF Respects
<1> QED BY <1>1, <1>2, <1>3, <1>5, Zenon DEF Table

LEMMA FileSet ==
  ASSUME Shape, NEW n \in Fileno, NEW g, IsFILE(g), file' = [file EXCEPT ![n] = g]
  PROVE  /\ DOMAIN file' = Fileno /\ file' = [k \in Fileno |-> file'[k]]
         /\ \A k \in Fileno : IsFILE(file'[k])
         /\ file'[n] = g /\ \A k \in Fileno \ {n} : file'[k] = file[k]
         /\ IsFree(n)' <=> g.device = "none"
         /\ \A k \in Fileno \ {n} : IsFree(k)' <=> IsFree(k)
<1>1. file' = [k \in Fileno |-> IF k = n THEN g ELSE file[k]]
  BY DEF Shape
<1>2. file'[n] = g /\ \A k \in Fileno \ {n} : file'[k] = file[k]
  BY <1>1
<1>3. \A k \in Fileno : IsFILE(file'[k])
  BY <1>2 DEF Shape
<1> QED BY <1>1, <1>2, <1>3, Zenon DEF IsFree

LEMMA FileSame ==
  ASSUME Shape, file' = file
  PROVE  /\ DOMAIN file' = Fileno /\ file' = [k \in Fileno |-> file'[k]]
         /\ \A k \in Fileno : IsFILE(file'[k])
         /\ \A k \in Fileno : IsFree(k)' <=> IsFree(k)
<1>1. \A k \in Fileno : IsFree(k)' <=> IsFree(k)
  BY DEF IsFree
<1> QED BY <1>1 DEF Shape

\* Only the place in a FILE changes.
LEMMA StreamSet ==
  ASSUME NEW f, IsFILE(f), NEW h, NEW t
  PROVE  /\ IsFILE([f EXCEPT !.head = h, !.tail = t]) /\ IsFILE([f EXCEPT !.head = h])
         /\ [f EXCEPT !.head = h, !.tail = t].device = f.device
         /\ [f EXCEPT !.head = h].device = f.device
<1>1. PICK d, m, l, b, x, y :
        f = [device |-> d, minor |-> m, loc |-> l, buffer |-> b, head |-> x, tail |-> y]
  BY DEF IsFILE
<1>2. [f EXCEPT !.head = h] =
        [device |-> d, minor |-> m, loc |-> l, buffer |-> b, head |-> h, tail |-> y]
  BY <1>1
<1>3. [f EXCEPT !.head = h, !.tail = t] =
        [device |-> d, minor |-> m, loc |-> l, buffer |-> b, head |-> h, tail |-> t]
  <2>1. [f EXCEPT !.head = h, !.tail = t] = [[f EXCEPT !.head = h] EXCEPT !.tail = t]
    BY <1>1
  <2>2. PICK e : e = [f EXCEPT !.head = h]
    OBVIOUS
  <2>3. [e EXCEPT !.tail = t] =
          [device |-> d, minor |-> m, loc |-> l, buffer |-> b, head |-> h, tail |-> t]
    <3>1. e = [device |-> d, minor |-> m, loc |-> l, buffer |-> b, head |-> h, tail |-> y]
      BY <1>2, <2>2
    <3> QED BY <3>1
  <2> QED BY <2>1, <2>2, <2>3
<1>4. PICK g : g = [f EXCEPT !.head = h]
  OBVIOUS
<1>5. PICK e : e = [f EXCEPT !.head = h, !.tail = t]
  OBVIOUS
<1>6. IsFILE(g) /\ g.device = d
  BY <1>2, <1>4 DEF IsFILE
<1>7. IsFILE(e) /\ e.device = d
  BY <1>3, <1>5 DEF IsFILE
<1>8. f.device = d
  BY <1>1
<1> QED BY <1>4, <1>5, <1>6, <1>7, <1>8, Zenon

Moved(f, h, t) == [f EXCEPT !.head = h, !.tail = t]

LEMMA MovedIs ==
  \A f, h, t : IsFILE(f) => IsFILE(Moved(f, h, t)) /\ Moved(f, h, t).device = f.device
<1> SUFFICES ASSUME NEW f, NEW h, NEW t, IsFILE(f)
             PROVE  IsFILE(Moved(f, h, t)) /\ Moved(f, h, t).device = f.device
  OBVIOUS
<1>1. /\ IsFILE([f EXCEPT !.head = h, !.tail = t])
      /\ [f EXCEPT !.head = h, !.tail = t].device = f.device
  BY StreamSet, ZenonT(60)
<1> QED BY <1>1 DEF Moved

LEMMA TakenIs == ASSUME NEW f, IsFILE(f) PROVE IsFILE(Taken(f)) /\ Taken(f).device = f.device
<1>1. CASE f.head = f.tail
  BY <1>1 DEF Taken
<1>2. CASE f.head # f.tail
  <2>1. Taken(f) = [f EXCEPT !.head = IF f.head >= SectorSize THEN 0 ELSE f.head + 1]
    BY <1>2 DEF Taken
  <2>2. PICK h : h = IF f.head >= SectorSize THEN 0 ELSE f.head + 1
    OBVIOUS
  <2>3. Taken(f) = [f EXCEPT !.head = h]
    BY <2>1, <2>2
  <2>4. IsFILE([f EXCEPT !.head = h]) /\ [f EXCEPT !.head = h].device = f.device
    BY StreamSet
  <2> QED BY <2>3, <2>4
<1> QED BY <1>1, <1>2

LEMMA OpenedFILE == \A ent : IsFILE(Opened(ent)) /\ Opened(ent).device = "flash"
BY DEF IsFILE, Opened

LEMMA FlashFILE ==
  ASSUME NEW ent, NEW f \in FlashFiles(ent) PROVE IsFILE(f) /\ f.device = "flash"
BY DEF FlashFiles, IsFILE

LEMMA UnusedFILE == IsFILE(Unused) /\ Unused.device = "none"
BY DEF IsFILE, Unused

LEMMA Front ==
  ASSUME NEW s \in Seq(Fileno), s # <<>>
  PROVE  /\ SubSeq(s, 1, Len(s) - 1) \in Seq(Fileno)
         /\ Len(SubSeq(s, 1, Len(s) - 1)) = Len(s) - 1
         /\ \A i \in 1..Len(s) - 1 : SubSeq(s, 1, Len(s) - 1)[i] = s[i] /\ i \in 1..Len(s)
<1>1. Len(s) \in Nat /\ Len(s) > 0
  BY EmptySeq, LenProperties
<1>2. PICK n \in Nat : n = Len(s) - 1
  BY <1>1
<1>3. 1 \in 1..n + 1 /\ n \in 1 - 1..Len(s)
  BY <1>1, <1>2
<1>4. SubSeq(s, 1, n) \in Seq(Fileno) /\ Len(SubSeq(s, 1, n)) = n
      /\ \A i \in 1..n : SubSeq(s, 1, n)[i] = s[i]
  <2>1. /\ SubSeq(s, 1, n) \in Seq(Fileno)
        /\ Len(SubSeq(s, 1, n)) = n - 1 + 1
        /\ \A i \in 1..n - 1 + 1 : SubSeq(s, 1, n)[i] = s[1 + i - 1]
    BY <1>2, <1>3, SubSeqProperties
  <2> QED BY <2>1
<1>5. \A i \in 1..n : i \in 1..Len(s)
  BY <1>1, <1>2
<1> QED BY <1>2, <1>4, <1>5

\* A line is taken from the script in FILE n, one of stack.
LEMMA NextLineType ==
  ASSUME Shape, NEW p \in Program, NEW n \in Fileno, NEW f, IsFILE(f), f.device # "none",
         NEW stack \in Seq(Fileno), stack # <<>>, NextLine(p, n, f, stack),
         \A i \in 1..Len(stack) : place'[stack[i]] > 0
  PROVE  /\ \E g : IsFILE(g) /\ g.device # "none" /\ file' = [file EXCEPT ![n] = g]
         /\ scripts' \in [Program -> Seq(Fileno)] /\ pc' \in [Program -> PCs]
         /\ pc'[p] \notin {"start", "install", "catalog"}
         /\ \A q \in Program \ {p} : pc'[q] = pc[q] /\ scripts'[q] = scripts[q]
         /\ pc'[p] = "line" => scripts'[p] # <<>>
         /\ \A i \in 1..Len(scripts'[p]) : place'[scripts'[p][i]] > 0
<1>1. PICK ends \in BOOLEAN : ends = (fgetc(f) # EOF /\ Cell(fgetc(f)).filename = NUL)
  OBVIOUS
<1>2. PICK after : after = IF ends THEN SubSeq(stack, 1, Len(stack) - 1) ELSE stack
  OBVIOUS
<1>3. PICK x : x = IF ends THEN Back(p, after) ELSE IF fgetc(f) = EOF THEN "unknown" ELSE "command"
  OBVIOUS
<1>4. /\ scripts' = [scripts EXCEPT ![p] = after] /\ file' = [file EXCEPT ![n] = Taken(f)]
      /\ pc' = [pc EXCEPT ![p] = x]
  BY <1>1, <1>2, <1>3, Zenon DEF NextLine
<1>5. after \in Seq(Fileno) /\ \A i \in 1..Len(after) : place'[after[i]] > 0
  <2>1. CASE ends
    <3>1. after = SubSeq(stack, 1, Len(stack) - 1)
      BY <1>2, <2>1
    <3>2. \A i \in 1..Len(after) : after[i] = stack[i] /\ i \in 1..Len(stack)
      BY <3>1, Front
    <3> QED BY <3>1, <3>2, Front
  <2>2. CASE ~ends
    BY <1>2, <2>2
  <2> QED BY <2>1, <2>2
<1>6. x \in PCs \ {"start", "install", "catalog"} /\ (x = "line" => after # <<>>)
  <2>1. CASE ends
    BY <1>3, <2>1 DEF Back, PCs
  <2>2. CASE ~ends
    BY <1>3, <2>2 DEF PCs
  <2> QED BY <2>1, <2>2
<1>7. scripts' \in [Program -> Seq(Fileno)] /\ scripts'[p] = after
      /\ \A q \in Program \ {p} : scripts'[q] = scripts[q]
  BY <1>4, <1>5 DEF Shape
<1>8. pc' \in [Program -> PCs] /\ pc'[p] = x /\ \A q \in Program \ {p} : pc'[q] = pc[q]
  BY <1>4, <1>6 DEF Shape
<1>9. PICK g : g = Taken(f)
  OBVIOUS
<1>10. IsFILE(g) /\ g.device # "none" /\ file' = [file EXCEPT ![n] = g]
  BY <1>4, <1>9, TakenIs
<1> QED BY <1>5, <1>6, <1>7, <1>8, <1>10, Zenon

LEMMA ReturnType ==
  ASSUME Shape, NEW p \in Program, Return(p)
  PROVE  /\ pc' \in [Program -> PCs] /\ pc'[p] \notin {"start", "install", "catalog"}
         /\ \A q \in Program \ {p} : pc'[q] = pc[q]
         /\ pc'[p] = "line" => scripts[p] # <<>>
<1>1. PICK x : x = Back(p, scripts[p])
  OBVIOUS
<1>2. x \in {"line", "idle"} /\ (x = "line" => scripts[p] # <<>>)
  BY <1>1 DEF Back
<1>3. pc' = [pc EXCEPT ![p] = x]
  BY <1>1 DEF Return
<1> QED BY <1>2, <1>3 DEF Shape, PCs

LEMMA StartsActive == ASSUME TableInv, NEW p \in Program, Starts(p)
                      PROVE  Active(p) /\ pc[p] \notin {"install", "catalog"}
<1>1. pc["init"] = "start" => pc["tty"] = "idle"
  BY DEF TableInv, Table, HelloRight
<1>2. p = "init" \/ p = "tty"
  BY DEF Program
<1>3. pc[p] = "command" \/ (p = "tty" /\ pc[p] = "idle" /\ pc["init"] # "start")
  BY DEF Starts
<1> QED BY <1>1, <1>2, <1>3 DEF Active

LEMMA GoesActive ==
  ASSUME TableInv, NEW p \in Program, pc[p] \notin {"start", "idle"} PROVE Active(p)
<1>1. pc["init"] = "start" => pc["tty"] = "idle"
  BY DEF TableInv, Table, HelloRight
<1>2. p = "init" \/ p = "tty"
  BY DEF Program
<1> QED BY <1>1, <1>2 DEF Active

\* What another program installs is left where it is.
Keeps(p) ==
  \A q \in Program \ {p} : pc[q] = "install" => file'[job[q].f] = file[job[q].f]

Orderly(p) == Moves(p) /\ Respects(p) /\ ProgramRight(p)' /\ Shape' /\ Keeps(p)

\* A FILE that is free, a script's or its own is not what another program installs.
LEMMA KeepsOthers ==
  ASSUME TableInv, NEW p \in Program, NEW n \in Fileno,
         IsFree(n) \/ place[n] > 0 \/ (pc[p] = "install" /\ job[p].f = n),
         \A k \in Fileno \ {n} : file'[k] = file[k]
  PROVE  Keeps(p)
<1> SUFFICES ASSUME NEW q \in Program \ {p}, pc[q] = "install"
             PROVE  file'[job[q].f] = file[job[q].f]
  BY DEF Keeps
<1>1. job[q].f \in Fileno /\ ~IsFree(job[q].f) /\ place[job[q].f] = 0
  BY DEF TableInv, Table, ProgramRight
<1>2. PICK k \in Fileno : k = job[q].f
  BY <1>1
<1>3. k # n
  <2>1. CASE IsFree(n)
    BY <1>1, <1>2, <2>1
  <2>2. CASE place[n] > 0
    BY <1>1, <1>2, <2>2
  <2>3. CASE pc[p] = "install" /\ job[p].f = n
    <3>1. ~(pc["init"] = "install" /\ pc["tty"] = "install" /\ job["init"].f = job["tty"].f)
      BY DEF TableInv, Table
    <3>2. {p, q} = {"init", "tty"}
      BY DEF Program
    <3> QED BY <1>2, <2>3, <3>1, <3>2
  <2> QED BY <2>1, <2>2, <2>3
<1> QED BY <1>2, <1>3

LEMMA ActiveStep ==
  ASSUME TableInv, NEW p \in Program, Active(p), Orderly(p) PROVE TableInv'
BY HelloKept, TableStep DEF Orderly

\* A step of any command but install.
Leaves(p) == Active(p) /\ Orderly(p) /\ pc'[p] # "install"

\* A step that takes a line from a FILE, of a script that is opened or was open.
LEMMA OpensStep ==
  ASSUME TableInv, NEW p \in Program, pc[p] \notin {"install", "catalog"},
         NEW n \in Fileno, NEW g, IsFILE(g), g.device # "none", file' = [file EXCEPT ![n] = g],
         NEW v \in Nat, v > 0, place' = [place EXCEPT ![n] = v], job' = job,
         IsFree(n) \/ place[n] > 0,
         scripts' \in [Program -> Seq(Fileno)], pc' \in [Program -> PCs],
         pc'[p] \notin {"start", "install", "catalog"},
         \A q \in Program \ {p} : pc'[q] = pc[q] /\ scripts'[q] = scripts[q],
         pc'[p] = "line" => scripts'[p] # <<>>,
         \A i \in 1..Len(scripts'[p]) : place'[scripts'[p][i]] > 0
  PROVE  Orderly(p)
<1>1. /\ DOMAIN file' = Fileno /\ file' = [k \in Fileno |-> file'[k]]
      /\ \A k \in Fileno : IsFILE(file'[k])
      /\ ~IsFree(n)' /\ \A k \in Fileno \ {n} : IsFree(k)' <=> IsFree(k)
      /\ \A k \in Fileno \ {n} : file'[k] = file[k]
  BY FileSet, Zenon DEF TableInv
<1>2. place \in [Fileno -> Nat]
  BY DEF TableInv, Shape
<1>3. /\ place' \in [Fileno -> Nat] /\ \A k \in Fileno \ {n} : place'[k] = place[k]
      /\ place'[n] > 0
  BY <1>2
<1>4. Shape'
  <2>1. place' \in [Fileno -> Nat] /\ DOMAIN job' = Program /\ job' = [q \in Program |-> job'[q]]
    BY <1>3 DEF TableInv, Shape
  <2> QED BY <1>1, <2>1, Zenon DEF Shape
<1>5. Moves(p)
  BY DEF Moves
<1>6. ProgramRight(p)'
  BY DEF ProgramRight
<1>7. Respects(p)
  <2>1. \A k \in Fileno : place[k] > 0 => place'[k] > 0
    BY <1>3
  <2>2. \A k \in Fileno : place'[k] > 0 => ~IsFree(k)'
    BY <1>1, <1>3, Zenon DEF TableInv, Table
  <2>3. ASSUME NEW q \in Program \ {p}, pc[q] = "install"
        PROVE  ~IsFree(job[q].f)' /\ place'[job[q].f] = 0
    <3>1. job[q].f \in Fileno /\ ~IsFree(job[q].f) /\ place[job[q].f] = 0
      BY <2>3 DEF TableInv, Table, ProgramRight
    <3>2. PICK k \in Fileno : k = job[q].f
      BY <3>1
    <3>3. k # n
      BY <3>1, <3>2
    <3>4. ~IsFree(k)' /\ place'[k] = 0
      BY <1>1, <1>3, <3>1, <3>2, <3>3
    <3>5. job'[q].f = k
      BY <3>2
    <3> QED BY <3>2, <3>4, <3>5, Zenon DEF IsFree
  <2>4. \A k \in Fileno : ~IsFree(k)' =>
          (~IsFree(k) /\ ~(pc[p] = "install" /\ job[p].f = k)) \/ place'[k] > 0
    <3> SUFFICES ASSUME NEW k \in Fileno, ~IsFree(k)'
                 PROVE  ~IsFree(k) \/ place'[k] > 0
      BY Zenon
    <3> QED BY <1>1, <1>3
  <2> QED BY <2>1, <2>2, <2>3, <2>4, Zenon DEF Respects
<1>8. Keeps(p)
  BY <1>1, KeepsOthers
<1> QED BY <1>4, <1>5, <1>6, <1>7, <1>8, Zenon DEF Orderly

\* A step that opens and closes nothing.
LEMMA QuietStep ==
  ASSUME TableInv, NEW p \in Program, pc[p] # "install",
         DOMAIN file' = Fileno, file' = [k \in Fileno |-> file'[k]],
         \A k \in Fileno : IsFILE(file'[k]), \A k \in Fileno : IsFree(k)' <=> IsFree(k),
         \A k \in Fileno : ~IsFree(k) /\ place[k] = 0 => file'[k] = file[k],
         place' = place, scripts' = scripts,
         DOMAIN job' = Program, job' = [q \in Program |-> job'[q]],
         \A q \in Program \ {p} : pc'[q] = pc[q] /\ job'[q] = job[q],
         pc' \in [Program -> PCs], pc'[p] \notin {"start", "install"},
         pc'[p] = "line" => scripts[p] # <<>>,
         pc'[p] = "catalog" => job'[p].f \in Fileno /\ place[job'[p].f] > 0
  PROVE  Orderly(p)
<1>1. Shape'
  BY Zenon DEF Shape, TableInv
<1>2. Moves(p)
  BY DEF Moves
<1>3. ProgramRight(p)'
  BY DEF ProgramRight, TableInv, Table
<1>4. Respects(p)
  <2>1. \A k \in Fileno : place'[k] > 0 => ~IsFree(k)'
    BY Zenon DEF TableInv, Table
  <2>2. ASSUME NEW q \in Program \ {p}, pc[q] = "install"
        PROVE  ~IsFree(job[q].f)' /\ place'[job[q].f] = 0
    <3>1. job[q].f \in Fileno /\ ~IsFree(job[q].f) /\ place[job[q].f] = 0
      BY <2>2 DEF TableInv, Table, ProgramRight
    <3>2. PICK k \in Fileno : k = job[q].f
      BY <3>1
    <3>3. ~IsFree(k)' /\ place'[k] = 0
      BY <3>1, <3>2
    <3>4. job'[q].f = k
      BY <3>2
    <3> QED BY <3>2, <3>3, <3>4, Zenon DEF IsFree
  <2> QED BY <2>1, <2>2, Zenon DEF Respects
<1>5. Keeps(p)
  <2> SUFFICES ASSUME NEW q \in Program \ {p}, pc[q] = "install"
               PROVE  file'[job[q].f] = file[job[q].f]
    BY DEF Keeps
  <2> QED BY DEF TableInv, Table, ProgramRight
<1> QED BY <1>1, <1>2, <1>3, <1>4, <1>5, Zenon DEF Orderly

\* A step that opens a FILE for an installation, or goes on with it.
LEMMA InstallStep ==
  ASSUME TableInv, NEW p \in Program, pc[p] # "catalog",
         NEW n \in Fileno, NEW g, IsFILE(g), g.device = "flash", file' = [file EXCEPT ![n] = g],
         IsFree(n) \/ (pc[p] = "install" /\ job[p].f = n),
         pc[p] = "install" => job[p].f = n,
         place' = place, scripts' = scripts, NEW x, x.f = n, job' = [job EXCEPT ![p] = x],
         pc' = [pc EXCEPT ![p] = "install"]
  PROVE  Orderly(p)
<1>1. /\ DOMAIN file' = Fileno /\ file' = [k \in Fileno |-> file'[k]]
      /\ \A k \in Fileno : IsFILE(file'[k])
      /\ IsFree(n)' <=> g.device = "none"
      /\ \A k \in Fileno \ {n} : IsFree(k)' <=> IsFree(k)
      /\ \A k \in Fileno \ {n} : file'[k] = file[k]
  BY FileSet, Zenon DEF TableInv
<1>2. ~IsFree(n)'
  BY <1>1
<1>3. /\ pc' \in [Program -> PCs] /\ pc'[p] = "install"
      /\ \A q \in Program \ {p} : pc'[q] = pc[q]
  BY DEF TableInv, Shape, PCs
<1>4. /\ DOMAIN job' = Program /\ job' = [q \in Program |-> job'[q]] /\ job'[p] = x
      /\ \A q \in Program \ {p} : job'[q] = job[q]
  BY DEF TableInv, Shape
<1>5. Shape'
  BY <1>1, <1>3, <1>4, Zenon DEF Shape, TableInv
<1>6. Moves(p)
  BY <1>3, <1>4 DEF Moves
<1>7. place[n] = 0
  <2>1. place[n] \in Nat
    BY DEF TableInv, Shape
  <2>2. CASE IsFree(n)
    <3>1. ~(place[n] > 0)
      BY <2>2 DEF TableInv, Table
    <3> QED BY <2>1, <3>1
  <2>3. CASE pc[p] = "install" /\ job[p].f = n
    BY <2>3 DEF TableInv, Table, ProgramRight
  <2> QED BY <2>2, <2>3
<1>8. ProgramRight(p)'
  <2>1. \A i \in 1..Len(scripts[p]) : place[scripts[p][i]] > 0
    BY DEF TableInv, Table, ProgramRight
  <2>2. job'[p].f = n /\ file'[n].device # "none"
    BY <1>2, <1>4 DEF IsFree
  <2> QED BY <1>3, <1>7, <2>1, <2>2, Zenon DEF ProgramRight, IsFree
<1>9. Respects(p)
  <2>1. \A k \in Fileno : place'[k] > 0 => ~IsFree(k)'
    BY <1>1, <1>2, Zenon DEF TableInv, Table
  <2>2. ASSUME NEW q \in Program \ {p}, pc[q] = "install"
        PROVE  /\ ~IsFree(job[q].f)' /\ place'[job[q].f] = 0
               /\ job'[p].f # job[q].f
    <3>1. job[q].f \in Fileno /\ ~IsFree(job[q].f) /\ place[job[q].f] = 0
      BY <2>2 DEF TableInv, Table, ProgramRight
    <3>2. PICK k \in Fileno : k = job[q].f
      BY <3>1
    <3>3. k # n
      <4>1. CASE IsFree(n)
        BY <3>1, <3>2, <4>1
      <4>2. CASE pc[p] = "install" /\ job[p].f = n
        <5>1. ~(pc["init"] = "install" /\ pc["tty"] = "install" /\ job["init"].f = job["tty"].f)
          BY DEF TableInv, Table
        <5>2. {p, q} = {"init", "tty"}
          BY <2>2 DEF Program
        <5> QED BY <2>2, <3>2, <4>2, <5>1, <5>2
      <4> QED BY <4>1, <4>2
    <3>4. ~IsFree(k)' /\ place'[k] = 0
      BY <1>1, <3>1, <3>2, <3>3
    <3>5. job'[q].f = k /\ job'[p].f = n
      BY <1>4, <2>2, <3>2
    <3> QED BY <3>2, <3>3, <3>4, <3>5, Zenon DEF IsFree
  <2>3. \A k \in Fileno : ~IsFree(k)' =>
          \/ ~IsFree(k) /\ ~(pc[p] = "install" /\ job[p].f = k)
          \/ pc'[p] = "install" /\ job'[p].f = k
    <3> SUFFICES ASSUME NEW k \in Fileno, ~IsFree(k)', k # n
                 PROVE  ~IsFree(k) /\ ~(pc[p] = "install" /\ job[p].f = k)
      BY <1>3, <1>4
    <3> QED BY <1>1, Zenon
  <2> QED BY <2>1, <2>2, <2>3, Zenon DEF Respects
<1>10. Keeps(p)
  BY <1>1, KeepsOthers
<1> QED BY <1>5, <1>6, <1>8, <1>9, <1>10, Zenon DEF Orderly

\* A step that closes the FILE of an installation.
LEMMA CloseStep ==
  ASSUME TableInv, NEW p \in Program, pc[p] = "install",
         file' = [file EXCEPT ![job[p].f] = Unused], place' = place, scripts' = scripts,
         job' = [job EXCEPT ![p] = NoJob], Return(p)
  PROVE  Orderly(p)
<1>1. job[p].f \in Fileno /\ place[job[p].f] = 0
  BY DEF TableInv, Table, ProgramRight
<1>2. PICK n \in Fileno : n = job[p].f
  BY <1>1
<1>11. PICK g : g = Unused
  OBVIOUS
<1>3. file' = [file EXCEPT ![n] = g] /\ IsFILE(g) /\ g.device = "none"
  BY <1>2, <1>11, UnusedFILE
<1>4. /\ DOMAIN file' = Fileno /\ file' = [k \in Fileno |-> file'[k]]
      /\ \A k \in Fileno : IsFILE(file'[k])
      /\ IsFree(n)'
      /\ \A k \in Fileno \ {n} : IsFree(k)' <=> IsFree(k)
      /\ \A k \in Fileno \ {n} : file'[k] = file[k]
  BY <1>3, FileSet, Zenon DEF TableInv
<1>5. /\ pc' \in [Program -> PCs] /\ pc'[p] \notin {"start", "install", "catalog"}
      /\ \A q \in Program \ {p} : pc'[q] = pc[q]
      /\ pc'[p] = "line" => scripts[p] # <<>>
  BY ReturnType DEF TableInv
<1>6. /\ DOMAIN job' = Program /\ job' = [q \in Program |-> job'[q]]
      /\ \A q \in Program \ {p} : job'[q] = job[q]
  BY DEF TableInv, Shape
<1>7. Shape'
  BY <1>4, <1>5, <1>6, Zenon DEF Shape, TableInv
<1>8. Moves(p)
  BY <1>5, <1>6 DEF Moves
<1>9. ProgramRight(p)'
  BY <1>5 DEF ProgramRight, TableInv, Table
<1>10. Respects(p)
  <2>1. ASSUME NEW k \in Fileno, place'[k] > 0 PROVE ~IsFree(k)'
    <3>1. k # n
      BY <1>1, <1>2, <2>1
    <3> QED BY <1>4, <2>1, <3>1 DEF TableInv, Table
  <2>2. ASSUME NEW q \in Program \ {p}, pc[q] = "install"
        PROVE  ~IsFree(job[q].f)' /\ place'[job[q].f] = 0
    <3>1. job[q].f \in Fileno /\ ~IsFree(job[q].f) /\ place[job[q].f] = 0
      BY <2>2 DEF TableInv, Table, ProgramRight
    <3>2. PICK k \in Fileno : k = job[q].f
      BY <3>1
    <3>3. k # n
      <4>1. ~(pc["init"] = "install" /\ pc["tty"] = "install" /\ job["init"].f = job["tty"].f)
        BY DEF TableInv, Table
      <4>2. {p, q} = {"init", "tty"}
        BY <2>2 DEF Program
      <4> QED BY <1>2, <2>2, <3>2, <4>1, <4>2
    <3>4. ~IsFree(k)' /\ place'[k] = 0
      BY <1>4, <3>1, <3>2, <3>3
    <3>5. job'[q].f = k
      BY <1>6, <2>2, <3>2
    <3> QED BY <3>2, <3>4, <3>5, Zenon DEF IsFree
  <2>3. \A k \in Fileno : ~IsFree(k)' => ~IsFree(k) /\ ~(pc[p] = "install" /\ job[p].f = k)
    <3> SUFFICES ASSUME NEW k \in Fileno, ~IsFree(k)'
                 PROVE  ~IsFree(k) /\ k # n
      BY <1>2, Zenon
    <3>1. k # n
      BY <1>4
    <3> QED BY <1>4, <3>1
  <2> QED BY <1>5, <2>1, <2>2, <2>3, Zenon DEF Respects
<1>12. Keeps(p)
  BY <1>2, <1>4, KeepsOthers
<1> QED BY <1>7, <1>8, <1>9, <1>10, <1>12, Zenon DEF Orderly

LEMMA ScriptsType ==
  ASSUME TableInv, NEW p \in Program
  PROVE  /\ scripts[p] \in Seq(Fileno) /\ DOMAIN place = Fileno
         /\ \A i \in 1..Len(scripts[p]) : scripts[p][i] \in Fileno /\ place[scripts[p][i]] > 0
<1>1. scripts[p] \in Seq(Fileno) /\ DOMAIN place = Fileno
  BY DEF TableInv, Shape
<1>2. \A i \in 1..Len(scripts[p]) : scripts[p][i] \in Fileno
  BY <1>1, ElementOfSeq
<1> QED BY <1>1, <1>2 DEF TableInv, Table, ProgramRight

\* exec opens the script and takes its first line.
LEMMA ExecOpens ==
  ASSUME TableInv, NEW p \in Program, pc[p] \notin {"install", "catalog"}, NEW path,
         CanOpen(path), exec(p, path)
  PROVE  /\ Orderly(p) /\ place' = [place EXCEPT ![fopen_slot] = 1]
         /\ pc'[p] \notin {"start", "install"} /\ job' = job
<1>1. PICK n \in Fileno : n = fopen_slot /\ IsFree(n)
  BY FreeSlot DEF CanOpen
<1>2. PICK stack, f : stack = Append(scripts[p], n) /\ f = Opened(lookup[path])
  OBVIOUS
<1>3. NextLine(p, n, f, stack) /\ place' = [place EXCEPT ![n] = 1] /\ job' = job
  BY <1>1, <1>2, Zenon DEF exec
<1>4. /\ scripts[p] \in Seq(Fileno) /\ place \in [Fileno -> Nat]
      /\ \A i \in 1..Len(scripts[p]) : scripts[p][i] \in Fileno /\ place[scripts[p][i]] > 0
  BY ScriptsType DEF TableInv, Shape
<1>5. /\ stack \in Seq(Fileno) /\ Len(stack) = Len(scripts[p]) + 1 /\ stack # <<>>
      /\ \A i \in 1..Len(scripts[p]) : stack[i] = scripts[p][i]
      /\ stack[Len(scripts[p]) + 1] = n
  <2>1. Len(scripts[p]) \in Nat
    BY <1>4, LenProperties
  <2>2. stack # <<>>
    BY <1>2, <1>4
  <2> QED BY <1>2, <1>4, <2>1, <2>2, AppendProperties
<1>6. \A i \in 1..Len(stack) : place'[stack[i]] > 0
  <2> SUFFICES ASSUME NEW i \in 1..Len(stack) PROVE place'[stack[i]] > 0
    OBVIOUS
  <2>1. Len(scripts[p]) \in Nat
    BY <1>4, LenProperties
  <2>2. CASE i = Len(scripts[p]) + 1
    <3>1. stack[i] = n
      BY <1>5, <2>2
    <3> QED BY <1>3, <1>4, <3>1
  <2>3. CASE i # Len(scripts[p]) + 1
    <3>1. i \in 1..Len(scripts[p])
      BY <1>5, <2>1, <2>3
    <3>2. stack[i] \in Fileno /\ place[stack[i]] > 0
      BY <1>4, <1>5, <3>1
    <3> QED BY <1>3, <1>4, <3>2
  <2> QED BY <2>2, <2>3
<1>7. IsFILE(f) /\ f.device # "none"
  BY <1>2, OpenedFILE
<1>8. /\ \E g : IsFILE(g) /\ g.device # "none" /\ file' = [file EXCEPT ![n] = g]
      /\ scripts' \in [Program -> Seq(Fileno)] /\ pc' \in [Program -> PCs]
      /\ pc'[p] \notin {"start", "install", "catalog"}
      /\ \A q \in Program \ {p} : pc'[q] = pc[q] /\ scripts'[q] = scripts[q]
      /\ pc'[p] = "line" => scripts'[p] # <<>>
      /\ \A i \in 1..Len(scripts'[p]) : place'[scripts'[p][i]] > 0
  BY <1>3, <1>5, <1>6, <1>7, NextLineType, Zenon DEF TableInv
<1>9. PICK g : IsFILE(g) /\ g.device # "none" /\ file' = [file EXCEPT ![n] = g]
  BY <1>8
<1>10. 1 \in Nat /\ 1 > 0
  OBVIOUS
<1>11. Orderly(p)
  BY <1>1, <1>3, <1>8, <1>9, <1>10, OpensStep
<1> QED BY <1>1, <1>3, <1>8, <1>11

LEMMA ExecFails ==
  ASSUME TableInv, NEW p \in Program, pc[p] \notin {"install", "catalog"}, NEW path,
         ~CanOpen(path), exec(p, path)
  PROVE  /\ Orderly(p) /\ place' = place /\ pc'[p] \notin {"start", "install"} /\ job' = job
         /\ pc'[p] = Back(p, scripts[p])
<1>1. Return(p) /\ file' = file /\ scripts' = scripts /\ place' = place /\ job' = job
  BY Zenon DEF exec
<1>2. /\ pc' \in [Program -> PCs] /\ pc'[p] \notin {"start", "install", "catalog"}
      /\ \A q \in Program \ {p} : pc'[q] = pc[q]
      /\ pc'[p] = "line" => scripts[p] # <<>>
  BY <1>1, ReturnType DEF TableInv
<1>3. /\ DOMAIN file' = Fileno /\ file' = [k \in Fileno |-> file'[k]]
      /\ \A k \in Fileno : IsFILE(file'[k])
      /\ \A k \in Fileno : IsFree(k)' <=> IsFree(k)
  BY <1>1, FileSame DEF TableInv
<1>4. DOMAIN job' = Program /\ job' = [q \in Program |-> job'[q]]
  BY <1>1 DEF TableInv, Shape
<1>5. Orderly(p)
  BY <1>1, <1>2, <1>3, <1>4, QuietStep
<1>6. pc'[p] = Back(p, scripts[p])
  BY <1>1 DEF Return, TableInv, Shape
<1> QED BY <1>1, <1>2, <1>5, <1>6

LEMMA InitExecTable ==
  ASSUME TableInv, NEW p \in Program, p = "init", init_exec
  PROVE  TableInv' /\ Orderly(p) /\ pc'[p] # "install"
<1>1. /\ pc["init"] = "start" /\ exec("init", Hello) /\ pc["tty"] = "idle"
      /\ \A n \in Fileno : IsFree(n)
  BY DEF init_exec, TableInv, Table, HelloRight
<1>2. pc[p] \notin {"install", "catalog"}
  BY <1>1
<1>3. CASE CanOpen(Hello)
  <2>1. /\ Orderly(p) /\ place' = [place EXCEPT ![fopen_slot] = 1]
        /\ pc'[p] \notin {"start", "install"}
    BY <1>1, <1>2, <1>3, ExecOpens
  <2>2. fopen_slot = 3
    BY <1>1, <1>3, FreeSlot DEF CanOpen
  <2>3. place'[3] > 0
    BY <2>1, <2>2, Filenos DEF TableInv, Shape
  <2>4. HelloRight'
    BY <2>1, <2>3 DEF HelloRight
  <2>5. Moves(p) /\ Respects(p) /\ ProgramRight(p)' /\ Shape'
    BY <2>1 DEF Orderly
  <2>6. TableInv'
    BY <2>4, <2>5, TableStep, Zenon
  <2> QED BY <2>1, <2>6
<1>4. CASE ~CanOpen(Hello)
  <2>1. Orderly(p) /\ pc'[p] = Back(p, scripts[p])
    BY <1>1, <1>2, <1>4, ExecFails
  <2>2. scripts[p] = <<>>
    <3>1. scripts[p] \in Seq(Fileno)
          /\ \A i \in 1..Len(scripts[p]) : scripts[p][i] \in Fileno /\ place[scripts[p][i]] > 0
      BY ScriptsType
    <3>2. \A n \in Fileno : ~(place[n] > 0)
      BY <1>1 DEF TableInv, Table
    <3>3. Len(scripts[p]) \in Nat /\ ~(1 \in 1..Len(scripts[p]))
      BY <3>1, <3>2, LenProperties
    <3>4. Len(scripts[p]) = 0
      BY <3>3
    <3> QED BY <3>1, <3>4, EmptySeq
  <2>3. pc'[p] = "idle"
    BY <2>1, <2>2 DEF Back
  <2>4. HelloRight'
    BY <2>3 DEF HelloRight
  <2>5. Moves(p) /\ Respects(p) /\ ProgramRight(p)' /\ Shape'
    BY <2>1 DEF Orderly
  <2>6. TableInv'
    BY <2>4, <2>5, TableStep, Zenon
  <2> QED BY <2>1, <2>3, <2>6
<1> QED BY <1>3, <1>4

LEMMA ExecTable == ASSUME TableInv, NEW p \in Program, cli_exec(p) PROVE Leaves(p)
<1>1. Starts(p) /\ \E path \in Paths : exec(p, path)
  BY DEF cli_exec
<1>2. Active(p) /\ pc[p] \notin {"install", "catalog"}
  BY <1>1, StartsActive
<1>3. Orderly(p) /\ pc'[p] # "install"
  BY <1>1, <1>2, ExecOpens, ExecFails
<1> QED BY <1>2, <1>3 DEF Leaves

LEMMA NextLineTable == ASSUME TableInv, NEW p \in Program, next_line(p) PROVE Leaves(p)
<1>1. PICK stack, n : stack = scripts[p] /\ n = stack[Len(stack)]
  OBVIOUS
<1>2. PICK v : v = Least(place[n] + 1, SectorSize + 2)
  OBVIOUS
<1>3. /\ pc[p] = "line" /\ NextLine(p, n, file[n], stack) /\ place' = [place EXCEPT ![n] = v]
      /\ job' = job
  BY <1>1, <1>2, Zenon DEF next_line
<1>4. /\ stack \in Seq(Fileno) /\ stack # <<>> /\ place \in [Fileno -> Nat]
      /\ \A i \in 1..Len(stack) : stack[i] \in Fileno /\ place[stack[i]] > 0
  BY <1>1, <1>3, ScriptsType DEF TableInv, Table, ProgramRight, Shape
<1>5. Len(stack) \in 1..Len(stack)
  BY <1>4, EmptySeq, LenProperties
<1>6. n \in Fileno /\ place[n] > 0 /\ place[n] \in Nat
  BY <1>1, <1>4, <1>5
<1>7. v \in Nat /\ v > 0
  BY <1>2, <1>6, Sizes DEF Least
<1>8. \A i \in 1..Len(stack) : place'[stack[i]] > 0
  BY <1>3, <1>4, <1>7
<1>9. PICK f : f = file[n]
  OBVIOUS
<1>10. IsFILE(f) /\ ~IsFree(n)
  BY <1>6, <1>9 DEF TableInv, Shape, Table
<1>11. /\ \E g : IsFILE(g) /\ g.device # "none" /\ file' = [file EXCEPT ![n] = g]
       /\ scripts' \in [Program -> Seq(Fileno)] /\ pc' \in [Program -> PCs]
       /\ pc'[p] \notin {"start", "install", "catalog"}
       /\ \A q \in Program \ {p} : pc'[q] = pc[q] /\ scripts'[q] = scripts[q]
       /\ pc'[p] = "line" => scripts'[p] # <<>>
       /\ \A i \in 1..Len(scripts'[p]) : place'[scripts'[p][i]] > 0
  <2>1. f.device # "none"
    BY <1>9, <1>10 DEF IsFree
  <2>2. NextLine(p, n, f, stack)
    BY <1>3, <1>9
  <2> QED BY <1>4, <1>6, <1>8, <1>10, <2>1, <2>2, NextLineType, Zenon DEF TableInv
<1>12. PICK g : IsFILE(g) /\ g.device # "none" /\ file' = [file EXCEPT ![n] = g]
  BY <1>11
<1>13. pc[p] \notin {"install", "catalog", "start", "idle"}
  BY <1>3
<1>14. Orderly(p)
  BY <1>3, <1>6, <1>7, <1>11, <1>12, <1>13, OpensStep
<1>15. pc'[p] # "install"
  BY <1>11
<1> QED BY <1>13, <1>14, <1>15, GoesActive DEF Leaves

LEMMA OtherTable == ASSUME TableInv, NEW p \in Program, other_command(p) PROVE Leaves(p)
<1>1. /\ pc[p] \in {"command", "unknown"} /\ Return(p) /\ file' = file /\ scripts' = scripts
      /\ job' = job /\ place' = place
  BY Zenon DEF other_command
<1>2. /\ pc' \in [Program -> PCs] /\ pc'[p] \notin {"start", "install", "catalog"}
      /\ \A q \in Program \ {p} : pc'[q] = pc[q]
      /\ pc'[p] = "line" => scripts[p] # <<>>
  BY <1>1, ReturnType DEF TableInv
<1>3. /\ DOMAIN file' = Fileno /\ file' = [k \in Fileno |-> file'[k]]
      /\ \A k \in Fileno : IsFILE(file'[k])
      /\ \A k \in Fileno : IsFree(k)' <=> IsFree(k)
  BY <1>1, FileSame DEF TableInv
<1>4. DOMAIN job' = Program /\ job' = [q \in Program |-> job'[q]]
  BY <1>1 DEF TableInv, Shape
<1>5. Orderly(p)
  BY <1>1, <1>2, <1>3, <1>4, QuietStep
<1> QED BY <1>1, <1>2, <1>5, GoesActive DEF Leaves

\* The FILE that bload opens is closed before the program yields.
LEMMA LoadTable == ASSUME TableInv, NEW p \in Program, cli_bload(p) PROVE Leaves(p)
<1>1. /\ Starts(p) /\ Return(p) /\ scripts' = scripts /\ job' = job /\ place' = place
      /\ fopen_slot # NoFile /\ file' = [file EXCEPT ![fopen_slot] = Unused]
  BY Zenon DEF cli_bload, CanOpen
<1>2. Active(p) /\ pc[p] \notin {"install", "catalog"}
  BY <1>1, StartsActive
<1>3. PICK n \in Fileno : n = fopen_slot /\ IsFree(n)
  BY <1>1, FreeSlot
<1>4. PICK g : g = Unused
  OBVIOUS
<1>5. IsFILE(g) /\ g.device = "none" /\ file' = [file EXCEPT ![n] = g]
  BY <1>1, <1>3, <1>4, UnusedFILE
<1>6. /\ DOMAIN file' = Fileno /\ file' = [k \in Fileno |-> file'[k]]
      /\ \A k \in Fileno : IsFILE(file'[k])
      /\ IsFree(n)' /\ \A k \in Fileno \ {n} : IsFree(k)' <=> IsFree(k)
      /\ \A k \in Fileno \ {n} : file'[k] = file[k]
  BY <1>5, FileSet, Zenon DEF TableInv
<1>7. /\ \A k \in Fileno : IsFree(k)' <=> IsFree(k)
      /\ \A k \in Fileno : ~IsFree(k) /\ place[k] = 0 => file'[k] = file[k]
  BY <1>3, <1>6
<1>8. /\ pc' \in [Program -> PCs] /\ pc'[p] \notin {"start", "install", "catalog"}
      /\ \A q \in Program \ {p} : pc'[q] = pc[q]
      /\ pc'[p] = "line" => scripts[p] # <<>>
  BY <1>1, ReturnType DEF TableInv
<1>9. DOMAIN job' = Program /\ job' = [q \in Program |-> job'[q]]
  BY <1>1 DEF TableInv, Shape
<1>10. Orderly(p)
  BY <1>1, <1>2, <1>6, <1>7, <1>8, <1>9, QuietStep
<1> QED BY <1>2, <1>8, <1>10 DEF Leaves

\* A catalog moves the place in its FILE, and no more.
LEMMA ListStep ==
  ASSUME TableInv, NEW p \in Program, pc[p] # "install", NEW n \in Fileno, place[n] > 0,
         NEW dir, NEW shown, List(p, n, dir, shown), place' = place, scripts' = scripts
  PROVE  Orderly(p) /\ pc'[p] # "install"
<1>1. PICK g : g = file'[n]
  OBVIOUS
<1>2. PICK a, h, t :
        /\ file' = [file EXCEPT ![n] = [file[n] EXCEPT !.head = h, !.tail = t]]
        /\ IF AtEnd(a)
           THEN job' = [job EXCEPT ![p] = NoJob] /\ Return(p)
           ELSE /\ job' = [job EXCEPT ![p] = [f |-> n, shown |-> IF p = "tty" THEN Append(shown, a) ELSE <<>>]]
                /\ pc' = [pc EXCEPT ![p] = "catalog"]
  BY Zenon DEF List, Directory
<1>3. PICK f : f = file[n]
  OBVIOUS
<1>4. IsFILE(f)
  BY <1>3 DEF TableInv, Shape
<1>5. PICK e : e = Moved(f, h, t)
  OBVIOUS
<1>6. IsFILE(e) /\ e.device = f.device /\ file' = [file EXCEPT ![n] = e]
  <2>3. IsFILE(e) /\ e.device = f.device
    BY <1>4, <1>5, MovedIs
  <2>2. file' = [file EXCEPT ![n] = e]
    BY <1>2, <1>3, <1>5, Zenon DEF Moved
  <2> QED BY <2>3, <2>2
<1>7. /\ DOMAIN file' = Fileno /\ file' = [k \in Fileno |-> file'[k]]
      /\ \A k \in Fileno : IsFILE(file'[k])
      /\ \A k \in Fileno \ {n} : file'[k] = file[k]
      /\ IsFree(n)' <=> e.device = "none"
      /\ \A k \in Fileno \ {n} : IsFree(k)' <=> IsFree(k)
  BY <1>6, FileSet, Zenon DEF TableInv
<1>8. /\ \A k \in Fileno : IsFree(k)' <=> IsFree(k)
      /\ \A k \in Fileno : ~IsFree(k) /\ place[k] = 0 => file'[k] = file[k]
  <2>1. IsFree(n)' <=> IsFree(n)
    BY <1>3, <1>6, <1>7 DEF IsFree
  <2> QED BY <1>7, <2>1
<1>9. CASE AtEnd(a)
  <2>1. job' = [job EXCEPT ![p] = NoJob] /\ Return(p)
    BY <1>2, <1>9
  <2>2. /\ pc' \in [Program -> PCs] /\ pc'[p] \notin {"start", "install", "catalog"}
        /\ \A q \in Program \ {p} : pc'[q] = pc[q]
        /\ pc'[p] = "line" => scripts[p] # <<>>
    BY <2>1, ReturnType DEF TableInv
  <2>3. DOMAIN job' = Program /\ job' = [q \in Program |-> job'[q]]
        /\ \A q \in Program \ {p} : job'[q] = job[q]
    BY <2>1 DEF TableInv, Shape
  <2> QED BY <1>7, <1>8, <2>2, <2>3, QuietStep
<1>10. CASE ~AtEnd(a)
  <2>1. PICK x : x.f = n /\ job' = [job EXCEPT ![p] = x]
    BY <1>2, <1>10
  <2>2. pc' = [pc EXCEPT ![p] = "catalog"]
    BY <1>2, <1>10
  <2>3. /\ pc' \in [Program -> PCs] /\ pc'[p] = "catalog"
        /\ \A q \in Program \ {p} : pc'[q] = pc[q]
    BY <2>2 DEF TableInv, Shape, PCs
  <2>4. DOMAIN job' = Program /\ job' = [q \in Program |-> job'[q]] /\ job'[p] = x
        /\ \A q \in Program \ {p} : job'[q] = job[q]
    BY <2>1 DEF TableInv, Shape
  <2> QED BY <1>7, <1>8, <2>1, <2>3, <2>4, QuietStep
<1> QED BY <1>9, <1>10

\* The FILE that a catalog finds in use is a script's: HELLO's, if init is at
\* something, and otherwise the only installation there may be is its own.
LEMMA CatalogFile ==
  ASSUME TableInv, NEW p \in Program, Starts(p), opendir_slot # NoFile
  PROVE  opendir_slot \in Fileno /\ place[opendir_slot] > 0
<1>1. Active(p) /\ pc[p] \notin {"install", "catalog"}
  BY StartsActive
<1>2. /\ opendir_slot \in Fileno /\ ~IsFree(opendir_slot)
      /\ ~IsFree(3) => opendir_slot = 3
  BY UsedSlot
<1>3. CASE pc["init"] \notin {"start", "idle"}
  <2>1. place[3] > 0
    BY <1>3 DEF TableInv, Table, HelloRight
  <2>2. ~IsFree(3)
    BY <2>1, Filenos DEF TableInv, Table
  <2> QED BY <1>2, <2>1, <2>2
<1>4. CASE pc["init"] \in {"start", "idle"}
  <2>1. \A q \in Program : pc[q] # "install"
    <3>1. p = "tty"
      BY <1>1, <1>4 DEF Active, Program
    <3> QED BY <1>1, <1>4, <3>1 DEF Program
  <2> QED BY <1>2, <2>1 DEF TableInv, Table, OnlyScriptsStayOpen
<1> QED BY <1>3, <1>4

LEMMA CatalogTable == ASSUME TableInv, NEW p \in Program, cli_catalog(p) PROVE Leaves(p)
<1>1. PICK n, dir, shown : n = opendir_slot /\ List(p, n, dir, shown)
  BY Zenon DEF cli_catalog
<1>2. Starts(p) /\ opendir_slot # NoFile /\ place' = place /\ scripts' = scripts
  BY Zenon DEF cli_catalog
<1>3. Active(p) /\ pc[p] # "install" /\ n \in Fileno /\ place[n] > 0
  BY <1>1, <1>2, StartsActive, CatalogFile
<1>4. Orderly(p) /\ pc'[p] # "install"
  BY <1>1, <1>2, <1>3, ListStep
<1> QED BY <1>3, <1>4 DEF Leaves

LEMMA CatalogGoesTable == ASSUME TableInv, NEW p \in Program, catalog_goes_on(p) PROVE Leaves(p)
<1>1. PICK n, dir, shown : n = job[p].f /\ List(p, n, dir, shown)
  BY Zenon DEF catalog_goes_on
<1>2. pc[p] = "catalog" /\ place' = place /\ scripts' = scripts
  BY Zenon DEF catalog_goes_on
<1>3. pc[p] # "install" /\ pc[p] \notin {"start", "idle"} /\ n \in Fileno /\ place[n] > 0
  BY <1>1, <1>2 DEF TableInv, Table, ProgramRight
<1>4. Orderly(p) /\ pc'[p] # "install"
  BY <1>1, <1>2, <1>3, ListStep
<1> QED BY <1>3, <1>4, GoesActive DEF Leaves

----------------------------------------------------------------------------
(* Installations *)

InstallRight(p) ==
  pc[p] = "install" =>
    /\ job[p].left \in 0..InstallSectors - 1
    /\ \E f, cells, n :
         /\ f = file[job[p].f] /\ cells = job[p].read
         /\ n = (InstallSectors - job[p].left) * SectorSize
         /\ HasRead(f, cells, n)

LEMMA OtherInstalls ==
  ASSUME Same, NEW p \in Program, Orderly(p), NEW q \in Program \ {p}, InstallRight(q)
  PROVE  InstallRight(q)'
<1> SUFFICES ASSUME pc'[q] = "install" PROVE InstallRight(q)'
  BY Zenon DEF InstallRight
<1>1. pc[q] = "install" /\ job'[q] = job[q] /\ file'[job[q].f] = file[job[q].f]
  BY Zenon DEF Orderly, Moves, Keeps
<1>2. PICK f, cells, n :
        /\ f = file[job[q].f] /\ cells = job[q].read
        /\ n = (InstallSectors - job[q].left) * SectorSize
        /\ HasRead(f, cells, n)
  BY <1>1, Zenon DEF InstallRight
<1>3. HasRead(f, cells, n)'
  BY <1>2, HasReadSame
<1>4. job'[q].left \in 0..InstallSectors - 1
  BY <1>1 DEF InstallRight
<1>5. /\ f = file'[job'[q].f] /\ cells = job'[q].read
      /\ n = (InstallSectors - job'[q].left) * SectorSize
  BY <1>1, <1>2, Zenon
<1>6. InstallSectors' = InstallSectors
  BY DEF InstallSectors
<1> QED BY <1>3, <1>4, <1>5, <1>6, Zenon DEF InstallRight

LEMMA LeavesRight ==
  ASSUME Same, TableInv, \A q \in Program : InstallRight(q), NEW p \in Program, Orderly(p),
         pc'[p] # "install"
  PROVE  \A q \in Program : InstallRight(q)'
<1>1. InstallRight(p)'
  BY DEF InstallRight
<1> QED BY <1>1, OtherInstalls

\* A sector is read behind the ones before.
LEMMA SectorStep ==
  ASSUME VolumeTyped, Same, TableInv, \A q \in Program : InstallRight(q),
         NEW p \in Program, pc[p] # "catalog",
         NEW n \in Fileno, NEW f, NEW src, NEW left \in 0..InstallSectors - 1,
         install_sector(p, n, f, src, left),
         IsFree(n) \/ (pc[p] = "install" /\ job[p].f = n),
         pc[p] = "install" => job[p].f = n,
         NEW k, k + SectorSize = (InstallSectors - left) * SectorSize, HasRead(f, src, k),
         place' = place, scripts' = scripts
  PROVE  Orderly(p) /\ \A q \in Program : InstallRight(q)'
<1>1. PICK r : r = read(f, SectorSize)
  OBVIOUS
<1>2. PICK g, cells, l : g = r.f /\ cells = src \o r.cells /\ l = k + SectorSize
  OBVIOUS
<1>3. PICK x : x = [f |-> n, src |-> r.cells, read |-> cells, left |-> left]
  OBVIOUS
<1>4. /\ file' = [file EXCEPT ![n] = g] /\ job' = [job EXCEPT ![p] = x]
      /\ pc' = [pc EXCEPT ![p] = "install"]
  BY <1>1, <1>2, <1>3, Zenon DEF install_sector
<1>5. HasRead(g, cells, l)
  BY <1>1, <1>2, SectorRight
<1>6. IsFILE(g) /\ g.device = "flash"
  BY <1>5, FlashFILE DEF HasRead
<1>7. x.f = n /\ x.read = cells /\ x.left = left
  BY <1>3
<1>8. Orderly(p)
  BY <1>4, <1>6, <1>7, InstallStep
<1>9. HasRead(g, cells, l)'
  BY <1>5, HasReadSame
<1>10. InstallRight(p)'
  <2>1. job'[p] = x /\ file'[n] = g
    BY <1>4 DEF TableInv, Shape
  <2>2. g = file'[job'[p].f] /\ cells = job'[p].read /\ job'[p].left = left
    BY <1>7, <2>1
  <2>3. l = (InstallSectors - job'[p].left) * SectorSize
    BY <1>2, <2>2
  <2>4. job'[p].left \in 0..InstallSectors - 1
    BY <2>2
  <2>5. InstallSectors' = InstallSectors
    BY DEF InstallSectors
  <2> QED BY <1>9, <2>2, <2>3, <2>4, <2>5, Zenon DEF InstallRight
<1> QED BY <1>8, <1>10, OtherInstalls

LEMMA InstallTable ==
  ASSUME VolumeTyped, Same, TableInv, \A q \in Program : InstallRight(q),
         NEW p \in Program, cli_install(p)
  PROVE  TableInv' /\ \A q \in Program : InstallRight(q)'
<1>1. PICK path : /\ fopen_slot # NoFile
                  /\ install_sector(p, fopen_slot, Opened(lookup[path]), <<>>, InstallSectors - 1)
  BY Zenon DEF cli_install, CanOpen
<1>2. Starts(p) /\ place' = place /\ scripts' = scripts
  BY Zenon DEF cli_install
<1>3. Active(p) /\ pc[p] \notin {"install", "catalog"}
  BY <1>2, StartsActive
<1>4. PICK n \in Fileno : n = fopen_slot /\ IsFree(n)
  BY <1>1, FreeSlot
<1>5. PICK f, left : f = Opened(lookup[path]) /\ left = InstallSectors - 1
  OBVIOUS
<1>6. install_sector(p, n, f, <<>>, left)
  BY <1>1, <1>4, <1>5
<1>7. HasRead(f, <<>>, 0)
  BY <1>5, ReadBegins
<1>8. left \in 0..InstallSectors - 1 /\ 0 + SectorSize = (InstallSectors - left) * SectorSize
  BY <1>5, Sizes DEF InstallSectors
<1>9. Orderly(p) /\ \A q \in Program : InstallRight(q)'
  BY <1>2, <1>3, <1>4, <1>6, <1>7, <1>8, SectorStep
<1> QED BY <1>3, <1>9, ActiveStep

LEMMA InstallGoesTable ==
  ASSUME VolumeTyped, Same, TableInv, \A q \in Program : InstallRight(q),
         NEW p \in Program, install_goes_on(p)
  PROVE  TableInv' /\ \A q \in Program : InstallRight(q)'
<1>1. /\ pc[p] = "install" /\ place' = place /\ scripts' = scripts
      /\ job[p].left > 0
      /\ install_sector(p, job[p].f, file[job[p].f], job[p].read, job[p].left - 1)
  BY Zenon DEF install_goes_on
<1>2. job[p].f \in Fileno
  BY <1>1 DEF TableInv, Table, ProgramRight
<1>3. PICK n \in Fileno : n = job[p].f
  BY <1>2
<1>4. PICK f, cells, k : /\ f = file[job[p].f] /\ cells = job[p].read
                         /\ k = (InstallSectors - job[p].left) * SectorSize
                         /\ HasRead(f, cells, k)
  BY <1>1, Zenon DEF InstallRight
<1>5. PICK before : before = job[p].left
  OBVIOUS
<1>6. before \in 0..InstallSectors - 1 /\ before > 0
  BY <1>1, <1>5 DEF InstallRight
<1>7. PICK left : left = before - 1
  OBVIOUS
<1>8. left \in 0..InstallSectors - 1 /\ k + SectorSize = (InstallSectors - left) * SectorSize
  <2>1. before = 1 /\ left = 0
    BY <1>6, <1>7 DEF InstallSectors
  <2>2. k = (InstallSectors - before) * SectorSize
    BY <1>4, <1>5, Zenon
  <2> QED BY <2>1, <2>2, Sizes DEF InstallSectors
<1>9. install_sector(p, n, f, cells, left)
  BY <1>1, <1>3, <1>4, <1>5, <1>7, Zenon
<1>10. Orderly(p) /\ \A q \in Program : InstallRight(q)'
  <2>1. pc[p] # "catalog" /\ job[p].f = n /\ HasRead(f, cells, k)
    BY <1>1, <1>3, <1>4
  <2> QED BY <1>1, <1>8, <1>9, <2>1, SectorStep, Zenon
<1>11. pc[p] \notin {"start", "idle"}
  BY <1>1
<1> QED BY <1>10, <1>11, GoesActive, ActiveStep

LEMMA InstallEndsTable == ASSUME TableInv, NEW p \in Program, install_ends(p) PROVE Leaves(p)
<1>1. /\ pc[p] = "install" /\ place' = place /\ scripts' = scripts /\ Return(p)
      /\ job' = [job EXCEPT ![p] = NoJob] /\ file' = [file EXCEPT ![job[p].f] = Unused]
  BY Zenon DEF install_ends
<1>2. Orderly(p)
  BY <1>1, CloseStep
<1>3. pc'[p] # "install"
  BY <1>1, ReturnType DEF TableInv
<1>4. pc[p] \notin {"start", "idle"}
  BY <1>1
<1> QED BY <1>2, <1>3, <1>4, GoesActive DEF Leaves

----------------------------------------------------------------------------
(* What the step before has loaded *)

LoadedRight ==
  \/ ram = Nothing
  \/ \E f, cells, n :
       /\ f.minor = lookup[ram.path] /\ cells = ram.cells /\ n = ram.count
       /\ HasRead(f, cells, n)

LEMMA LoadLoads ==
  ASSUME VolumeTyped, Same, NEW p \in Program, cli_bload(p) PROVE LoadedRight'
<1>1. PICK path \in Paths, count \in Counts :
        ram' = [path |-> path, count |-> count,
                cells |-> read(Opened(lookup[path]), count).cells]
  BY Zenon DEF cli_bload
<1>2. lookup' = lookup
  BY Zenon DEF cli_bload
<1>3. PICK ent : ent = lookup[path]
  OBVIOUS
<1>4. PICK r : r = read(Opened(ent), count)
  OBVIOUS
<1>5. PICK f, cells, x : f = r.f /\ cells = r.cells
                         /\ x = [path |-> path, count |-> count, cells |-> cells]
  OBVIOUS
<1>6. count \in Nat
  BY FilesAssumption
<1>7. f.minor = ent /\ HasRead(f, cells, count)
  BY <1>4, <1>5, <1>6, LoadRight
<1>8. HasRead(f, cells, count)'
  BY <1>7, HasReadSame
<1>9. ram' = x
  BY <1>1, <1>3, <1>4, <1>5, Zenon
<1>10. x.path = path /\ x.cells = cells /\ x.count = count
  BY <1>5
<1>11. f.minor = lookup'[ram'.path] /\ cells = ram'.cells /\ count = ram'.count
  BY <1>2, <1>3, <1>7, <1>9, <1>10
<1> QED BY <1>8, <1>11, Zenon DEF LoadedRight

----------------------------------------------------------------------------
(* The invariant *)

FilesInv ==
  VolumeTyped /\ TableInv /\ (\A p \in Program : InstallRight(p)) /\ LoadedRight

LEMMA InitFiles == Init => FilesInv
<1> SUFFICES ASSUME Init PROVE FilesInv
  OBVIOUS
<1>1. \A p \in Program : InstallRight(p)
  <2>1. \A p \in Program : pc[p] # "install"
    BY DEF Init
  <2> QED BY <2>1 DEF InstallRight
<1>2. LoadedRight
  BY DEF Init, LoadedRight
<1> QED BY <1>1, <1>2, InitVolume, InitTable DEF FilesInv

LEMMA LeavesFiles ==
  ASSUME Same, TableInv, \A q \in Program : InstallRight(q), NEW p \in Program, Leaves(p)
  PROVE  TableInv' /\ \A q \in Program : InstallRight(q)'
<1>1. Active(p) /\ Orderly(p) /\ pc'[p] # "install"
  BY DEF Leaves
<1> QED BY <1>1, ActiveStep, LeavesRight

LEMMA NextFiles == FilesInv /\ [Next]_vars => FilesInv'
<1> SUFFICES ASSUME FilesInv, [Next]_vars PROVE FilesInv'
  OBVIOUS
<1> USE DEF FilesInv
<1>1. Same /\ VolumeTyped'
  BY StepSame, VolumeStays
<1>2. CASE init_exec
  <2>1. PICK p \in Program : p = "init"
    BY DEF Program
  <2>2. TableInv' /\ Orderly(p) /\ pc'[p] # "install"
    BY <1>2, <2>1, InitExecTable
  <2>3. \A q \in Program : InstallRight(q)'
    BY <1>1, <2>2, LeavesRight
  <2>4. LoadedRight'
    BY <1>2, Zenon DEF init_exec, exec, Unchanged, LoadedRight, Nothing
  <2> QED BY <1>1, <2>2, <2>3, <2>4, Zenon
<1>3. ASSUME NEW p \in Program, Step(p) PROVE FilesInv'
  <2>1. CASE cli_bload(p)
    <3>1. TableInv' /\ \A q \in Program : InstallRight(q)'
      BY <1>1, <2>1, LoadTable, LeavesFiles
    <3>2. LoadedRight'
      BY <1>1, <2>1, LoadLoads
    <3> QED BY <1>1, <3>1, <3>2, Zenon
  <2>2. CASE ~cli_bload(p)
    <3>1. TableInv' /\ \A q \in Program : InstallRight(q)'
      <4>1. CASE cli_exec(p)
        BY <1>1, <4>1, ExecTable, LeavesFiles
      <4>2. CASE next_line(p)
        BY <1>1, <4>2, NextLineTable, LeavesFiles
      <4>3. CASE other_command(p)
        BY <1>1, <4>3, OtherTable, LeavesFiles
      <4>4. CASE cli_catalog(p)
        BY <1>1, <4>4, CatalogTable, LeavesFiles
      <4>5. CASE catalog_goes_on(p)
        BY <1>1, <4>5, CatalogGoesTable, LeavesFiles
      <4>6. CASE cli_install(p)
        BY <1>1, <4>6, InstallTable
      <4>7. CASE install_goes_on(p)
        BY <1>1, <4>7, InstallGoesTable
      <4>8. CASE install_ends(p)
        BY <1>1, <4>8, InstallEndsTable, LeavesFiles
      <4> QED BY <1>3, <2>2, <4>1, <4>2, <4>3, <4>4, <4>5, <4>6, <4>7, <4>8, Zenon DEF Step
    <3>2. LoadedRight'
      <4>1. ram' = Nothing
        BY <1>3, <2>2, Zenon DEF Step, cli_exec, exec, next_line, other_command, cli_catalog,
          catalog_goes_on, cli_install, install_goes_on, install_ends, Unchanged
      <4> QED BY <4>1, Zenon DEF LoadedRight, Nothing
    <3> QED BY <1>1, <3>1, <3>2, Zenon
  <2> QED BY <2>1, <2>2
<1>4. CASE UNCHANGED vars
  <2>1. /\ file' = file /\ scripts' = scripts /\ pc' = pc /\ job' = job /\ ram' = ram
        /\ place' = place /\ lookup' = lookup
    BY <1>4 DEF vars
  <2>2. TableInv'
    <3>1. \A n \in Fileno : IsFree(n)' <=> IsFree(n)
      BY <2>1 DEF IsFree
    <3>2. Shape'
      BY <2>1 DEF TableInv, Shape
    <3>3. ASSUME NEW q \in Program PROVE ProgramRight(q)'
      BY <2>1, <3>1, Zenon DEF TableInv, Table, ProgramRight
    <3>4. HelloRight' /\ OnlyScriptsStayOpen'
      BY <2>1, <3>1, Zenon DEF TableInv, Table, HelloRight, OnlyScriptsStayOpen
    <3>5. \A n \in Fileno : place'[n] > 0 => ~IsFree(n)'
      BY <2>1, <3>1 DEF TableInv, Table
    <3> QED BY <2>1, <3>2, <3>3, <3>4, <3>5, Zenon DEF TableInv, Table
  <2>3. ASSUME NEW q \in Program PROVE InstallRight(q)'
    BY <1>1, <2>1, HasReadSame, Zenon DEF InstallRight, InstallSectors
  <2>4. LoadedRight'
    BY <1>1, <2>1, HasReadSame, Zenon DEF LoadedRight, Nothing
  <2> QED BY <1>1, <2>2, <2>3, <2>4, Zenon
<1> QED BY <1>2, <1>3, <1>4, Zenon DEF Next

\* In every behaviour the table of FILEs is in order: a FILE is in use while a
\* script or an installation has it, each script and installation has its own,
\* and HELLO has the lowest one (fat.c, stdio.c: fopen, fclose; cli.c).
THEOREM FilesRight == Spec => []FilesInv
<1>1. Init => FilesInv
  BY InitFiles
<1>2. FilesInv /\ [Next]_vars => FilesInv'
  BY NextFiles
<1> QED BY <1>1, <1>2, PTL DEF Spec

\* Only scripts that were executed keep a FILE; bload, catalog and install give
\* theirs back on every way out (cli.c, fat.c).
THEOREM NothingElseStaysOpen == Spec => []OnlyScriptsStayOpen
<1>1. FilesInv => OnlyScriptsStayOpen
  BY DEF FilesInv, TableInv, Table
<1> QED BY <1>1, FilesRight, PTL

\* What install has read is the beginning of the file, however its clusters are
\* chained and whatever the other program did between two sectors (cli.c
\* cli_install, fat.c read).
THEOREM InstalledIsTheFile == Spec => []FileIsInstalled
<1>1. FilesInv => FileIsInstalled
  <2> SUFFICES ASSUME FilesInv, NEW p \in Program, pc[p] = "install",
                      Valid(Cell(file[job[p].f].minor).first_cluster)
               PROVE  job[p].read = Content(file[job[p].f].minor,
                                            (InstallSectors - job[p].left) * SectorSize)
    BY DEF FileIsInstalled
  <2>1. PICK f, cells, n : /\ f = file[job[p].f] /\ cells = job[p].read
                           /\ n = (InstallSectors - job[p].left) * SectorSize
                           /\ HasRead(f, cells, n)
    BY Zenon DEF FilesInv, InstallRight
  <2>2. cells = Content(f.minor, n)
    BY <2>1, HasReadIs DEF FilesInv
  <2> QED BY <2>1, <2>2, Zenon
<1> QED BY <1>1, FilesRight, PTL

\* What bload leaves in memory is the beginning of the file, cut at the size
\* that was asked for or at the end of its chain of clusters, for every table of
\* clusters and every size (cli.c cli_bload, fat.c read).
THEOREM LoadedIsTheFile == Spec => []FileIsLoaded
<1>1. FilesInv => FileIsLoaded
  <2> SUFFICES ASSUME FilesInv, ram.count > 0,
                      Valid(Cell(lookup[ram.path]).first_cluster)
               PROVE  ram.cells = Content(lookup[ram.path], ram.count)
    BY Zenon DEF FileIsLoaded
  <2>1. ram # Nothing
    BY DEF Nothing
  <2>2. PICK f, cells, n : /\ f.minor = lookup[ram.path] /\ cells = ram.cells /\ n = ram.count
                           /\ HasRead(f, cells, n)
    BY <2>1, Zenon DEF FilesInv, LoadedRight
  <2>3. cells = Content(f.minor, n)
    BY <2>2, HasReadIs DEF FilesInv
  <2> QED BY <2>2, <2>3, Zenon
<1> QED BY <1>1, FilesRight, PTL

----------------------------------------------------------------------------
(* The image holds what mount finds in it *)

VolumeWhole ==
  /\ IsFiniteSet(DOMAIN image.cell)
  /\ \A a \in DOMAIN image.cell : a \in Nat /\ a >= Base
  /\ g_filesystem # NotMounted =>
       /\ g_filesystem.p_volume = Base /\ g_filesystem.p_rootdir \in Nat
       /\ g_filesystem.p_rootdir > Base
       /\ image.boot.max_root_dir_ent \in Nat /\ image.boot.max_root_dir_ent > 0
       /\ EndOfRoot = g_filesystem.p_rootdir + image.boot.max_root_dir_ent
       /\ g_filesystem.p_rootdir..EndOfRoot - 1 \subseteq DOMAIN image.cell
       /\ \A c \in Int, n \in 0..SectorSize - 1 :
            Valid(c) => g_filesystem.p_ino + c * SectorSize + n \in DOMAIN image.cell

LEMMA MountIs ==
  ASSUME NEW b, {b.num_fats, b.sectors_per_fat, b.max_root_dir_ent, b.num_sectors} \subseteq Nat,
         mount(b) # NotMounted
  PROVE  /\ mount(b).p_volume = Base /\ mount(b).p_rootdir \in Nat /\ mount(b).p_rootdir > Base
         /\ mount(b).p_ino + 2 * SectorSize = mount(b).p_rootdir + b.max_root_dir_ent
         /\ mount(b).p_ino \in Int
<1>1. b.num_fats \in Nat /\ b.sectors_per_fat \in Nat /\ b.max_root_dir_ent \in Nat
  OBVIOUS
<1>2. b.num_fats * b.sectors_per_fat \in Nat
  BY <1>1
<1>3. PICK k \in Nat : k = b.num_fats * b.sectors_per_fat
  BY <1>2
<1>4. PICK x \in Nat : x = (1 + k) * SectorSize /\ x > 0
  <2>1. (1 + k) * SectorSize = SectorSize + k * SectorSize /\ k * SectorSize \in Nat
    BY Sizes
  <2>2. (1 + k) * SectorSize \in Nat /\ (1 + k) * SectorSize > 0
    BY <2>1, Sizes
  <2> QED BY <2>2
<1>5. PICK root, ino : root = Base + x /\ ino = root + b.max_root_dir_ent - 2 * SectorSize
  OBVIOUS
<1>6. /\ mount(b).p_volume = Base /\ mount(b).p_rootdir = root /\ mount(b).p_ino = ino
  BY <1>3, <1>4, <1>5 DEF mount
<1>7. /\ root \in Nat /\ root > Base /\ ino \in Int
      /\ ino + 2 * SectorSize = root + b.max_root_dir_ent
  BY <1>1, <1>4, <1>5, FatAssumption
<1> QED BY <1>6, <1>7

LEMMA InitWhole == Init => VolumeWhole
<1> SUFFICES ASSUME Init PROVE VolumeWhole
  OBVIOUS
<1>1. image \in Images /\ g_filesystem = mount(image.boot)
  BY DEF Init
<1>2. PICK b : b = image.boot
  OBVIOUS
<1>3. /\ {b.num_fats, b.sectors_per_fat, b.max_root_dir_ent, b.num_sectors} \subseteq Nat
      /\ IsFiniteSet(DOMAIN image.cell)
      /\ \A a \in DOMAIN image.cell : a \in Nat /\ a >= Base
  BY <1>1, <1>2, FilesAssumption, DirectoryAssumption
<1>4. ASSUME g_filesystem # NotMounted
      PROVE  /\ b.max_root_dir_ent > 0
             /\ g_filesystem.p_rootdir..g_filesystem.p_ino + 2 * SectorSize - 1
                  \subseteq DOMAIN image.cell
             /\ \A c \in 2..g_filesystem.n_fatent - 1, n \in 0..SectorSize - 1 :
                  g_filesystem.p_ino + c * SectorSize + n \in DOMAIN image.cell
  BY <1>1, <1>2, <1>4, FilesAssumption, DirectoryAssumption, Zenon
<1>5. ASSUME g_filesystem # NotMounted
      PROVE  /\ g_filesystem.p_volume = Base /\ g_filesystem.p_rootdir \in Nat
             /\ g_filesystem.p_rootdir > Base
             /\ EndOfRoot = g_filesystem.p_rootdir + b.max_root_dir_ent
  BY <1>1, <1>2, <1>3, <1>5, MountIs DEF EndOfRoot
<1>6. \A c \in Int : Valid(c) => c \in 2..g_filesystem.n_fatent - 1
  <2>1. g_filesystem.n_fatent \in Int
    BY <1>1, <1>2, <1>3, MountType
  <2> QED BY <2>1 DEF Valid
<1>7. b.max_root_dir_ent \in Nat
  BY <1>3
<1>8. ASSUME g_filesystem # NotMounted, NEW c \in Int, NEW n \in 0..SectorSize - 1, Valid(c)
      PROVE  g_filesystem.p_ino + c * SectorSize + n \in DOMAIN image.cell
  BY <1>4, <1>6, <1>8
<1>9. ASSUME g_filesystem # NotMounted
      PROVE  g_filesystem.p_rootdir..EndOfRoot - 1 \subseteq DOMAIN image.cell
  <2>1. g_filesystem.p_ino \in Int
    BY <1>1, <1>2, <1>3, <1>9, MountIs
  <2>2. EndOfRoot - 1 = g_filesystem.p_ino + 2 * SectorSize - 1
    BY <2>1, FatAssumption DEF EndOfRoot
  <2> QED BY <1>4, <1>9, <2>2, Zenon
<1> QED BY <1>2, <1>3, <1>4, <1>5, <1>7, <1>8, <1>9 DEF VolumeWhole

LEMMA WholeStays == VolumeWhole /\ Same => VolumeWhole'
BY DEF VolumeWhole, Same, EndOfRoot, Valid, NotMounted

----------------------------------------------------------------------------
(* The walk through a directory *)

IsWalk(h, g, x, n) == h = [k \in 0..n |-> IF k = 0 THEN x ELSE g[h[k - 1]]]

LEMMA WalkSome ==
  ASSUME NEW n \in Nat, NEW g, NEW x
  PROVE  \E h : IsWalk(h, g, x, n)
<1> DEFINE S == {k \in Nat : \E h : IsWalk(h, g, x, k)}
<1>1. 0 \in S
  <2> DEFINE h == [i \in 0..0 |-> x]
  <2>1. \A i \in 0..0 : h[i] = IF i = 0 THEN x ELSE g[h[i - 1]]
    OBVIOUS
  <2>2. h = [i \in 0..0 |-> h[i]]
    OBVIOUS
  <2> HIDE DEF h
  <2>3. IsWalk(h, g, x, 0)
    BY <2>1, <2>2 DEF IsWalk
  <2> QED BY <2>3
<1>2. ASSUME NEW k \in S PROVE k + 1 \in S
  <2>1. PICK h : IsWalk(h, g, x, k)
    OBVIOUS
  <2> DEFINE e == [i \in 0..k + 1 |-> IF i <= k THEN h[i] ELSE g[h[k]]]
  <2>2. ASSUME NEW i \in 0..k + 1 PROVE e[i] = IF i = 0 THEN x ELSE g[e[i - 1]]
    <3>1. CASE i = 0
      BY <2>1, <3>1 DEF IsWalk
    <3>2. CASE i # 0 /\ i <= k
      <4>1. h[i] = g[h[i - 1]] /\ i - 1 \in 0..k + 1 /\ i - 1 <= k
        BY <2>1, <3>2 DEF IsWalk
      <4> QED BY <3>2, <4>1
    <3>3. CASE i = k + 1
      BY <3>3
    <3> QED BY <3>1, <3>2, <3>3
  <2>3. DOMAIN e = 0..k + 1 /\ e = [i \in 0..k + 1 |-> e[i]]
    OBVIOUS
  <2> HIDE DEF e
  <2>4. IsWalk(e, g, x, k + 1)
    BY <2>2, <2>3 DEF IsWalk
  <2> QED BY <2>4
<1>3. S \in SUBSET Nat
  OBVIOUS
<1> HIDE DEF S
<1>4. S = Nat
  BY <1>1, <1>2, <1>3, Induction
<1> QED BY <1>4 DEF S

Cells0 == Cardinality(DOMAIN image.cell)

LEMMA CallsIs == VolumeWhole => Cells0 \in Nat /\ Calls = 0..Cells0 + 1
BY FS_CardinalityType DEF VolumeWhole, Calls, Cells0

LEMMA WalkIs ==
  ASSUME VolumeWhole, NEW dir
  PROVE  /\ walk(dir)[0] = dir.next_d
         /\ \A n \in Calls : n > 0 => walk(dir)[n] = advance(dir.this_d)[walk(dir)[n - 1]]
<1>1. PICK g, x : g = advance(dir.this_d) /\ x = dir.next_d
  OBVIOUS
<1>2. PICK N \in Nat : Calls = 0..N
  BY CallsIs
<1> DEFINE Is(h) == h = [n \in Calls |-> IF n = 0 THEN dir.next_d ELSE advance(dir.this_d)[h[n - 1]]]
           chosen == CHOOSE h : Is(h)
<1>3. \E h : Is(h)
  <2>1. PICK h : IsWalk(h, g, x, N)
    BY <1>2, WalkSome
  <2>2. h = [n \in Calls |-> IF n = 0 THEN dir.next_d ELSE advance(dir.this_d)[h[n - 1]]]
    BY <1>1, <1>2, <2>1, Zenon DEF IsWalk
  <2> QED BY <2>2
<1>4. \A n : walk(dir)[n] = chosen[n]
  BY Zenon DEF walk
<1> HIDE DEF Is
<1>5. Is(chosen)
  BY <1>3
<1> HIDE DEF chosen
<1>6. \A n \in Calls : chosen[n] = IF n = 0 THEN dir.next_d ELSE advance(dir.this_d)[chosen[n - 1]]
  BY <1>5 DEF Is
<1>7. 0 \in Calls
  BY <1>2
<1> QED BY <1>2, <1>4, <1>6, <1>7


\* Where a stream stands that has come to the place b of the root directory.
Held(b) == IF b = EndOfRoot THEN NULL ELSE b

Mounted == VolumeTyped /\ VolumeWhole /\ g_filesystem # NotMounted

LEMMA RootBounds ==
  ASSUME Mounted
  PROVE  /\ g_filesystem.p_rootdir \in Nat /\ EndOfRoot \in Nat
         /\ g_filesystem.p_rootdir > 0 /\ EndOfRoot > g_filesystem.p_rootdir
         /\ g_filesystem.p_volume = Base /\ g_filesystem.p_volume # NULL
         /\ image.boot.max_root_dir_ent \in Nat
         /\ EndOfRoot = g_filesystem.p_rootdir + image.boot.max_root_dir_ent
         /\ g_filesystem.p_rootdir..EndOfRoot - 1 \subseteq DOMAIN image.cell
BY FatAssumption DEF Mounted, VolumeWhole, NULL

LEMMA EndAligned == ASSUME Mounted PROVE cluster_offset(EndOfRoot) = 0
<1>1. PICK i \in Int : i = g_filesystem.p_ino
  BY DEF Mounted, VolumeTyped
<1>2. PICK d \in Nat : d = SectorSize /\ d > 0
  BY Sizes
<1>3. EndOfRoot - i = 2 * d
  BY <1>1, <1>2 DEF EndOfRoot
<1>4. (2 * d) % d = 0
  <2>1. PICK p \in Nat : p = 2 * d
    BY <1>2
  <2>2. p \div d \in Nat /\ p % d \in 0..d - 1 /\ p = (p \div d) * d + (p % d)
    BY <1>2, Division
  <2>3. PICK q \in Nat, r \in Nat : q = p \div d /\ r = p % d /\ r < d /\ p = q * d + r
    BY <2>2
  <2>4. q * d + r = 2 * d + 0
    BY <2>1, <2>3
  <2>5. r = 0
    BY <1>2, <2>3, <2>4, DivisionUnique
  <2> QED BY <2>1, <2>3, <2>5
<1> QED BY <1>1, <1>2, <1>3, <1>4 DEF cluster_offset

LEMMA RootStep ==
  ASSUME Mounted, NEW a \in g_filesystem.p_rootdir..EndOfRoot - 1
  PROVE  advance(g_filesystem.p_volume)[a] = Held(a + 1)
<1>1. a \in DOMAIN image.cell \cup {NULL} /\ a # NULL /\ a \in Nat /\ a + 1 <= EndOfRoot
      /\ EndOfRoot \in Nat
  BY RootBounds DEF NULL
<1>2. a + 1 = EndOfRoot => cluster_offset(a + 1) = 0
  BY EndAligned
<1>3. advance(g_filesystem.p_volume)[a] =
        IF cluster_offset(a + 1) # 0 THEN a + 1
        ELSE IF a + 1 >= EndOfRoot THEN NULL ELSE a + 1
  BY <1>1 DEF advance
<1>4. CASE a + 1 = EndOfRoot
  BY <1>1, <1>2, <1>3, <1>4 DEF Held
<1>5. CASE a + 1 # EndOfRoot
  <2>1. ~(a + 1 >= EndOfRoot)
    BY <1>1, <1>5
  <2> QED BY <1>3, <1>5, <2>1 DEF Held
<1> QED BY <1>4, <1>5

\* A stream on the root directory runs through its entries in their order, and
\* the calls that walk looks at are enough for all of them.
LEMMA RootRun ==
  ASSUME Mounted, NEW b \in g_filesystem.p_rootdir..EndOfRoot,
         NEW dir, dir.this_d = g_filesystem.p_volume, dir.next_d = Held(b)
  PROVE  \A k \in 0..EndOfRoot - b : k \in Calls /\ walk(dir)[k] = Held(b + k)
<1>1. PICK r \in Nat, e \in Nat : r = g_filesystem.p_rootdir /\ e = EndOfRoot /\ r < e
  BY RootBounds
<1>2. Cells0 \in Nat /\ Calls = 0..Cells0 + 1
  BY CallsIs DEF Mounted
<1>3. e - r <= Cells0
  <2>1. IsFiniteSet(DOMAIN image.cell) /\ r..e - 1 \subseteq DOMAIN image.cell
    BY <1>1, RootBounds DEF Mounted, VolumeWhole
  <2>2. Cardinality(r..e - 1) <= Cells0
    BY <2>1, FS_Subset DEF Cells0
  <2>3. Cardinality(r..e - 1) = e - r
    BY <1>1, FS_Interval
  <2> QED BY <2>2, <2>3
<1>4. b \in Nat /\ b >= r /\ b <= e
  BY <1>1
<1>5. \A k \in 0..e - b : k \in Calls
  BY <1>1, <1>2, <1>3, <1>4
<1> DEFINE S == {k \in Nat : k <= e - b => walk(dir)[k] = Held(b + k)}
<1>6. 0 \in S
  <2>1. walk(dir)[0] = dir.next_d
    BY WalkIs DEF Mounted
  <2> QED BY <1>4, <2>1
<1>7. ASSUME NEW k \in S PROVE k + 1 \in S
  <2>1. SUFFICES ASSUME k + 1 <= e - b PROVE walk(dir)[k + 1] = Held(b + (k + 1))
    OBVIOUS
  <2>2. k + 1 \in Calls /\ k + 1 > 0 /\ (k + 1) - 1 = k
    BY <1>1, <1>4, <1>5, <2>1
  <2>3. walk(dir)[k + 1] = advance(g_filesystem.p_volume)[walk(dir)[k]]
    BY <2>2, WalkIs DEF Mounted
  <2>4. b + k \in r..e - 1 /\ walk(dir)[k] = b + k /\ b + k + 1 = b + (k + 1)
    <3>1. walk(dir)[k] = Held(b + k) /\ b + k # e /\ b + k \in r..e - 1
      BY <1>1, <1>4, <2>1
    <3> QED BY <1>1, <1>4, <3>1 DEF Held
  <2> QED BY <1>1, <2>3, <2>4, RootStep
<1>8. S \in SUBSET Nat
  OBVIOUS
<1> HIDE DEF S
<1>9. S = Nat
  BY <1>6, <1>7, <1>8, Induction
<1> QED BY <1>1, <1>4, <1>5, <1>9 DEF S

LEMMA FirstAtEnd ==
  ASSUME NEW at, NEW j \in Nat, j \in Calls, AtEnd(at[j]), \A k \in 0..j - 1 : ~AtEnd(at[k])
  PROVE  First(AtEnd, at) = j
<1> DEFINE Is(n) == n \in Calls /\ AtEnd(at[n]) /\ \A k \in 0..n - 1 : ~AtEnd(at[k])
<1>1. Is(j)
  OBVIOUS
<1>2. ASSUME NEW n, Is(n) PROVE n = j
  <2>1. n \in Nat
    BY <1>2 DEF Calls
  <2>2. ~(n < j) /\ ~(j < n)
    BY <1>1, <1>2, <2>1
  <2> QED BY <2>1, <2>2
<1>3. First(AtEnd, at) = CHOOSE n \in Calls : AtEnd(at[n]) /\ \A k \in 0..n - 1 : ~AtEnd(at[k])
  BY <1>1, Zenon DEF First
<1> QED BY <1>1, <1>2, <1>3

LEMMA FirstShown ==
  ASSUME NEW at, NEW j \in Nat, j \in Calls, IsShown(at[j]), \A k \in 0..j - 1 : ~IsShown(at[k])
  PROVE  First(IsShown, at) = j
<1> DEFINE Is(n) == n \in Calls /\ IsShown(at[n]) /\ \A k \in 0..n - 1 : ~IsShown(at[k])
<1>1. Is(j)
  OBVIOUS
<1>2. ASSUME NEW n, Is(n) PROVE n = j
  <2>1. n \in Nat
    BY <1>2 DEF Calls
  <2>2. ~(n < j) /\ ~(j < n)
    BY <1>1, <1>2, <2>1
  <2> QED BY <2>1, <2>2
<1>3. First(IsShown, at) = CHOOSE n \in Calls : IsShown(at[n]) /\ \A k \in 0..n - 1 : ~IsShown(at[k])
  BY <1>1, Zenon DEF First
<1> QED BY <1>1, <1>2, <1>3

\* The root directory ends at e: at its first entry that was never used, or at
\* the end of its sectors.
RootEnds(e) ==
  /\ e \in g_filesystem.p_rootdir..EndOfRoot
  /\ \A b \in g_filesystem.p_rootdir..e - 1 : Cell(b).filename # NUL
  /\ e # EndOfRoot => Cell(e).filename = NUL

LEMMA EndSome == ASSUME Mounted PROVE \E e : RootEnds(e)
<1>1. PICK r \in Nat, n \in Nat : r = g_filesystem.p_rootdir /\ n = EndOfRoot /\ r < n
  BY RootBounds
<1> DEFINE S == {b \in r..n : b = n \/ Cell(b).filename = NUL}
<1>2. S \in SUBSET Nat /\ n \in S
  BY <1>1
<1>3. PICK e \in S : \A b \in S : e <= b
  <2> HIDE DEF S
  <2> QED BY <1>2, Smallest
<1>4. ASSUME NEW b \in r..e - 1 PROVE Cell(b).filename # NUL
  <2>1. b \notin S /\ b \in r..n
    BY <1>1, <1>3
  <2> QED BY <2>1
<1>5. e \in r..n /\ (e # n => Cell(e).filename = NUL)
  BY <1>3
<1>6. RootEnds(e)
  BY <1>1, <1>4, <1>5 DEF RootEnds
<1> QED BY <1>6

LEMMA RootCells ==
  ASSUME Mounted, NEW e, RootEnds(e)
  PROVE  CellsFrom(g_filesystem.p_rootdir, image.boot.max_root_dir_ent)
           = g_filesystem.p_rootdir..e - 1
<1>1. PICK r \in Nat, n \in Nat, m \in Nat :
        /\ r = g_filesystem.p_rootdir /\ n = EndOfRoot /\ m = image.boot.max_root_dir_ent
        /\ r < n /\ n = r + m
  BY RootBounds
<1>2. /\ e \in r..n /\ e \in Nat
      /\ \A b \in r..e - 1 : Cell(b).filename # NUL
      /\ e # n => Cell(e).filename = NUL
  BY <1>1 DEF RootEnds
<1>3. ASSUME NEW b \in r..e - 1
      PROVE  b \in r..r + m - 1 /\ \A c \in r..b : Cell(c).filename # NUL
  BY <1>1, <1>2
<1>4. ASSUME NEW b \in r..r + m - 1, \A c \in r..b : Cell(c).filename # NUL
      PROVE  b \in r..e - 1
  <2>1. CASE b >= e
    <3>1. e \in r..b /\ e # n
      BY <1>1, <1>2, <2>1
    <3> QED BY <1>2, <1>4, <3>1
  <2>2. CASE b < e
    BY <1>1, <1>2, <2>2
  <2> QED BY <1>1, <1>2, <2>1, <2>2
<1>5. CellsFrom(r, m) = r..e - 1
  BY <1>3, <1>4 DEF CellsFrom
<1> QED BY <1>1, <1>5

LEMMA EndHeld ==
  ASSUME Mounted, NEW e, RootEnds(e), NEW b \in g_filesystem.p_rootdir..e
  PROVE  /\ AtEnd(Held(b)) <=> b = e
         /\ b # e => Held(b) = b
<1>1. PICK r \in Nat, n \in Nat : r = g_filesystem.p_rootdir /\ n = EndOfRoot /\ r > 0
  BY RootBounds
<1>2. e \in r..n /\ b \in r..e /\ b # NULL
  BY <1>1 DEF RootEnds, NULL
<1>3. CASE b = e
  BY <1>1, <1>3 DEF Held, AtEnd, RootEnds
<1>4. CASE b # e
  <2>1. b # n /\ b \in r..e - 1
    BY <1>1, <1>2, <1>4
  <2>2. Cell(b).filename # NUL
    BY <1>1, <2>1 DEF RootEnds
  <2> QED BY <1>1, <1>2, <1>4, <2>1, <2>2 DEF Held, AtEnd
<1> QED BY <1>3, <1>4

\* What a catalog of the root directory comes to next: the first place from b on
\* that is no label, or the end.
LEMMA NextShown ==
  ASSUME Mounted, NEW e, RootEnds(e), NEW b \in g_filesystem.p_rootdir..e,
         NEW dir, dir.this_d = g_filesystem.p_volume, dir.next_d = Held(b)
  PROVE  \E c \in b..e : /\ walk(dir)[First(IsShown, walk(dir))] = Held(c)
                         /\ \A d \in b..c - 1 : IsVolume(d)
                         /\ c # e => ~IsVolume(c)
<1>1. PICK r \in Nat, n \in Nat : r = g_filesystem.p_rootdir /\ n = EndOfRoot /\ r > 0
  BY RootBounds
<1>2. e \in r..n /\ b \in r..e /\ b \in Nat /\ e \in Nat
  BY <1>1 DEF RootEnds
<1> DEFINE S == {c \in b..e : c = e \/ ~IsVolume(c)}
<1>3. S \in SUBSET Nat /\ e \in S
  BY <1>2
<1>4. PICK c \in S : \A d \in S : c <= d
  <2> HIDE DEF S
  <2> QED BY <1>3, Smallest
<1>5. c \in b..e /\ c \in Nat /\ (c # e => ~IsVolume(c))
  BY <1>2, <1>4
<1>6. ASSUME NEW d \in b..c - 1 PROVE IsVolume(d) /\ d \in r..e /\ d # e
  <2>1. d \in b..e /\ d \notin S
    BY <1>2, <1>4, <1>5
  <2> QED BY <1>2, <2>1
<1> HIDE DEF S
<1>7. b \in g_filesystem.p_rootdir..EndOfRoot
  BY <1>1, <1>2
<1>8. PICK at : at = walk(dir)
  OBVIOUS
<1>9. \A k \in 0..n - b : k \in Calls /\ at[k] = Held(b + k)
  BY <1>1, <1>7, <1>8, RootRun
<1>10. PICK j \in Nat : j = c - b /\ j \in 0..n - b
  BY <1>1, <1>2, <1>5
<1>11. at[j] = Held(c) /\ j \in Calls
  <2>1. b + j = c
    BY <1>2, <1>5, <1>10
  <2> QED BY <1>9, <1>10, <2>1
<1>12. IsShown(at[j])
  <2>1. CASE c = e
    <3>1. AtEnd(Held(c))
      BY <1>1, <1>2, <2>1, EndHeld
    <3> QED BY <1>11, <3>1 DEF IsShown
  <2>2. CASE c # e
    <3>1. Held(c) = c /\ ~IsVolume(c)
      <4>1. c \in g_filesystem.p_rootdir..e
        BY <1>1, <1>2, <1>5
      <4> QED BY <1>5, <2>2, <4>1, EndHeld
    <3> QED BY <1>11, <3>1 DEF IsShown
  <2> QED BY <2>1, <2>2
<1>13. ASSUME NEW k \in 0..j - 1 PROVE ~IsShown(at[k])
  <2>1. PICK d \in b..c - 1 : d = b + k /\ k \in 0..n - b
    BY <1>1, <1>2, <1>5, <1>10
  <2>2. at[k] = Held(d) /\ IsVolume(d) /\ d # e /\ d \in g_filesystem.p_rootdir..e
    BY <1>1, <1>6, <1>9, <2>1
  <2>3. Held(d) = d /\ ~AtEnd(Held(d))
    BY <2>2, EndHeld
  <2> QED BY <2>2, <2>3 DEF IsShown
<1>14. First(IsShown, at) = j
  BY <1>11, <1>12, <1>13, FirstShown
<1> QED BY <1>5, <1>6, <1>8, <1>11, <1>14

----------------------------------------------------------------------------
(* What a program does next *)

\* A step that only its own program moves by, and not into a catalog.
Goes(p) == \E x : pc' = [pc EXCEPT ![p] = x] /\ x # "catalog"

LEMMA ReturnGoes == ASSUME NEW p, Return(p) PROVE Goes(p)
<1>1. PICK x : x = Back(p, scripts[p])
  OBVIOUS
<1>2. x # "catalog" /\ pc' = [pc EXCEPT ![p] = x]
  BY <1>1 DEF Return, Back
<1> QED BY <1>2, Zenon DEF Goes

LEMMA LineGoes == ASSUME NEW p, NEW n, NEW f, NEW stack, NextLine(p, n, f, stack) PROVE Goes(p)
<1>1. PICK ends \in BOOLEAN : ends = (fgetc(f) # EOF /\ Cell(fgetc(f)).filename = NUL)
  OBVIOUS
<1>2. PICK after : after = IF ends THEN SubSeq(stack, 1, Len(stack) - 1) ELSE stack
  OBVIOUS
<1>3. PICK x : x = IF ends THEN Back(p, after) ELSE IF fgetc(f) = EOF THEN "unknown" ELSE "command"
  OBVIOUS
<1>4. pc' = [pc EXCEPT ![p] = x]
  BY <1>1, <1>2, <1>3, Zenon DEF NextLine
<1>5. x # "catalog"
  BY <1>1, <1>3 DEF Back
<1> QED BY <1>4, <1>5, Zenon DEF Goes

LEMMA ExecGoes == ASSUME NEW p, NEW path, exec(p, path) PROVE Goes(p)
<1>1. CASE CanOpen(path)
  <2>1. PICK n, f, stack : NextLine(p, n, f, stack)
    BY <1>1, Zenon DEF exec
  <2> QED BY <2>1, LineGoes
<1>2. CASE ~CanOpen(path)
  <2>1. Return(p)
    BY <1>2, Zenon DEF exec
  <2> QED BY <2>1, ReturnGoes
<1> QED BY <1>1, <1>2

LEMMA StepGoes ==
  ASSUME NEW p, Step(p), ~cli_catalog(p), ~catalog_goes_on(p) PROVE Goes(p)
<1>1. CASE cli_exec(p)
  BY <1>1, ExecGoes, Zenon DEF cli_exec
<1>2. CASE next_line(p)
  <2>1. PICK n, f, stack : NextLine(p, n, f, stack)
    BY <1>2, Zenon DEF next_line
  <2> QED BY <2>1, LineGoes
<1>3. CASE other_command(p) \/ cli_bload(p) \/ install_ends(p)
  <2>1. Return(p)
    BY <1>3, Zenon DEF other_command, cli_bload, install_ends
  <2> QED BY <2>1, ReturnGoes
<1>4. CASE cli_install(p) \/ install_goes_on(p)
  <2>1. PICK n, f, src, left : install_sector(p, n, f, src, left)
    BY <1>4, Zenon DEF cli_install, install_goes_on
  <2>2. pc' = [pc EXCEPT ![p] = "install"]
    BY <2>1, Zenon DEF install_sector
  <2>3. "install" # "catalog"
    OBVIOUS
  <2> QED BY <2>2, <2>3, Zenon DEF Goes
<1> QED BY <1>1, <1>2, <1>3, <1>4, Zenon DEF Step

LEMMA StepRuns == ASSUME NEW p, Step(p) PROVE Runs(p)
BY Zenon DEF Step, Starts, cli_exec, next_line, other_command, cli_bload, cli_catalog,
  catalog_goes_on, cli_install, install_goes_on, install_ends

LEMMA ListMoves ==
  ASSUME NEW p, NEW n, NEW dir, NEW shown, List(p, n, dir, shown)
  PROVE  \E x : pc' = [pc EXCEPT ![p] = x]
BY Zenon DEF List, Return

\* Another step than one of the typed program leaves it where it is, and while a
\* catalog was typed there is no other but the one that goes on with it.
LEMMA CatalogRuns ==
  ASSUME TableInv, Next, pc["tty"] = "catalog"
  PROVE  catalog_goes_on("tty")
<1>1. ~init_exec
  BY DEF init_exec, TableInv, Table, HelloRight
<1>2. PICK p \in Program : Step(p)
  BY <1>1, Zenon DEF Next
<1>3. p = "tty"
  <2>1. Runs(p)
    BY <1>2, StepRuns
  <2> QED BY <2>1 DEF Runs, Program
<1>4. ~Starts(p)
  BY <1>3 DEF Starts
<1>5. ~next_line(p) /\ ~other_command(p) /\ ~install_goes_on(p) /\ ~install_ends(p)
  BY <1>3 DEF next_line, other_command, install_goes_on, install_ends
<1>6. catalog_goes_on(p)
  BY <1>2, <1>4, <1>5, Zenon DEF Step, cli_exec, cli_bload, cli_catalog, cli_install
<1> QED BY <1>3, <1>6

\* A catalog is typed by the step that starts it, or one that goes on with it.
LEMMA CatalogBegins ==
  ASSUME TableInv, Next, pc'["tty"] = "catalog", pc["tty"] # "catalog"
  PROVE  cli_catalog("tty")
<1>1. ASSUME NEW p \in Program, NEW x, pc' = [pc EXCEPT ![p] = x]
      PROVE  p = "tty" /\ x = "catalog"
  BY <1>1 DEF TableInv, Shape, Program
<1>2. "init" \in Program
  BY DEF Program
<1>3. ASSUME NEW p \in Program, Goes(p) PROVE FALSE
  BY <1>1, <1>3 DEF Goes
<1>4. ~init_exec
  BY <1>2, <1>3, ExecGoes, Zenon DEF init_exec
<1>5. PICK p \in Program : Step(p)
  BY <1>4, Zenon DEF Next
<1>6. cli_catalog(p) \/ catalog_goes_on(p)
  BY <1>3, <1>5, StepGoes
<1>7. p = "tty"
  <2>1. PICK n, dir, shown : List(p, n, dir, shown)
    BY <1>6, Zenon DEF cli_catalog, catalog_goes_on
  <2>2. \E x : pc' = [pc EXCEPT ![p] = x]
    BY <2>1, ListMoves
  <2> QED BY <1>1, <2>2
<1>8. ~catalog_goes_on(p)
  BY <1>7 DEF catalog_goes_on
<1> QED BY <1>6, <1>7, <1>8

----------------------------------------------------------------------------
(* A typed catalog *)

LEMMA MovedPlace ==
  ASSUME NEW f, IsFILE(f), NEW h, NEW t
  PROVE  Moved(f, h, t).head = h /\ Moved(f, h, t).tail = t
<1>1. PICK d, m, l, b, x, y :
        f = [device |-> d, minor |-> m, loc |-> l, buffer |-> b, head |-> x, tail |-> y]
  BY DEF IsFILE
<1>2. [f EXCEPT !.head = h] =
        [device |-> d, minor |-> m, loc |-> l, buffer |-> b, head |-> h, tail |-> y]
  BY <1>1
<1>3. PICK e : e = [f EXCEPT !.head = h]
  OBVIOUS
<1>4. [e EXCEPT !.tail = t] =
        [device |-> d, minor |-> m, loc |-> l, buffer |-> b, head |-> h, tail |-> t]
  <2>1. e = [device |-> d, minor |-> m, loc |-> l, buffer |-> b, head |-> h, tail |-> y]
    BY <1>2, <1>3
  <2> QED BY <2>1
<1>5. Moved(f, h, t) = [[f EXCEPT !.head = h] EXCEPT !.tail = t]
  BY <1>1 DEF Moved
<1>6. PICK g : g = [e EXCEPT !.tail = t]
  OBVIOUS
<1>7. g.head = h /\ g.tail = t
  BY <1>4, <1>6
<1> QED BY <1>3, <1>5, <1>6, <1>7, Zenon

\* What has been shown when a catalog has come to the place b.
Lists(s, b) ==
  /\ s \in Seq(Int)
  /\ \A a : a \in {s[i] : i \in DOMAIN s} <=> a \in g_filesystem.p_rootdir..b - 1 /\ ~IsVolume(a)
  /\ \A i \in 2..Len(s) : s[i - 1] < s[i]

LEMMA ListsNone == ASSUME Mounted PROVE Lists(<<>>, g_filesystem.p_rootdir)
<1>1. g_filesystem.p_rootdir \in Nat
  BY RootBounds
<1> QED BY <1>1 DEF Lists

LEMMA ListsNext ==
  ASSUME Mounted, NEW b \in Nat, b >= g_filesystem.p_rootdir, NEW c \in Nat, b <= c,
         \A d \in b..c - 1 : IsVolume(d), ~IsVolume(c), NEW s, Lists(s, b)
  PROVE  Lists(Append(s, c), c + 1)
<1>1. PICK r \in Nat : r = g_filesystem.p_rootdir
  BY RootBounds
<1>2. PICK t \in Seq(Int), n \in Nat : t = Append(s, c) /\ n = Len(s)
  <2>1. s \in Seq(Int) /\ c \in Int
    BY DEF Lists
  <2>2. Append(s, c) \in Seq(Int) /\ Len(s) \in Nat
    BY <2>1, AppendProperties, LenProperties
  <2> QED BY <2>2
<1>3. /\ t \in Seq(Int) /\ Len(t) = n + 1 /\ t[n + 1] = c /\ \A i \in 1..n : t[i] = s[i]
      /\ DOMAIN t = 1..n + 1 /\ DOMAIN s = 1..n
  BY <1>2 DEF Lists
<1>4. \A i \in 1..n : s[i] \in r..b - 1 /\ ~IsVolume(s[i])
  BY <1>1, <1>3 DEF Lists
<1>5. ASSUME NEW a, a \in {t[i] : i \in DOMAIN t} PROVE a \in r..c /\ ~IsVolume(a)
  <2>1. PICK i \in 1..n + 1 : a = t[i]
    BY <1>3, <1>5
  <2>2. CASE i = n + 1
    BY <1>1, <1>3, <2>1, <2>2
  <2>3. CASE i \in 1..n
    BY <1>1, <1>3, <1>4, <2>1, <2>3
  <2> QED BY <2>1, <2>2, <2>3
<1>6. ASSUME NEW a \in r..c, ~IsVolume(a) PROVE a \in {t[i] : i \in DOMAIN t}
  <2>1. CASE a = c
    BY <1>3, <2>1
  <2>2. CASE a # c
    <3>1. a \notin b..c - 1
      BY <1>6
    <3>2. a \in r..b - 1
      BY <1>1, <2>2, <3>1
    <3>3. PICK i \in 1..n : a = s[i]
      BY <1>1, <1>3, <1>6, <3>2, SMTT(40) DEF Lists
    <3>4. i \in DOMAIN t /\ a = t[i]
      BY <1>3, <3>3
    <3> QED BY <3>4, Zenon
  <2> QED BY <2>1, <2>2
<1>7. ASSUME NEW i \in 2..Len(t) PROVE t[i - 1] < t[i]
  <2>1. CASE i = n + 1
    <3>1. i - 1 \in 1..n /\ t[i - 1] = s[i - 1]
      BY <1>3, <1>7, <2>1
    <3> QED BY <1>1, <1>3, <1>4, <2>1, <3>1
  <2>2. CASE i # n + 1
    <3>1. i \in 2..n /\ i - 1 \in 1..n /\ i \in 1..n
      BY <1>3, <1>7, <2>2
    <3> QED BY <1>2, <1>3, <3>1 DEF Lists
  <2> QED BY <2>1, <2>2
<1>8. r..(c + 1) - 1 = r..c
  BY <1>1
<1>9. \A a : a \in {t[i] : i \in DOMAIN t} <=> a \in r..(c + 1) - 1 /\ ~IsVolume(a)
  BY <1>5, <1>6, <1>8, Zenon
<1>10. Lists(t, c + 1)
  <2>1. \A a : a \in {t[i] : i \in DOMAIN t}
             <=> a \in g_filesystem.p_rootdir..(c + 1) - 1 /\ ~IsVolume(a)
    BY <1>1, <1>9, Zenon
  <2> QED BY <1>3, <1>7, <2>1, Zenon DEF Lists
<1> QED BY <1>2, <1>10

\* A typed catalog stands at a place of the root directory before its end, and
\* has shown what is before it.
StandsAt(f, e, b) ==
  /\ RootEnds(e) /\ b \in g_filesystem.p_rootdir..e
  /\ f.head = g_filesystem.p_volume /\ f.tail = Held(b)

TypedListing ==
  pc["tty"] = "catalog" =>
    /\ Mounted
    /\ \E e, b, f, s : /\ f = file[job["tty"].f] /\ s = job["tty"].shown
                       /\ StandsAt(f, e, b) /\ Lists(s, b)

\* What one step of a typed catalog does.
LEMMA ListShows ==
  ASSUME Mounted, Shape, NEW n \in Fileno, NEW e, RootEnds(e),
         NEW b \in g_filesystem.p_rootdir..e,
         NEW dir, dir = [this_d |-> g_filesystem.p_volume, next_d |-> Held(b)],
         NEW s, Lists(s, b), List("tty", n, dir, s)
  PROVE  \/ pc'["tty"] # "catalog" /\ \A d \in b..e - 1 : IsVolume(d)
         \/ /\ pc'["tty"] = "catalog" /\ job'["tty"].f = n
            /\ \E k, g, t : /\ g = file'[n] /\ t = job'["tty"].shown
                            /\ StandsAt(g, e, k) /\ Lists(t, k)
<1>1. PICK c \in b..e : /\ walk(dir)[First(IsShown, walk(dir))] = Held(c)
                        /\ \A d \in b..c - 1 : IsVolume(d)
                        /\ c # e => ~IsVolume(c)
  BY NextShown
<1>2. PICK r \in Nat, z \in Nat : r = g_filesystem.p_rootdir /\ z = EndOfRoot
  BY RootBounds
<1>3. /\ b \in Nat /\ e \in Nat /\ c \in Nat /\ r <= b /\ b <= c /\ c <= e /\ e <= z
      /\ c \in g_filesystem.p_rootdir..e
  BY <1>1, <1>2 DEF RootEnds
<1>4. /\ AtEnd(Held(c)) <=> c = e
      /\ c # e => Held(c) = c
  BY <1>3, EndHeld
<1>5. PICK a : a = Held(c) /\ a = walk(dir)[First(IsShown, walk(dir))]
  BY <1>1
<1>6. PICK t : t = advance(dir.this_d)[a]
  OBVIOUS
<1>7. PICK h, next : h = g_filesystem.p_volume /\ next = [dir EXCEPT !.next_d = t]
  OBVIOUS
<1>8. next.this_d = h /\ next.next_d = t /\ dir.this_d = h
  BY <1>7
<1>9. /\ file' = [file EXCEPT ![n] = Moved(file[n], h, t)]
      /\ IF AtEnd(a)
         THEN Return("tty")
         ELSE /\ job' = [job EXCEPT !["tty"] = [f |-> n, shown |-> Append(s, a)]]
              /\ pc' = [pc EXCEPT !["tty"] = "catalog"]
  <2>1. /\ file' = [file EXCEPT ![n] = Directory(n, next)]
        /\ IF AtEnd(a)
           THEN Return("tty")
           ELSE /\ job' = [job EXCEPT !["tty"] = [f |-> n, shown |-> Append(s, a)]]
                /\ pc' = [pc EXCEPT !["tty"] = "catalog"]
    BY <1>5, <1>6, <1>7, Zenon DEF List
  <2>2. Directory(n, next) = Moved(file[n], h, t)
    BY <1>8, Zenon DEF Directory, Moved
  <2> QED BY <2>1, <2>2, Zenon
<1>10. "tty" \in Program
  BY DEF Program
<1>11. CASE c = e
  <2>1. Return("tty")
    BY <1>4, <1>5, <1>9, <1>11
  <2>2. pc'["tty"] # "catalog"
    BY <1>10, <2>1, ReturnType
  <2> QED BY <1>1, <1>11, <2>2
<1>12. CASE c # e
  <2>1. a = c /\ ~AtEnd(a) /\ ~IsVolume(c)
    BY <1>1, <1>4, <1>5, <1>12
  <2>2. PICK u : u = Append(s, c)
    OBVIOUS
  <2>3. PICK j : j = [f |-> n, shown |-> u]
    OBVIOUS
  <2>4. job' = [job EXCEPT !["tty"] = j] /\ pc' = [pc EXCEPT !["tty"] = "catalog"]
    BY <1>9, <2>1, <2>2, <2>3, Zenon
  <2>5. pc'["tty"] = "catalog" /\ job'["tty"] = j
    BY <1>10, <2>4 DEF Shape
  <2>6. j.f = n /\ j.shown = u
    BY <2>3
  <2>7. Lists(u, c + 1)
    BY <1>1, <1>2, <1>3, <2>1, <2>2, ListsNext
  <2>8. t = Held(c + 1)
    <3>1. c \in g_filesystem.p_rootdir..EndOfRoot - 1
      BY <1>2, <1>3, <1>12
    <3> QED BY <1>6, <1>8, <1>7, <2>1, <3>1, RootStep
  <2>9. PICK g : g = Moved(file[n], h, t)
    OBVIOUS
  <2>10. g.head = h /\ g.tail = t
    BY <2>9, MovedPlace DEF Shape
  <2>11. file'[n] = g
    BY <1>9, <2>9 DEF Shape
  <2>12. c + 1 \in g_filesystem.p_rootdir..e
    BY <1>2, <1>3, <1>12
  <2>13. StandsAt(g, e, c + 1)
    BY <1>7, <2>8, <2>10, <2>12 DEF StandsAt
  <2> QED BY <2>5, <2>6, <2>7, <2>11, <2>13, Zenon
<1> QED BY <1>11, <1>12

LEMMA MountedSame == Mounted /\ Same => Mounted'
BY VolumeStays, WholeStays DEF Mounted, Same, NotMounted

LEMMA ListsSame == ASSUME Same, NEW s, NEW b, Lists(s, b) PROVE Lists(s, b)'
<1>1. \A a : IsVolume(a)' <=> IsVolume(a)
  BY LooksSame DEF IsVolume
<1>2. g_filesystem' = g_filesystem
  BY DEF Same
<1> QED BY <1>1, <1>2 DEF Lists

LEMMA StandsSame ==
  ASSUME Same, NEW f, NEW e, NEW b, StandsAt(f, e, b) PROVE StandsAt(f, e, b)'
<1>1. g_filesystem' = g_filesystem /\ EndOfRoot' = EndOfRoot
  BY DEF Same, EndOfRoot
<1>2. \A a : Held(a)' = Held(a)
  BY <1>1 DEF Held
<1>3. RootEnds(e)'
  BY <1>1, LooksSame DEF StandsAt, RootEnds
<1> QED BY <1>1, <1>2, <1>3 DEF StandsAt

\* The step that begins a typed catalog, and one that goes on with it.
LEMMA BeginsListing ==
  ASSUME TableInv, VolumeTyped, VolumeWhole, cli_catalog("tty")
  PROVE  /\ Mounted
         /\ \E n, e, b, s, dir :
              /\ n \in Fileno
              /\ RootEnds(e) /\ b \in g_filesystem.p_rootdir..e /\ Lists(s, b)
              /\ dir = [this_d |-> g_filesystem.p_volume, next_d |-> Held(b)]
              /\ List("tty", n, dir, s)
<1>1. /\ g_filesystem # NotMounted /\ opendir_slot # NoFile
      /\ List("tty", opendir_slot, _opendir(g_filesystem.p_volume), <<>>)
  BY Zenon DEF cli_catalog
<1>2. Mounted
  BY <1>1 DEF Mounted
<1>3. PICK n \in Fileno : n = opendir_slot
  BY <1>1, UsedSlot
<1>4. PICK e : RootEnds(e)
  BY <1>2, EndSome
<1>5. PICK b \in Nat : b = g_filesystem.p_rootdir /\ b # EndOfRoot
  BY <1>2, RootBounds
<1>6. b \in g_filesystem.p_rootdir..e
  BY <1>2, <1>4, <1>5, RootBounds DEF RootEnds
<1>7. PICK dir : dir = _opendir(g_filesystem.p_volume)
  OBVIOUS
<1>8. dir = [this_d |-> g_filesystem.p_volume, next_d |-> Held(b)]
  BY <1>5, <1>7 DEF _opendir, Held
<1>9. PICK s : s = <<>>
  OBVIOUS
<1>10. Lists(s, b)
  BY <1>2, <1>5, <1>9, ListsNone
<1>11. List("tty", n, dir, s)
  BY <1>1, <1>3, <1>7, <1>9
<1> QED BY <1>2, <1>4, <1>6, <1>8, <1>10, <1>11

LEMMA GoesOnListing ==
  ASSUME TableInv, TypedListing, catalog_goes_on("tty")
  PROVE  /\ Mounted
         /\ \E n, e, b, s, dir :
              /\ n \in Fileno
              /\ RootEnds(e) /\ b \in g_filesystem.p_rootdir..e /\ Lists(s, b)
              /\ s = job["tty"].shown
              /\ dir = [this_d |-> g_filesystem.p_volume, next_d |-> Held(b)]
              /\ List("tty", n, dir, s)
<1>1. /\ pc["tty"] = "catalog"
      /\ List("tty", job["tty"].f, StreamOf(job["tty"].f), job["tty"].shown)
  BY Zenon DEF catalog_goes_on
<1>2. Mounted
  BY <1>1 DEF TypedListing
<1>3. PICK e, b, f, s : /\ f = file[job["tty"].f] /\ s = job["tty"].shown
                        /\ StandsAt(f, e, b) /\ Lists(s, b)
  BY <1>1 DEF TypedListing
<1>4. job["tty"].f \in Fileno
  BY <1>1 DEF TableInv, Table, ProgramRight, Program
<1>5. PICK n \in Fileno : n = job["tty"].f
  BY <1>4
<1>6. PICK dir : dir = StreamOf(n)
  OBVIOUS
<1>7. dir = [this_d |-> g_filesystem.p_volume, next_d |-> Held(b)]
  BY <1>3, <1>5, <1>6 DEF StreamOf, StandsAt
<1>8. List("tty", n, dir, s)
  BY <1>1, <1>3, <1>5, <1>6, Zenon
<1> QED BY <1>2, <1>3, <1>7, <1>8 DEF StandsAt

ListingInv == FilesInv /\ VolumeWhole /\ TypedListing

LEMMA InitListing == Init => ListingInv
<1> SUFFICES ASSUME Init PROVE ListingInv
  OBVIOUS
<1>1. pc["tty"] = "idle"
  BY DEF Init, Program
<1>2. TypedListing
  BY <1>1 DEF TypedListing
<1> QED BY <1>2, InitFiles, InitWhole DEF ListingInv

LEMMA NextListing == ListingInv /\ [Next]_vars => ListingInv'
<1> SUFFICES ASSUME ListingInv, [Next]_vars PROVE ListingInv'
  OBVIOUS
<1> USE DEF ListingInv
<1>1. Same /\ FilesInv' /\ VolumeWhole'
  BY StepSame, NextFiles, WholeStays
<1>2. TableInv /\ VolumeTyped /\ Shape
  BY DEF FilesInv, TableInv
<1>3. SUFFICES ASSUME pc'["tty"] = "catalog" PROVE TypedListing'
  <2>1. CASE pc'["tty"] = "catalog"
    BY <1>1, <1>3, <2>1
  <2>2. CASE pc'["tty"] # "catalog"
    BY <1>1, <2>2 DEF TypedListing
  <2> QED BY <2>1, <2>2
<1>4. CASE Next
  <2>1. Mounted /\ \E n, e, b, s, dir :
          /\ n \in Fileno
          /\ RootEnds(e) /\ b \in g_filesystem.p_rootdir..e /\ Lists(s, b)
          /\ dir = [this_d |-> g_filesystem.p_volume, next_d |-> Held(b)]
          /\ List("tty", n, dir, s)
    <3>1. CASE pc["tty"] = "catalog"
      <4>1. catalog_goes_on("tty")
        BY <1>2, <1>4, <3>1, CatalogRuns
      <4> QED BY <1>2, <4>1, GoesOnListing, Zenon
    <3>2. CASE pc["tty"] # "catalog"
      <4>1. cli_catalog("tty")
        BY <1>2, <1>3, <1>4, <3>2, CatalogBegins
      <4> QED BY <1>2, <4>1, BeginsListing, Zenon
    <3> QED BY <3>1, <3>2
  <2>2. PICK n, e, b, s, dir :
          /\ n \in Fileno
          /\ RootEnds(e) /\ b \in g_filesystem.p_rootdir..e /\ Lists(s, b)
          /\ dir = [this_d |-> g_filesystem.p_volume, next_d |-> Held(b)]
          /\ List("tty", n, dir, s)
    BY <2>1
  <2>3. /\ job'["tty"].f = n
        /\ \E k, g, t : /\ g = file'[n] /\ t = job'["tty"].shown
                        /\ StandsAt(g, e, k) /\ Lists(t, k)
    BY <1>2, <1>3, <2>1, <2>2, ListShows, Zenon
  <2>4. PICK k, g, t : /\ g = file'[n] /\ t = job'["tty"].shown
                       /\ StandsAt(g, e, k) /\ Lists(t, k)
    BY <2>3
  <2>5. StandsAt(g, e, k)' /\ Lists(t, k)' /\ Mounted'
    BY <1>1, <2>1, <2>4, StandsSame, ListsSame, MountedSame
  <2>6. g = file'[job'["tty"].f]
    BY <2>3, <2>4
  <2> QED BY <2>4, <2>5, <2>6, Zenon DEF TypedListing
<1>5. CASE UNCHANGED vars
  <2>1. pc' = pc /\ job' = job /\ file' = file
    BY <1>5 DEF vars
  <2>2. PICK e, b, f, s : /\ f = file[job["tty"].f] /\ s = job["tty"].shown
                          /\ StandsAt(f, e, b) /\ Lists(s, b)
    BY <1>3, <2>1 DEF TypedListing
  <2>3. StandsAt(f, e, b)' /\ Lists(s, b)' /\ Mounted'
    BY <1>1, <1>3, <2>1, <2>2, StandsSame, ListsSame, MountedSame DEF TypedListing
  <2> QED BY <2>1, <2>2, <2>3, Zenon DEF TypedListing
<1> QED BY <1>4, <1>5

\* In every behaviour a typed catalog stands at a place of the root directory,
\* and has shown what lies before it (cli.c cli_catalog, fat.c readdir).
THEOREM ListingRight == Spec => []ListingInv
<1>1. Init => ListingInv
  BY InitListing
<1>2. ListingInv /\ [Next]_vars => ListingInv'
  BY NextListing
<1> QED BY <1>1, <1>2, PTL DEF Spec

\* A typed catalog shows every entry of the root directory that is no label,
\* once and in order, for every root directory that the image holds (cli.c
\* cli_catalog, fat.c opendir, readdir).
THEOREM ListingIsComplete == Spec => TypedListingComplete
<1> DEFINE Complete ==
      pc["tty"] = "catalog" /\ pc'["tty"] # "catalog" =>
        LET root == CellsFrom(g_filesystem.p_rootdir, image.boot.max_root_dir_ent)
            labels == {a \in root : "volume" \in Cell(a).attributes}
        IN  /\ {job["tty"].shown[i] : i \in DOMAIN job["tty"].shown} = root \ labels
            /\ \A i \in 2..Len(job["tty"].shown) :
                 job["tty"].shown[i - 1] < job["tty"].shown[i]
<1>1. ListingInv /\ [Next]_vars => [Complete]_vars
  <2> SUFFICES ASSUME ListingInv, Next, pc["tty"] = "catalog", pc'["tty"] # "catalog"
               PROVE  Complete
    BY Zenon
  <2> USE DEF ListingInv
  <2>1. TableInv /\ Shape
    BY DEF FilesInv, TableInv
  <2>2. catalog_goes_on("tty")
    BY <2>1, CatalogRuns
  <2>3. Mounted
    BY <2>1, <2>2, GoesOnListing
  <2>4. PICK n, e, b, s, dir :
          /\ n \in Fileno
          /\ RootEnds(e) /\ b \in g_filesystem.p_rootdir..e /\ Lists(s, b)
          /\ s = job["tty"].shown
          /\ dir = [this_d |-> g_filesystem.p_volume, next_d |-> Held(b)]
          /\ List("tty", n, dir, s)
    BY <2>1, <2>2, GoesOnListing, Zenon
  <2>5. \A d \in b..e - 1 : IsVolume(d)
    BY <2>1, <2>3, <2>4, ListShows, Zenon
  <2>6. PICK root : root = CellsFrom(g_filesystem.p_rootdir, image.boot.max_root_dir_ent)
    OBVIOUS
  <2>7. root = g_filesystem.p_rootdir..e - 1
    BY <2>3, <2>4, <2>6, RootCells
  <2>8. PICK labels : labels = {a \in root : "volume" \in Cell(a).attributes}
    OBVIOUS
  <2>9. \A a : a \in labels <=> a \in root /\ IsVolume(a)
    BY <2>8 DEF IsVolume
  <2>10. PICK r \in Nat : r = g_filesystem.p_rootdir
    BY <2>3, RootBounds
  <2>11. e \in Nat /\ b \in Nat /\ r <= b /\ b <= e
    BY <2>3, <2>4, <2>10, RootBounds DEF RootEnds
  <2>12. \A a : a \in {s[i] : i \in DOMAIN s} <=> a \in root \ labels
    <3>1. \A a : a \in {s[i] : i \in DOMAIN s} <=> a \in r..b - 1 /\ ~IsVolume(a)
      BY <2>4, <2>10 DEF Lists
    <3>2. \A a : a \in root <=> a \in r..b - 1 \/ a \in b..e - 1
      BY <2>7, <2>10, <2>11
    <3> QED BY <2>5, <2>9, <3>1, <3>2, Zenon
  <2>13. {s[i] : i \in DOMAIN s} = root \ labels
    BY <2>12, Zenon
  <2>14. \A i \in 2..Len(s) : s[i - 1] < s[i]
    BY <2>4 DEF Lists
  <2> QED BY <2>4, <2>6, <2>8, <2>13, <2>14, Zenon
<1> QED BY <1>1, ListingRight, PTL DEF Spec, TypedListingComplete

----------------------------------------------------------------------------
(* Looking up a path *)

LEMMA OnlyOne ==
  ASSUME NEW S, IsFiniteSet(S)
  PROVE  Cardinality(S) = 1 <=> \E a : S = {a}
BY FS_Singleton

Fits(S, pattern) == {a \in S : Cell(a).filename \in pattern /\ "volume" \notin Cell(a).attributes}

\* A directory that lies in a row is searched as the set of its entries.
LEMMA ScanIs ==
  ASSUME NEW dir, NEW pattern, NEW x \in Nat, NEW m \in Nat, m \in Calls, AtEnd(walk(dir)[m]),
         \A k \in 0..m - 1 : walk(dir)[k] = x + k /\ ~AtEnd(walk(dir)[k])
  PROVE  scandir(dir, pattern) = Named(x..x + m - 1, pattern)
<1> DEFINE at == walk(dir)
           found == {n \in 0..First(AtEnd, at) - 1 : Matches(at[n], pattern)}
           S == Fits(x..x + m - 1, pattern)
<1>1. \A k \in 0..m - 1 : at[k] = x + k /\ ~AtEnd(at[k])
  OBVIOUS
<1>2. First(AtEnd, at) = m
  <2> HIDE DEF at
  <2> QED BY <1>1, FirstAtEnd DEF at
<1>3. m # Endless
  BY DEF Endless
<1>4. scandir(dir, pattern) =
        IF Cardinality(found) = 1 THEN at[CHOOSE n \in found : TRUE] ELSE NULL
  <2>1. scandir(dir, pattern) =
          IF First(AtEnd, at) = Endless THEN Endless
          ELSE IF Cardinality(found) = 1 THEN at[CHOOSE n \in found : TRUE] ELSE NULL
    BY DEF scandir
  <2> HIDE DEF found, at
  <2> QED BY <1>2, <1>3, <2>1
<1>5. Named(x..x + m - 1, pattern) = IF Cardinality(S) = 1 THEN CHOOSE a \in S : TRUE ELSE NULL
  BY DEF Named, Fits
<1>6. found = {n \in 0..m - 1 : Matches(at[n], pattern)} /\ S = Fits(x..x + m - 1, pattern)
  <2> HIDE DEF at
  <2> QED BY <1>2
<1> HIDE DEF at, found, S
<1>7. \A n : n \in found <=> n \in 0..m - 1 /\ x + n \in S
  <2>1. \A n \in 0..m - 1 : Matches(at[n], pattern) <=> x + n \in S
    <3>1. SUFFICES ASSUME NEW n \in 0..m - 1
                   PROVE  Matches(at[n], pattern) <=> x + n \in S
      OBVIOUS
    <3>2. at[n] = x + n /\ x + n \in x..x + m - 1
      BY <1>1
    <3> QED BY <1>6, <3>2 DEF Matches, IsVolume, Fits
  <2> QED BY <1>6, <2>1
<1>8. \A a : a \in S => a \in x..x + m - 1
  BY <1>6 DEF Fits
<1>9. IsFiniteSet(found) /\ IsFiniteSet(S)
  <2>1. IsFiniteSet(0..m - 1) /\ IsFiniteSet(x..x + m - 1)
    BY FS_Interval
  <2>2. found \subseteq 0..m - 1 /\ S \subseteq x..x + m - 1
    BY <1>7, <1>8
  <2> QED BY <2>1, <2>2, FS_Subset
<1>10. ASSUME NEW n, found = {n} PROVE S = {x + n} /\ at[n] = x + n
  <2>1. n \in 0..m - 1 /\ x + n \in S
    BY <1>7, <1>10
  <2>2. ASSUME NEW a \in S PROVE a = x + n
    <3>1. a - x \in 0..m - 1 /\ x + (a - x) = a
      BY <1>8
    <3>2. a - x \in found
      BY <1>7, <3>1
    <3> QED BY <1>10, <2>1, <3>1, <3>2
  <2> QED BY <1>1, <2>1, <2>2
<1>11. ASSUME NEW a, S = {a} PROVE found = {a - x}
  <2>1. a \in x..x + m - 1
    BY <1>8, <1>11
  <2>2. a - x \in 0..m - 1 /\ x + (a - x) = a
    BY <2>1
  <2>3. a - x \in found
    BY <1>7, <1>11, <2>2
  <2>4. ASSUME NEW n \in found PROVE n = a - x
    <3>1. n \in 0..m - 1 /\ x + n = a
      BY <1>7, <1>11
    <3> QED BY <3>1
  <2> QED BY <2>3, <2>4
<1>12. CASE \E n : found = {n}
  <2>1. PICK n : found = {n}
    BY <1>12
  <2>2. S = {x + n} /\ at[n] = x + n
    BY <1>10, <2>1
  <2>3. Cardinality(found) = 1 /\ Cardinality(S) = 1
    BY <1>9, <2>1, <2>2, OnlyOne
  <2>4. (CHOOSE i \in found : TRUE) = n /\ (CHOOSE a \in S : TRUE) = x + n
    BY <2>1, <2>2
  <2> QED BY <1>4, <1>5, <2>2, <2>3, <2>4
<1>13. CASE ~\E n : found = {n}
  <2>1. ~\E a : S = {a}
    BY <1>11, <1>13
  <2>2. Cardinality(found) # 1 /\ Cardinality(S) # 1
    BY <1>9, <1>13, <2>1, OnlyOne
  <2> QED BY <1>4, <1>5, <2>2
<1> QED BY <1>12, <1>13

LEMMA ScanRoot ==
  ASSUME Mounted, NEW pattern
  PROVE  scandir(_opendir(g_filesystem.p_volume), pattern) = InRoot(pattern)
<1>1. PICK e : RootEnds(e)
  BY EndSome
<1>2. PICK r \in Nat, n \in Nat : r = g_filesystem.p_rootdir /\ n = EndOfRoot /\ r < n
  BY RootBounds
<1>3. e \in r..n /\ e \in Nat
  BY <1>1, <1>2 DEF RootEnds
<1>4. PICK dir : dir = _opendir(g_filesystem.p_volume)
  OBVIOUS
<1>5. dir.this_d = g_filesystem.p_volume /\ dir.next_d = Held(r)
  BY <1>2, <1>4 DEF _opendir, Held
<1>6. \A k \in 0..n - r : k \in Calls /\ walk(dir)[k] = Held(r + k)
  BY <1>2, <1>5, RootRun
<1>7. PICK m \in Nat : m = e - r /\ m \in 0..n - r /\ r + m = e
  BY <1>2, <1>3
<1>8. \A b \in r..e : (AtEnd(Held(b)) <=> b = e) /\ (b # e => Held(b) = b)
  BY <1>1, <1>2, EndHeld
<1>9. m \in Calls /\ AtEnd(walk(dir)[m])
  <2>1. e \in r..e
    BY <1>3
  <2> QED BY <1>6, <1>7, <1>8, <2>1
<1>10. ASSUME NEW k \in 0..m - 1 PROVE walk(dir)[k] = r + k /\ ~AtEnd(walk(dir)[k])
  <2>1. k \in 0..n - r /\ r + k \in r..e /\ r + k # e
    BY <1>2, <1>3, <1>7
  <2> QED BY <1>6, <1>8, <2>1
<1>11. scandir(dir, pattern) = Named(r..r + m - 1, pattern)
  BY <1>9, <1>10, ScanIs
<1>12. CellsFrom(g_filesystem.p_rootdir, image.boot.max_root_dir_ent) = r..e - 1
  BY <1>1, <1>2, RootCells
<1> QED BY <1>4, <1>7, <1>11, <1>12 DEF InRoot

\* A path that names nothing, or an entry of the root directory.
LEMMA RootEntry ==
  ASSUME Mounted, NEW pattern
  PROVE  \/ InRoot(pattern) = NULL
         \/ InRoot(pattern) \in g_filesystem.p_rootdir..EndOfRoot - 1
<1>1. PICK e : RootEnds(e)
  BY EndSome
<1>2. PICK r \in Nat, n \in Nat : r = g_filesystem.p_rootdir /\ n = EndOfRoot /\ r < n
  BY RootBounds
<1>3. PICK cells : cells = CellsFrom(g_filesystem.p_rootdir, image.boot.max_root_dir_ent)
  OBVIOUS
<1>4. cells = r..e - 1 /\ e \in r..n
  BY <1>1, <1>2, <1>3, RootCells DEF RootEnds
<1> DEFINE S == Fits(cells, pattern)
<1>5. Named(cells, pattern) = IF Cardinality(S) = 1 THEN CHOOSE a \in S : TRUE ELSE NULL
  BY DEF Named, Fits
<1>6. InRoot(pattern) = IF Cardinality(S) = 1 THEN CHOOSE a \in S : TRUE ELSE NULL
  <2> HIDE DEF S
  <2> QED BY <1>3, <1>5 DEF InRoot
<1>7. S \subseteq r..n - 1 /\ IsFiniteSet(S)
  <2>1. S \subseteq r..n - 1
    BY <1>2, <1>4 DEF Fits
  <2>2. IsFiniteSet(r..n - 1)
    BY <1>2, FS_Interval
  <2> QED BY <2>1, <2>2, FS_Subset
<1> HIDE DEF S
<1>8. CASE Cardinality(S) = 1
  <2>1. PICK a : S = {a}
    BY <1>7, <1>8, OnlyOne
  <2>2. InRoot(pattern) = a
    BY <1>6, <1>8, <2>1
  <2> QED BY <1>2, <1>7, <2>1, <2>2
<1>9. CASE Cardinality(S) # 1
  BY <1>6, <1>9
<1> QED BY <1>8, <1>9

\* A row of cells that ends at its first NUL: a set as long as the row is
\* without one, and otherwise what lies before it.
LEMMA CellsRow ==
  ASSUME NEW x \in Nat, NEW n \in Nat
  PROVE  \/ Cardinality(CellsFrom(x, n)) = n
         \/ \E m \in 0..n - 1 : /\ Cell(x + m).filename = NUL
                                /\ \A k \in 0..m - 1 : Cell(x + k).filename # NUL
                                /\ CellsFrom(x, n) = x..x + m - 1
<1> DEFINE S == {k \in 0..n - 1 : Cell(x + k).filename = NUL}
<1>1. CASE S = {}
  <2>1. \A b \in x..x + n - 1 : Cell(b).filename # NUL
    <3>1. SUFFICES ASSUME NEW b \in x..x + n - 1 PROVE Cell(b).filename # NUL
      OBVIOUS
    <3>2. b - x \in 0..n - 1 /\ x + (b - x) = b
      OBVIOUS
    <3>3. PICK k \in 0..n - 1 : x + k = b
      BY <3>2
    <3> QED BY <1>1, <3>3
  <2>2. CellsFrom(x, n) = x..x + n - 1
    <3>1. \A b \in x..x + n - 1 : \A c \in x..b : c \in x..x + n - 1
      OBVIOUS
    <3> QED BY <2>1, <3>1 DEF CellsFrom
  <2>3. Cardinality(x..x + n - 1) = n
    BY FS_Interval
  <2> QED BY <2>2, <2>3
<1>2. CASE S # {}
  <2>1. S \in SUBSET Nat
    OBVIOUS
  <2>2. PICK m \in S : \A k \in S : m <= k
    <3> HIDE DEF S
    <3> QED BY <1>2, <2>1, Smallest
  <2>3. m \in 0..n - 1 /\ Cell(x + m).filename = NUL /\ m \in Nat
    BY <2>2
  <2>4. ASSUME NEW k \in 0..m - 1 PROVE Cell(x + k).filename # NUL
    <3>1. k \in 0..n - 1 /\ k \notin S
      BY <2>2, <2>3
    <3> QED BY <3>1
  <2>5. ASSUME NEW b \in x..x + m - 1
        PROVE  b \in x..x + n - 1 /\ \A c \in x..b : Cell(c).filename # NUL
    <3>1. b \in x..x + n - 1
      BY <2>3
    <3>2. ASSUME NEW c \in x..b PROVE Cell(c).filename # NUL
      <4>1. c - x \in 0..m - 1 /\ x + (c - x) = c
        BY <2>3
      <4>2. PICK k \in 0..m - 1 : x + k = c
        BY <4>1
      <4> QED BY <2>4, <4>2
    <3> QED BY <3>1, <3>2
  <2>6. ASSUME NEW b \in x..x + n - 1, \A c \in x..b : Cell(c).filename # NUL
        PROVE  b \in x..x + m - 1
    <3>1. x + m \notin x..b
      BY <2>3, <2>6
    <3> QED BY <2>3, <3>1
  <2>7. CellsFrom(x, n) = x..x + m - 1
    BY <2>5, <2>6 DEF CellsFrom
  <2> QED BY <2>3, <2>4, <2>7
<1> QED BY <1>1, <1>2

LEMMA RemainderIs ==
  ASSUME NEW d \in Nat, d > 0, NEW c \in Nat, NEW e \in Nat, e < d,
         NEW p \in Nat, p = c * d + e
  PROVE  p % d = e
<1>1. PICK q \in Nat, r \in Nat : q = p \div d /\ r = p % d
  BY Division
<1>2. p = q * d + r /\ r < d
  BY <1>1, Division
<1>3. q * d + r = c * d + e
  BY <1>2
<1>4. q = c /\ r = e
  BY <1>2, <1>3, DivisionUnique
<1> QED BY <1>1, <1>4

\* Before the end of its first cluster, a directory is read in a row.
LEMMA ClusterStep ==
  ASSUME Mounted, NEW c \in Int, Valid(c), NEW j \in 0..SectorSize - 2, NEW d,
         NEW x, x = g_filesystem.p_ino + c * SectorSize
  PROVE  advance(d)[x + j] = x + (j + 1)
<1>1. PICK i \in Int : i = g_filesystem.p_ino
  BY DEF Mounted, VolumeTyped
<1>2. PICK s \in Nat : s = SectorSize /\ s > 0
  BY Sizes
<1>3. c \in Nat
  <2>1. g_filesystem.n_fatent \in Int
    BY DEF Mounted, VolumeTyped
  <2> QED BY <2>1 DEF Valid
<1>4. PICK y \in Nat : y = c * s
  <2>1. c * s \in Nat
    BY <1>2, <1>3
  <2> QED BY <2>1
<1>5. x = i + y /\ j \in 0..s - 2
  BY <1>1, <1>2, <1>4
<1>6. x + j \in DOMAIN image.cell /\ x + j # NULL
  <2>1. j \in 0..SectorSize - 1
    BY <1>2, <1>5
  <2>2. x + j \in DOMAIN image.cell
    BY <2>1 DEF Mounted, VolumeWhole
  <2>3. x + j \in Nat /\ x + j >= Base
    BY <2>2 DEF Mounted, VolumeWhole
  <2> QED BY <2>2, <2>3, FatAssumption DEF NULL
<1>7. (y + (j + 1)) % s = j + 1
  <2>1. PICK p \in Nat, f \in Nat : p = y + (j + 1) /\ f = j + 1 /\ f < s
    BY <1>5
  <2>2. p = c * s + f
    BY <1>4, <2>1
  <2>3. p % s = f
    BY <1>2, <1>3, <2>1, <2>2, RemainderIs
  <2> QED BY <2>1, <2>3
<1>8. cluster_offset(x + j + 1) = j + 1
  <2>1. (x + j + 1) - i = y + (j + 1)
    BY <1>5
  <2> QED BY <1>1, <1>2, <1>7, <2>1 DEF cluster_offset
<1>9. cluster_offset(x + j + 1) # 0 /\ x + j + 1 = x + (j + 1)
  BY <1>5, <1>8
<1> QED BY <1>6, <1>9 DEF advance

\* A directory other than the root, that ends in its first cluster.
LEMMA ScanCluster ==
  ASSUME Mounted, NEW c \in Int, Valid(c), NEW dir, dir.next_d = lookup_fat(c),
         NEW m \in 0..SectorSize - 1, Cell(lookup_fat(c) + m).filename = NUL,
         \A k \in 0..m - 1 : Cell(lookup_fat(c) + k).filename # NUL, NEW pattern
  PROVE  scandir(dir, pattern) = Named(lookup_fat(c)..lookup_fat(c) + m - 1, pattern)
<1>1. PICK x : x = lookup_fat(c) /\ x = g_filesystem.p_ino + c * SectorSize
  BY DEF lookup_fat
<1>2. /\ g_filesystem.p_ino + c * SectorSize \in Int
      /\ \A k \in 0..SectorSize - 1 : x + k \in DOMAIN image.cell
  <2>1. \A k \in 0..SectorSize - 1 : x + k \in DOMAIN image.cell
    BY <1>1 DEF Mounted, VolumeWhole
  <2>2. g_filesystem.p_ino \in Int /\ c * SectorSize \in Int
    BY Sizes DEF Mounted, VolumeTyped
  <2> QED BY <2>1, <2>2
<1>3. x \in Nat /\ x >= Base /\ x > 0
  <2>1. 0 \in 0..SectorSize - 1 /\ x + 0 = x
    BY <1>1, <1>2, Sizes
  <2>2. x \in DOMAIN image.cell
    BY <1>2, <2>1
  <2> QED BY <2>2, FatAssumption DEF Mounted, VolumeWhole
<1>4. PICK s \in Nat : s = SectorSize /\ s > 0
  BY Sizes
<1>5. Cells0 \in Nat /\ Calls = 0..Cells0 + 1
  BY CallsIs DEF Mounted
<1>6. s <= Cells0
  <2>1. x..x + s - 1 \subseteq DOMAIN image.cell
    <3>1. SUFFICES ASSUME NEW a \in x..x + s - 1 PROVE a \in DOMAIN image.cell
      OBVIOUS
    <3>2. a - x \in 0..SectorSize - 1 /\ x + (a - x) = a
      BY <1>3, <1>4
    <3>3. PICK k \in 0..SectorSize - 1 : x + k = a
      BY <3>2
    <3> QED BY <1>2, <3>3
  <2>2. IsFiniteSet(DOMAIN image.cell)
    BY DEF Mounted, VolumeWhole
  <2>3. Cardinality(x..x + s - 1) <= Cells0
    BY <2>1, <2>2, FS_Subset DEF Cells0
  <2>4. Cardinality(x..x + s - 1) = s
    BY <1>3, <1>4, FS_Interval
  <2> QED BY <2>3, <2>4
<1>7. m \in Nat /\ m <= s - 1 /\ \A k \in 0..m : k \in Calls
  BY <1>4, <1>5, <1>6
<1> DEFINE S == {k \in Nat : k <= m => walk(dir)[k] = x + k}
<1>8. 0 \in S
  <2>1. walk(dir)[0] = dir.next_d
    BY WalkIs DEF Mounted
  <2> QED BY <1>1, <1>3, <2>1
<1>9. ASSUME NEW k \in S PROVE k + 1 \in S
  <2>1. SUFFICES ASSUME k + 1 <= m PROVE walk(dir)[k + 1] = x + (k + 1)
    OBVIOUS
  <2>2. k + 1 \in Calls /\ k + 1 > 0 /\ (k + 1) - 1 = k /\ k <= m
    BY <1>7, <2>1
  <2>3. walk(dir)[k + 1] = advance(dir.this_d)[walk(dir)[k]]
    BY <2>2, WalkIs DEF Mounted
  <2>4. walk(dir)[k] = x + k
    BY <2>2
  <2>5. k \in 0..SectorSize - 2
    BY <1>4, <1>7, <2>1
  <2> QED BY <1>1, <2>3, <2>4, <2>5, ClusterStep
<1>10. S \in SUBSET Nat
  OBVIOUS
<1>11. \A k \in 0..m : walk(dir)[k] = x + k
  <2> HIDE DEF S
  <2>1. S = Nat
    BY <1>8, <1>9, <1>10, Induction
  <2> QED BY <1>7, <2>1 DEF S
<1>12. m \in Calls /\ AtEnd(walk(dir)[m])
  BY <1>1, <1>7, <1>11 DEF AtEnd
<1>13. ASSUME NEW k \in 0..m - 1 PROVE walk(dir)[k] = x + k /\ ~AtEnd(walk(dir)[k])
  <2>1. walk(dir)[k] = x + k /\ x + k # NULL /\ Cell(x + k).filename # NUL
    BY <1>1, <1>3, <1>7, <1>11 DEF NULL
  <2> QED BY <2>1 DEF AtEnd
<1>14. scandir(dir, pattern) = Named(x..x + m - 1, pattern)
  BY <1>3, <1>7, <1>12, <1>13, ScanIs
<1> QED BY <1>1, <1>14, Zenon

\* What finddirent makes of the next name of a path, when it has come to d.
Found(path, i, d) ==
  IF i > 1 /\ (d \in {NULL, Endless} \/ "directory" \notin Cell(d).attributes)
  THEN IF d = Endless THEN Endless ELSE NULL
  ELSE scandir(_opendir(d), path[i])

IsFind(h, path, n) ==
  h = [i \in 0..n |-> IF i = 0 THEN g_filesystem.p_volume ELSE Found(path, i, h[i - 1])]

LEMMA FindIs ==
  ASSUME NEW path, NEW n, n = Len(path), NEW h, IsFind(h, path, n)
  PROVE  \E e : finddirent(path) = e[n] /\ IsFind(e, path, n)
<1> DEFINE Is(e) == e = [i \in 0..Len(path) |-> IF i = 0 THEN g_filesystem.p_volume
                                                ELSE Found(path, i, e[i - 1])]
           chosen == CHOOSE e : Is(e)
<1>1. finddirent(path) = chosen[Len(path)]
  BY Zenon DEF finddirent, Found
<1>2. Is(h)
  BY Zenon DEF IsFind
<1> HIDE DEF Is
<1>3. Is(chosen)
  BY <1>2
<1> HIDE DEF chosen
<1>4. IsFind(chosen, path, n)
  BY <1>3, Zenon DEF Is, IsFind
<1> QED BY <1>1, <1>4

LEMMA FindOne ==
  ASSUME NEW path, Len(path) = 1
  PROVE  finddirent(path) = Found(path, 1, g_filesystem.p_volume)
<1>1. PICK a : a = g_filesystem.p_volume
  OBVIOUS
<1>2. PICK b : b = Found(path, 1, a)
  OBVIOUS
<1> DEFINE h == [i \in 0..1 |-> IF i = 0 THEN a ELSE b]
<1>3. \A i \in 0..1 : h[i] = IF i = 0 THEN a ELSE Found(path, i, h[i - 1])
  <2>1. h[0] = a /\ h[1] = b /\ 1 - 1 = 0
    OBVIOUS
  <2>2. \A i \in 0..1 : i = 0 \/ i = 1
    OBVIOUS
  <2> HIDE DEF h
  <2> QED BY <1>2, <2>1, <2>2, Zenon
<1>4. h = [i \in 0..1 |-> h[i]]
  OBVIOUS
<1> HIDE DEF h
<1>5. IsFind(h, path, 1)
  BY <1>1, <1>3, <1>4 DEF IsFind
<1>6. PICK e : finddirent(path) = e[1] /\ IsFind(e, path, 1)
  BY <1>5, FindIs
<1>7. e[0] = a /\ e[1] = Found(path, 1, e[0])
  BY <1>1, <1>6 DEF IsFind
<1> QED BY <1>1, <1>6, <1>7

LEMMA FindTwo ==
  ASSUME NEW path, Len(path) = 2
  PROVE  finddirent(path) = Found(path, 2, Found(path, 1, g_filesystem.p_volume))
<1>1. PICK a : a = g_filesystem.p_volume
  OBVIOUS
<1>2. PICK b : b = Found(path, 1, a)
  OBVIOUS
<1>3. PICK c : c = Found(path, 2, b)
  OBVIOUS
<1> DEFINE h == [i \in 0..2 |-> IF i = 0 THEN a ELSE IF i = 1 THEN b ELSE c]
<1>4. \A i \in 0..2 : h[i] = IF i = 0 THEN a ELSE Found(path, i, h[i - 1])
  <2>1. h[0] = a /\ h[1] = b /\ h[2] = c /\ 1 - 1 = 0 /\ 2 - 1 = 1 /\ 1 # 0 /\ 2 # 0
    OBVIOUS
  <2>2. \A i \in 0..2 : i = 0 \/ i = 1 \/ i = 2
    OBVIOUS
  <2> HIDE DEF h
  <2> QED BY <1>2, <1>3, <2>1, <2>2, Zenon
<1>5. h = [i \in 0..2 |-> h[i]]
  OBVIOUS
<1> HIDE DEF h
<1>6. IsFind(h, path, 2)
  BY <1>1, <1>4, <1>5 DEF IsFind
<1>7. PICK e : finddirent(path) = e[2] /\ IsFind(e, path, 2)
  BY <1>6, FindIs
<1>8. e[0] = a /\ e[1] = Found(path, 1, e[0]) /\ e[2] = Found(path, 2, e[1])
  BY <1>1, <1>7 DEF IsFind
<1> QED BY <1>1, <1>7, <1>8

\* Memory below the image holds no entry.
LEMMA NoneBelow == ASSUME Mounted PROVE Cardinality(CellsFrom(NULL, SectorSize)) = SectorSize
<1>1. PICK s \in Nat : s = SectorSize /\ s > 0 /\ Base \in Nat /\ Base > s
  BY FatAssumption
<1>2. \A a \in 0..s - 1 : Cell(a).filename # NUL
  <2>1. SUFFICES ASSUME NEW a \in 0..s - 1 PROVE Cell(a).filename # NUL
    OBVIOUS
  <2>2. a \notin DOMAIN image.cell
    BY <1>1 DEF Mounted, VolumeWhole
  <2> QED BY <2>2, DirectoryAssumption DEF Cell
<1>3. CellsFrom(NULL, s) = 0..s - 1
  <2>1. 0 + s - 1 = s - 1
    BY <1>1
  <2>2. \A b \in 0..s - 1 : \A c \in 0..b : c \in 0..s - 1
    BY <1>1
  <2> QED BY <1>2, <2>1, <2>2 DEF CellsFrom, NULL
<1>4. Cardinality(0..s - 1) = s
  BY <1>1, FS_Interval
<1> QED BY <1>1, <1>3, <1>4

\* What is found in a directory that the root directory holds.
LEMMA ScanDirectory ==
  ASSUME Mounted, NEW d \in g_filesystem.p_rootdir..EndOfRoot - 1, NEW pattern
  PROVE  \/ Cardinality(CellsFrom(lookup_fat(Cell(d).first_cluster), SectorSize)) = SectorSize
         \/ scandir(_opendir(d), pattern) = InDirectory(d, pattern)
<1>1. PICK c \in Int : c = Cell(d).first_cluster
  BY FirstType DEF Mounted
<1>2. d # g_filesystem.p_volume
  BY RootBounds DEF Mounted, VolumeWhole
<1>3. PICK dir : dir = _opendir(d)
  OBVIOUS
<1>4. dir.next_d = lookup_fat(c)
  BY <1>1, <1>2, <1>3 DEF _opendir
<1>5. PICK x : x = lookup_fat(c)
  OBVIOUS
<1>6. CASE ~Valid(c)
  <2>1. x = NULL
    BY <1>5, <1>6 DEF lookup_fat
  <2> QED BY <1>1, <1>5, <2>1, NoneBelow
<1>7. CASE Valid(c)
  <2>1. x \in Nat
    <3>1. 0 \in 0..SectorSize - 1
      BY Sizes
    <3>2. g_filesystem.p_ino + c * SectorSize + 0 \in Nat
      BY <1>7, <3>1 DEF Mounted, VolumeWhole
    <3>3. g_filesystem.p_ino \in Int /\ c * SectorSize \in Int
      BY Sizes DEF Mounted, VolumeTyped
    <3> QED BY <1>5, <1>7, <3>2, <3>3 DEF lookup_fat
  <2>2. SUFFICES ASSUME Cardinality(CellsFrom(x, SectorSize)) # SectorSize
                 PROVE  scandir(dir, pattern) = InDirectory(d, pattern)
    BY <1>1, <1>3, <1>5
  <2>3. PICK m \in 0..SectorSize - 1 : /\ Cell(x + m).filename = NUL
                                       /\ \A k \in 0..m - 1 : Cell(x + k).filename # NUL
                                       /\ CellsFrom(x, SectorSize) = x..x + m - 1
    BY <2>1, <2>2, CellsRow, Sizes
  <2>4. scandir(dir, pattern) = Named(x..x + m - 1, pattern)
    BY <1>4, <1>5, <1>7, <2>3, ScanCluster
  <2> QED BY <1>1, <1>5, <2>3, <2>4 DEF InDirectory
<1> QED BY <1>6, <1>7

LEMMA FirstName == ASSUME Mounted, NEW path
                   PROVE  Found(path, 1, g_filesystem.p_volume) = InRoot(path[1])
<1>1. Found(path, 1, g_filesystem.p_volume) = scandir(_opendir(g_filesystem.p_volume), path[1])
  BY DEF Found
<1> QED BY <1>1, ScanRoot

LEMMA SecondName ==
  ASSUME Mounted, NEW path, NEW d, d = InRoot(path[1])
  PROVE  IF d = NULL \/ "directory" \notin Cell(d).attributes
         THEN Found(path, 2, d) = NULL
         ELSE \/ Cardinality(CellsFrom(lookup_fat(Cell(d).first_cluster), SectorSize)) = SectorSize
              \/ Found(path, 2, d) = InDirectory(d, path[2])
<1>1. d = NULL \/ d \in g_filesystem.p_rootdir..EndOfRoot - 1
  BY RootEntry
<1>2. d # Endless
  BY <1>1, RootBounds DEF NULL, Endless
<1>3. CASE d = NULL \/ "directory" \notin Cell(d).attributes
  <2>1. Found(path, 2, d) = NULL
    <3>1. 2 > 1
      OBVIOUS
    <3> QED BY <1>2, <1>3, <3>1, Zenon DEF Found
  <2> QED BY <1>3, <2>1, Zenon
<1>4. CASE ~(d = NULL \/ "directory" \notin Cell(d).attributes)
  <2>1. Found(path, 2, d) = scandir(_opendir(d), path[2])
    BY <1>2, <1>4 DEF Found
  <2>2. \/ Cardinality(CellsFrom(lookup_fat(Cell(d).first_cluster), SectorSize)) = SectorSize
        \/ scandir(_opendir(d), path[2]) = InDirectory(d, path[2])
    BY <1>1, <1>4, ScanDirectory
  <2> QED BY <1>4, <2>1, <2>2, Zenon
<1> QED BY <1>3, <1>4, Zenon

\* A path of one or two names is looked up as it should be.
Names(path, found) ==
  \/ Len(path) = 1 /\ found = InRoot(path[1])
  \/ /\ Len(path) = 2
     /\ LET d == InRoot(path[1])
        IN  IF d = NULL \/ "directory" \notin Cell(d).attributes
            THEN found = NULL
            ELSE \/ Cardinality(CellsFrom(lookup_fat(Cell(d).first_cluster), SectorSize)) = SectorSize
                 \/ found = InDirectory(d, path[2])

LEMMA FindNames ==
  ASSUME Mounted, NEW path, Len(path) \in {1, 2} PROVE Names(path, finddirent(path))
<1>1. CASE Len(path) = 1
  <2>1. finddirent(path) = InRoot(path[1])
    BY <1>1, FindOne, FirstName
  <2> QED BY <1>1, <2>1 DEF Names
<1>2. CASE Len(path) = 2
  <2>1. PICK d : d = InRoot(path[1])
    OBVIOUS
  <2>2. PICK found : found = Found(path, 2, d) /\ finddirent(path) = found
    BY <1>2, <2>1, FindTwo, FirstName
  <2>3. IF d = NULL \/ "directory" \notin Cell(d).attributes
        THEN found = NULL
        ELSE \/ Cardinality(CellsFrom(lookup_fat(Cell(d).first_cluster), SectorSize)) = SectorSize
             \/ found = InDirectory(d, path[2])
    BY <2>1, <2>2, SecondName
  <2> QED BY <1>2, <2>1, <2>2, <2>3, Zenon DEF Names
<1> QED BY <1>1, <1>2

LEMMA CellsFromSame == ASSUME Same PROVE \A a, n : CellsFrom(a, n)' = CellsFrom(a, n)
BY LooksSame DEF CellsFrom

LEMMA NamedSame == ASSUME Same, NEW cells, NEW pattern
                   PROVE  Named(cells, pattern)' = Named(cells, pattern)
<1> DEFINE S == Fits(cells, pattern)
           T == Fits(cells, pattern)'
<1>1. S = T
  BY LooksSame DEF Fits
<1>2. Named(cells, pattern) = IF Cardinality(S) = 1 THEN CHOOSE a \in S : TRUE ELSE NULL
  BY DEF Named, Fits
<1>3. Named(cells, pattern)' = IF Cardinality(T) = 1 THEN CHOOSE a \in T : TRUE ELSE NULL
  BY DEF Named, Fits, NULL
<1> HIDE DEF S, T
<1> QED BY <1>1, <1>2, <1>3

LEMMA InRootSame == ASSUME Same, NEW pattern PROVE InRoot(pattern)' = InRoot(pattern)
<1>1. PICK cells : cells = CellsFrom(g_filesystem.p_rootdir, image.boot.max_root_dir_ent)
  OBVIOUS
<1>2. cells = CellsFrom(g_filesystem.p_rootdir, image.boot.max_root_dir_ent)'
  BY <1>1, CellsFromSame DEF Same
<1> QED BY <1>1, <1>2, NamedSame DEF InRoot

LEMMA InDirectorySame ==
  ASSUME Same, NEW d, NEW pattern PROVE InDirectory(d, pattern)' = InDirectory(d, pattern)
<1>1. PICK cells : cells = CellsFrom(lookup_fat(Cell(d).first_cluster), SectorSize)
  OBVIOUS
<1>2. cells = CellsFrom(lookup_fat(Cell(d).first_cluster), SectorSize)'
  BY <1>1, CellsFromSame, LooksSame
<1> QED BY <1>1, <1>2, NamedSame DEF InDirectory

LEMMA NamesSame == ASSUME Same, NEW path, NEW found, Names(path, found) PROVE Names(path, found)'
<1>1. \A pattern : InRoot(pattern)' = InRoot(pattern)
  BY InRootSame
<1>2. \A d, pattern : InDirectory(d, pattern)' = InDirectory(d, pattern)
  BY InDirectorySame
<1>3. PICK d : d = InRoot(path[1]) /\ d = InRoot(path[1])'
  BY <1>1
<1>4. PICK ent : ent = Cell(d) /\ ent = Cell(d)'
  BY LooksSame
<1>5. PICK cells : /\ cells = CellsFrom(lookup_fat(ent.first_cluster), SectorSize)
                   /\ cells = CellsFrom(lookup_fat(ent.first_cluster), SectorSize)'
  BY LooksSame, CellsFromSame
<1> QED BY <1>2, <1>3, <1>4, <1>5 DEF Names, NULL

LookupRight == g_filesystem # NotMounted => \A path \in Paths : Names(path, lookup[path])

LookupInv == ListingInv /\ LookupRight

LEMMA InitLookup ==
  ASSUME \A path \in Paths : Len(path) \in {1, 2} PROVE Init => LookupInv
<1> SUFFICES ASSUME Init PROVE LookupInv
  OBVIOUS
<1>1. ListingInv
  BY InitListing
<1>2. ASSUME g_filesystem # NotMounted, NEW path \in Paths PROVE Names(path, lookup[path])
  <2>1. Mounted
    BY <1>1, <1>2 DEF ListingInv, FilesInv, Mounted
  <2>2. PICK found : found = finddirent(path) /\ lookup[path] = found
    BY DEF Init
  <2>3. Names(path, found)
    BY <2>1, <2>2, FindNames
  <2> QED BY <2>2, <2>3
<1> QED BY <1>1, <1>2 DEF LookupInv, LookupRight

LEMMA LookupStays == [Next]_vars => lookup' = lookup
BY DEF Next, Step, init_exec, exec, cli_exec, next_line, other_command, cli_bload, cli_catalog,
  catalog_goes_on, cli_install, install_goes_on, install_ends, Unchanged, vars

LEMMA NextLookup == LookupInv /\ [Next]_vars => LookupInv'
<1> SUFFICES ASSUME LookupInv, [Next]_vars PROVE LookupInv'
  OBVIOUS
<1>1. ListingInv' /\ Same /\ lookup' = lookup
  BY NextListing, StepSame, LookupStays DEF LookupInv
<1>2. ASSUME g_filesystem' # NotMounted', NEW path \in Paths PROVE Names(path, lookup[path])'
  <2>1. g_filesystem # NotMounted
    BY <1>1, <1>2 DEF Same, NotMounted
  <2>2. PICK found : found = lookup[path] /\ found = lookup'[path]
    BY <1>1
  <2>3. Names(path, found)
    BY <2>1, <2>2 DEF LookupInv, LookupRight
  <2>4. Names(path, found)'
    BY <1>1, <2>3, NamesSame
  <2> QED BY <2>2, <2>4
<1> QED BY <1>1, <1>2 DEF LookupInv, LookupRight

\* finddirent finds the entry that the names of a path lead to, for every image
\* and every path of one name or two, wherever the clusters lie, if the directory
\* ends in its first cluster (fat.c finddirent, scandir, readdir).
THEOREM PathsLeadRight ==
  ASSUME \A path \in Paths : Len(path) \in {1, 2} PROVE Spec => []LookupAgrees
<1>1. Init => LookupInv
  BY InitLookup
<1>2. LookupInv /\ [Next]_vars => LookupInv'
  BY NextLookup
<1>3. LookupInv => LookupAgrees
  BY Zenon DEF LookupInv, LookupRight, LookupAgrees, Names
<1> QED BY <1>1, <1>2, <1>3, PTL DEF Spec
=============================================================================
