-------------------------- MODULE MCDiskController --------------------------
(* Two tracks of three sectors, with short fields; and the codes of a sector *)
(* of the real size.                                                         *)
EXTENDS DiskController, Nibble

Bits(n) == [i \in 0..7 |-> (n \div 2^i) % 2 = 1]

\* Every byte comes back from the header, where none is 213, which begins a field.
ASSUME HeaderIsRead == \A n \in 0..255 :
  /\ Joined(Odd(Bits(n)), Even(Bits(n))) = Bits(n)
  /\ Bits(213) \notin {Odd(Bits(n)), Even(Bits(n))}

\* Sectors with every byte at some place, after any of them, come back from the
\* data field, and the checksum leaves nothing.
Sample == {[y \in Place |-> Bits((a * y + b) % 256)] : a \in {0, 1, 77}, b \in {0, 3, 255}}
Stale == [x \in 0..Third - 1 |-> Bits((x * 31 + 7) % 256)]
ASSUME SectorIsRead == \A raw \in Sample :
  LET sent == Sent(nbuf1(raw), nbuf2(Stale, raw))
  IN  Decoded(sent) = raw /\ Read(sent)[Checksum] = Zero

\* The table: all different, no byte that begins a field (213 or 170), the
\* highest bit set, and no more than one pair of consecutive zeros.
Pairs(n) == {i \in 0..6 : ~Bits(n)[i] /\ ~Bits(n)[i + 1]}
ASSUME TableIsFit ==
  /\ Len(nibl) = 64
  /\ \A i, j \in 1..64 : nibl[i] = nibl[j] => i = j
  /\ \A i \in 1..64 :
       /\ nibl[i] \notin {213, 170} /\ Bits(nibl[i])[7]
       /\ \A j, k \in Pairs(nibl[i]) : j = k
=============================================================================
