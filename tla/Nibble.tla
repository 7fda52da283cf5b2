------------------------------- MODULE Nibble -------------------------------
(***************************************************************************)
(* The codes in which a sector passes under the head (sw/src/disk.c): two  *)
(* bytes for a byte of the header, and 86 + 256 + 1 nibbles of six bits    *)
(* for the 256 bytes of data, each the exclusive or with the one before.   *)
(* Beside them stands the reader of DOS, which takes them apart again.     *)
(*                                                                         *)
(* A byte is the function from its bits, the lowest being bit 0.  The loop *)
(* that counts yp down in nibblize is three passes over nbuf2.             *)
(***************************************************************************)
EXTENDS Integers, Sequences

CONSTANTS
  SECTOR_SIZE,   \* 256 in the source
  Third          \* 86: a third of it, rounded up

ASSUME NibbleAssumption ==
  /\ SECTOR_SIZE \in Nat \ {0} /\ Third \in Nat \ {0}
  /\ SECTOR_SIZE <= 3 * Third

Octet == [0..7 -> BOOLEAN]
Nibble == [0..5 -> BOOLEAN]
Place == 0..SECTOR_SIZE - 1
Raw == [Place -> Octet]

Xor(a, b) == [i \in 0..5 |-> a[i] # b[i]]
Zero == [i \in 0..5 |-> FALSE]

----------------------------------------------------------------------------
(* The header: a byte in two, with every second bit set *)

Odd(b) == [i \in 0..7 |-> i % 2 = 1 \/ b[i + 1]]        \* (b>>1)|0xAA
Even(b) == [i \in 0..7 |-> i % 2 = 1 \/ b[i]]           \* b|0xAA

\* The reader: ((odd<<1)|1) & even.
Joined(odd, even) == [i \in 0..7 |-> (i = 0 \/ odd[i - 1]) /\ even[i]]

----------------------------------------------------------------------------
(* The data *)

\* The higher six bits of every byte.
nbuf1(buf) == [y \in Place |-> [i \in 0..5 |-> buf[y][i + 2]]]

\* One pass of the inner loop: nbuf2 takes the two lower bits of a third of the
\* bytes, swapped, above what it holds.  The first pass wraps around.
Pass(nbuf2, buf, third) ==
  [x \in 0..Third - 1 |->
     LET a == buf[(third * Third + Third - 1 - x) % SECTOR_SIZE]
     IN  [i \in 0..7 |-> IF i = 0 THEN a[1] ELSE IF i = 1 THEN a[0] ELSE nbuf2[x][i - 2]]]

\* nbuf2 still holds the sector before (old) when a sector is nibblized.
nbuf2(old, buf) ==
  LET shifted == Pass(Pass(Pass(old, buf, 2), buf, 1), buf, 0)
  IN  [x \in 0..Third - 1 |-> [i \in 0..5 |-> shifted[x][i]]]

denibblize(n1, n2) ==
  [y \in Place |->
     LET x == Third - 1 - (y % Third)
         shift == 2 * (y \div Third)
     IN  [i \in 0..7 |-> IF i = 0 THEN n2[x][shift + 1] ELSE IF i = 1 THEN n2[x][shift]
                         ELSE n1[y][i - 2]]]

\* The place of the checksum, which is the last nibble as it stands.
Checksum == Third + SECTOR_SIZE

\* The nibbles in the order of the field, nbuf2 from its end.
Field(n1, n2) ==
  [k \in 0..Checksum - 1 |-> IF k < Third THEN n2[Third - 1 - k] ELSE n1[k - Third]]

\* What is sent for each, before it goes through the table.
Sent(n1, n2) ==
  [k \in 0..Checksum |->
     IF k = 0 THEN Xor(Zero, Field(n1, n2)[0])
     ELSE IF k = Checksum THEN Field(n1, n2)[k - 1]
     ELSE Xor(Field(n1, n2)[k - 1], Field(n1, n2)[k])]

\* The bytes on the disk that stand for the nibbles.
nibl ==
  <<150, 151, 154, 155, 157, 158, 159, 166, 167, 171, 172, 173, 174, 175, 178, 179,
    180, 181, 182, 183, 185, 186, 187, 188, 189, 190, 191, 203, 205, 206, 207, 211,
    214, 215, 217, 218, 219, 220, 221, 222, 223, 229, 230, 231, 233, 234, 235, 236,
    237, 238, 239, 242, 243, 244, 245, 246, 247, 249, 250, 251, 252, 253, 254, 255>>

----------------------------------------------------------------------------
(* The reader of DOS: RWTS takes the exclusive or of all that it has read *)

\* What it has when it had acc and reads sent.
Accumulated(acc, sent) == Xor(acc, sent)

Read(sent) ==
  LET acc[k \in 0..Checksum] == Accumulated(IF k = 0 THEN Zero ELSE acc[k - 1], sent[k])
  IN  acc

\* The sector, if the checksum leaves nothing.
Decoded(sent) ==
  LET acc == Read(sent)
  IN  denibblize([y \in Place |-> acc[Third + y]], [x \in 0..Third - 1 |-> acc[Third - 1 - x]])
=============================================================================
