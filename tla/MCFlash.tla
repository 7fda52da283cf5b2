------------------------------ MODULE MCFlash ------------------------------
(* Flash on a chip of three sectors, one of each protection class, of two    *)
(* pages each.  A chunk is one page.                                         *)
EXTENDS Flash

CONSTANTS f, r  \* a bit of a page's first byte, and one of the rest

MCBits == {f, r}
MCFirstByteBits == {f}

Pages(a, b) == [p \in 0..1 |-> IF p = 0 THEN a ELSE b]

\* An erased sector; a sector whose first byte reads erased although the rest
\* does not; one that differs from both in the first byte.
SomePayloads == {Pages({f, r}, {f, r}), Pages({r}, {f})}

MCPayloads == {Pages({f, r}, {f, r}), Pages({f}, {r}), Pages({r}, {f, r})}

\* A bus that reads all ones, and one that reads all zeros.
MCGarbage == {Pages({f, r}, {f, r}), Pages({}, {})}
=============================================================================
