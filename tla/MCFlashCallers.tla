-------------------------- MODULE MCFlashCallers --------------------------
(* The callers on a chip of one reserved sector and one or two of drive.    *)
EXTENDS FlashCallers

CONSTANTS f, r

MCBits == {f, r}
MCFirstByteBits == {f}
Pages(a, b) == [p \in 0..1 |-> IF p = 0 THEN a ELSE b]

\* An erased page first, and pages that differ in the first byte.
MCPayloads == {Pages({f, r}, {f, r}), Pages({r}, {f})}
\* Neither can be programmed over the other without an erase.
ReadyPayloads == {Pages({r}, {r}), Pages({f}, {f})}
MCGarbage == {Pages({f, r}, {f, r}), Pages({}, {})}
\* With the view off, every read returns 0xFF.
MCErasedView == {Pages({f, r}, {f, r})}
=============================================================================
