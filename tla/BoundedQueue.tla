---------------------------- MODULE BoundedQueue ----------------------------
(* What a stream of stdio.c promises: a queue of at most Cap characters.  An *)
(* operation that cannot be done returns EOF and changes nothing.            *)
EXTENDS Naturals, Sequences

CONSTANTS Chars, Cap, EOF

VARIABLES queue, result

Init == queue = <<>> /\ result = EOF

Put(c) ==
  IF Len(queue) < Cap
    THEN queue' = Append(queue, c) /\ result' = c
    ELSE UNCHANGED queue /\ result' = EOF

Get ==
  IF queue # <<>>
    THEN queue' = Tail(queue) /\ result' = Head(queue)
    ELSE UNCHANGED queue /\ result' = EOF

\* Looks at the first character and leaves it: a get that is taken back.
Peek == queue # <<>> /\ result' = Head(queue) /\ UNCHANGED queue

Next == Get \/ Peek \/ \E c \in Chars : Put(c)

Spec == Init /\ [][Next]_<<queue, result>>
=============================================================================
