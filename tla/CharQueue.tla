----------------------------- MODULE CharQueue -----------------------------
(* What the transmit side of a serial port promises: the characters that   *)
(* were accepted leave in the order in which they were accepted, each one  *)
(* once, unless the whole queue is discarded.  out is what the last step   *)
(* put on the wire.                                                        *)
EXTENDS Integers, Sequences

CONSTANTS Char, Capacity

VARIABLES queue, out

qvars == <<queue, out>>

Init == queue = <<>> /\ out = <<>>

\* Accept the characters of s, if there is room for all of them.
Put(s) ==
    /\ Len(queue) + Len(s) <= Capacity
    /\ queue' = queue \o s
    /\ out' = <<>>

\* Send the n oldest characters.
Take(n) ==
    /\ queue' = SubSeq(queue, n + 1, Len(queue))
    /\ out' = SubSeq(queue, 1, n)

\* Discard what has not been sent.
Clear == queue' = <<>> /\ out' = <<>>

Next ==
    \/ \E s \in UNION {[1..n -> Char] : n \in 0..Capacity} : Put(s)
    \/ \E n \in 0..Len(queue) : Take(n)
    \/ Clear

Spec == Init /\ [][Next]_qvars
=============================================================================
