---------------------------- MODULE MCSerial8250 ----------------------------
(* Small instances of Serial8250.                                           *)
EXTENDS Serial8250

CONSTANTS p1, p2

\* One port with the console on it, with a good chip and with a forgetful one;
\* two ports that share the line, with good chips and with one that forgets.
All == {"ok", "error", "write", "print"}
Four == {
    [ports |-> {p1}, forgetful |-> {}, inputs |-> All, opens |-> 2, events |-> 3],
    [ports |-> {p1}, forgetful |-> {p1}, inputs |-> All, opens |-> 2, events |-> 2],
    [ports |-> {p1, p2}, forgetful |-> {}, inputs |-> {"ok"}, opens |-> 2, events |-> 2],
    [ports |-> {p1, p2}, forgetful |-> {p2}, inputs |-> {}, opens |-> 2, events |-> 0]}
=============================================================================
