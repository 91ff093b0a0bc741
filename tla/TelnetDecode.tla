---------------------------- MODULE TelnetDecode ----------------------------
(* What a telnet stream means to the terminal, whatever pieces it arrives   *)
(* in, and what the terminal's output is on the wire: the references for    *)
(* remove_iacs and iac_safe_write.                                          *)
EXTENDS Integers, Sequences

CONSTANT NAWS_LEN

Drop(s, n) == SubSeq(s, n + 1, Len(s))

RECURSIVE Decode(_)
Decode(s) ==
    CASE s = <<>> -> <<>>
      [] s # <<>> /\ s[1] # "IAC" ->
           <<s[1]>> \o Decode(Drop(s, IF /\ s[1] = "CR" /\ Len(s) > 1
                                         /\ s[2] \in {"LF", "NUL"}
                                      THEN 2 ELSE 1))
      [] s = <<"IAC">> -> <<>>
      [] Len(s) > 1 /\ s[1] = "IAC" /\ s[2] = "NOP" -> Decode(Drop(s, 2))
      [] Len(s) > 1 /\ s[1] = "IAC" /\ s[2] = "IAC" ->
           <<"IAC">> \o Decode(Drop(s, 2))
      [] Len(s) = 2 /\ s[1] = "IAC" /\ s[2] \notin {"NOP", "IAC"} -> <<>>
      [] Len(s) > 2 /\ s[1] = "IAC" /\ s[2] \notin {"NOP", "IAC"} ->
           LET n == IF s[2] = "SB" /\ s[3] = "NAWS" THEN NAWS_LEN ELSE 3
           IN IF Len(s) < n THEN <<>> ELSE Decode(Drop(s, n))

RECURSIVE Doubled(_)
Doubled(s) ==
    IF s = <<>> THEN <<>>
    ELSE (IF s[1] = "IAC" THEN <<"IAC", "IAC">> ELSE <<s[1]>>)
         \o Doubled(Tail(s))
=============================================================================
