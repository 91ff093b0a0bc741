------------------------- MODULE MCTelnetdSession -------------------------
(* Small instances of TelnetdSession, with what the terminal should get.    *)
EXTENDS TelnetdSession, FiniteSets

Ref == INSTANCE TelnetDecode

\* Text, a NOP, a command of three bytes and a window size, in several orders.
Commands ==
    {<<"x", "IAC", "NOP", "y", "x">>,
     <<"IAC", "DO", "x", "y", "IAC", "DO", "y", "x">>,
     <<"x", "y", "IAC", "SB", "NAWS", "x", "IAC", "SE", "x">>,
     <<"IAC", "SB", "NAWS", "x", "IAC", "SE", "x">>}

\* Each of them against a little output, and output that wraps around.
Dialogues ==
    {<<s, <<"IAC", "y">> >> : s \in Commands}
    \cup {<< <<"x">>, <<"x", "IAC", "y", "x", "IAC", "y", "x", "IAC">> >>}

\* The terminal gets what the client's stream means, a prefix of it so far:
\* no command reaches it and no byte is lost, doubled or reordered, however
\* the stream is cut into reads and writes.
TtyGetsDecoded == IsPrefix(ptyout, Ref!Decode(SubSeq(stream, 1, sent)))

\* A command at the front of buf1 goes on at the beginning of the buffer, out
\* of remove_iacs' sight.
CommandWraps ==
    LET n == BUFSIZE - ts.wridx1
    IN /\ ts.size1 >= n /\ n > 0
       /\ buf1[ts.wridx1] = "IAC"
       /\ \/ n = 1
          \/ n = 2 /\ buf1[ts.wridx1 + 1] \notin {"NOP", "IAC"}
          \/ /\ n \in 3 .. NAWS_LEN - 1
             /\ buf1[ts.wridx1 + 1] = "SB" /\ buf1[ts.wridx1 + 2] = "NAWS"

\* All that the client sends is read and gets to the terminal in the end,
\* unless a command wraps around: then, and only then, the session's input
\* stops for good.
InputDelivered ==
    []<>(\/ ptyout = Ref!Decode(stream)
         \/ step = "killed"
         \/ CommandWraps)

\* What the socket was sent is what the shell printed, with every IAC
\* doubled ("Converting single IAC into double on output").
SocketGetsEncoded == IsPrefix(sockout, Ref!Doubled(SubSeq(output, 1, printed)))
=============================================================================
