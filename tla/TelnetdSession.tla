--------------------------- MODULE TelnetdSession ---------------------------
(* One telnet session of telnetd.c: the two circular buffers between the    *)
(* socket and the pseudo-terminal, the loop of remove_iacs that takes the   *)
(* telnet commands out of buf1 in place, and iac_safe_write that doubles    *)
(* IACs on the way out of buf2.                                             *)
(*                                                                          *)
(* A pass of the main loop over the session is a sequence of steps, named   *)
(* by step; every read and write may be short or fail as its caller expects.*)
(* Of one of Talks the client sends the first sequence and the shell prints *)
(* the second, in pieces of any size.                                       *)
EXTENDS Integers, Sequences, SequencesExt

CONSTANTS
    BUFSIZE,  \* bytes in each buffer
    NAWS_LEN, \* bytes of IAC SB TELOPT_NAWS <window size> IAC SE
    Talks,    \* pairs of what a client sends and what its shell prints
    Fails     \* which of "kill" (a read or write fails), "again" (EAGAIN),
              \* "short" (short writes), "half" (a doubled IAC is written
              \* in part) happen

Byte == {"x", "y", "CR", "LF", "NUL", "IAC", "NOP", "SB", "NAWS", "SE", "DO"}

ASSUME SizeAssumption ==
    /\ BUFSIZE \in Nat \ {0}
    /\ NAWS_LEN \in Nat /\ NAWS_LEN > 2

ASSUME StreamAssumption ==
    \A t \in Talks : t[1] \in Seq(Byte) /\ t[2] \in Seq(Byte)

VARIABLES
    ts,       \* struct tsession's indices and sizes
    buf1,     \* from the socket to the pty
    buf2,     \* from the pty to the socket
    step,     \* the next step of the pass over the session
    ready,    \* what select() reported
    ptr, totty,      \* locals of remove_iacs, as indices into buf1
    stream, sent,    \* the client's stream and how much of it was read
    ptyout,          \* bytes written to the pty
    output, printed, \* the shell's output and how much of it was read
    sockout          \* bytes written to the socket

net == <<stream, sent, ptyout, output, printed, sockout>>
session_vars == <<ts, buf1, buf2, step, ready, ptr, totty, net>>

Index == 0 .. BUFSIZE - 1

SessionType ==
    [rdidx1 : Index, wridx1 : 0 .. BUFSIZE, size1 : 0 .. BUFSIZE,
     rdidx2 : Index, wridx2 : Index, size2 : 0 .. BUFSIZE]

\* xzalloc in make_new_session.
FreshSession ==
    [rdidx1 |-> 0, wridx1 |-> 0, size1 |-> 0,
     rdidx2 |-> 0, wridx2 |-> 0, size2 |-> 0]
FreshBuffer == [i \in Index |-> "NUL"]

SessionInit ==
    /\ ts = FreshSession
    /\ buf1 = FreshBuffer /\ buf2 = FreshBuffer
    /\ sent = 0 /\ ptyout = <<>>
    /\ printed = 0 /\ sockout = <<>>
    /\ step = "select" /\ ready = {}
    /\ ptr = 0 /\ totty = 0
    /\ \E t \in Talks : stream = t[1] /\ output = t[2]

-----------------------------------------------------------------------------

Least(a, b) == IF a <= b THEN a ELSE b

\* An index that has run off the end starts again.
Wrap(i) == IF i >= BUFSIZE THEN 0 ELSE i

\* What may be waited for: room and data in the buffers.  In the mutant
\* the last byte for the pty is not waited for.
SelectableLate ==
    {e \in {"ptyw", "sockr", "sockw", "ptyr"} :
        \/ e = "ptyw" /\ ts.size1 > 1
        \/ e = "sockr" /\ ts.size1 < BUFSIZE
        \/ e = "sockw" /\ ts.size2 > 0
        \/ e = "ptyr" /\ ts.size2 < BUFSIZE}

Selectable ==
    {e \in {"ptyw", "sockr", "sockw", "ptyr"} :
        \/ e = "ptyw" /\ ts.size1 > 0
        \/ e = "sockr" /\ ts.size1 < BUFSIZE
        \/ e = "sockw" /\ ts.size2 > 0
        \/ e = "ptyr" /\ ts.size2 < BUFSIZE}

\* select() returns, perhaps for another descriptor than this session's.  A
\* descriptor at the end of its stream is readable when the peer closes it.
SelectSession(r) ==
    /\ step = "select"
    /\ "sockr" \in r => sent < Len(stream) \/ "kill" \in Fails
    /\ "ptyr" \in r => printed < Len(output) \/ "kill" \in Fails
    /\ ready' = r
    /\ step' = "topty"
    /\ UNCHANGED <<ts, buf1, buf2, ptr, totty, net>>

-----------------------------------------------------------------------------
(* Buffer 1 to the pty.                                                     *)

ToPty ==
    /\ step = "topty"
    /\ \/ /\ "ptyw" \in ready
          /\ ptr' = ts.wridx1 /\ totty' = ts.wridx1
          /\ step' = "scan"
       \/ /\ "ptyw" \notin ready
          /\ step' = "tosock"
          /\ UNCHANGED <<ptr, totty>>
    /\ UNCHANGED <<ts, buf1, buf2, ready, net>>

End == ts.wridx1 + Least(BUFSIZE - ts.wridx1, ts.size1)

\* Is byte n after ptr among the bytes remove_iacs was given.  The mutant is
\* off by one.
HasOneMore(n) == ptr + n <= End

Has(n) == ptr + n < End

\* The command at ptr goes on beyond End.
Incomplete ==
    /\ Has(0) /\ buf1[ptr] = "IAC"
    /\ \/ ~Has(1)
       \/ Has(1) /\ ~Has(2) /\ buf1[ptr + 1] \notin {"NOP", "IAC"}
       \/ /\ Has(2) /\ ~Has(NAWS_LEN - 1)
          /\ buf1[ptr + 1] = "SB" /\ buf1[ptr + 2] = "NAWS"

\* A byte for the terminal, with the LF or NUL after a CR.
PlainByte ==
    LET crlf == /\ buf1[ptr] = "CR" /\ Has(1)
                /\ buf1[ptr + 1] \in {"LF", "NUL"}
    IN /\ buf1[ptr] # "IAC"
       /\ buf1' = [buf1 EXCEPT ![totty] = buf1[ptr]]
       /\ totty' = totty + 1
       /\ ptr' = IF crlf THEN ptr + 2 ELSE ptr + 1

\* IAC IAC stands for one byte.
LiteralIac ==
    /\ buf1[ptr] = "IAC" /\ buf1[ptr + 1] = "IAC"
    /\ buf1' = [buf1 EXCEPT ![totty] = "IAC"]
    /\ totty' = totty + 1
    /\ ptr' = ptr + 2

\* NOP, a window size, any other command of three bytes.
Command ==
    /\ buf1[ptr] = "IAC" /\ buf1[ptr + 1] # "IAC"
    /\ ptr' = CASE buf1[ptr + 1] = "NOP" -> ptr + 2
                [] buf1[ptr + 1] = "SB" /\ buf1[ptr + 2] = "NAWS" ->
                     ptr + NAWS_LEN
                [] OTHER -> ptr + 3
    /\ UNCHANGED <<buf1, totty>>

\* One round of remove_iacs' loop.
RemoveIac ==
    /\ step = "scan"
    /\ Has(0) /\ ~Incomplete
    /\ PlainByte \/ LiteralIac \/ Command
    /\ UNCHANGED <<ts, buf2, step, ready, net>>

\* The bytes for the terminal move up to ptr over the removed ones.  In the
\* mutant they do not.
StayBehind == buf1

Packed ==
    [i \in Index |-> IF i < ptr /\ i >= ptr - (totty - ts.wridx1)
                     THEN buf1[i - (ptr - totty)] ELSE buf1[i]]

RemoveIacsEnds ==
    /\ step = "scan"
    /\ ~Has(0) \/ Incomplete
    /\ ts' = [ts EXCEPT !.wridx1 = @ + (ptr - totty),
                        !.size1 = @ - (ptr - totty)]
    /\ buf1' = Packed
    /\ step' = "write"
    /\ UNCHANGED <<buf2, ready, ptr, totty, net>>

num_totty == ptr - ts.wridx1

\* safe_write accepts n bytes; a write of no bytes returns 0.
WritePty(n) ==
    /\ step = "write"
    /\ num_totty > 0 => n > 0
    /\ n < num_totty => "short" \in Fails
    /\ ptyout' = ptyout \o [i \in 1 .. n |-> buf1[ts.wridx1 + i - 1]]
    /\ ts' = [ts EXCEPT !.size1 = @ - n, !.wridx1 = Wrap(@ + n)]
    /\ step' = "tosock"
    /\ UNCHANGED <<buf1, buf2, ready, ptr, totty, stream, sent, output, printed,
                   sockout>>

WritePtyAgain ==
    /\ step = "write" /\ num_totty > 0 /\ "again" \in Fails
    /\ step' = "tosock"
    /\ UNCHANGED <<ts, buf1, buf2, ready, ptr, totty, net>>

-----------------------------------------------------------------------------
(* Buffer 2 to the socket.                                                  *)

Chunk2 == Least(BUFSIZE - ts.wridx2, ts.size2)

EncodePlain(s) == s

Encode(s) ==
    FlattenSeq([i \in 1 .. Len(s) |->
                  IF s[i] = "IAC" THEN <<"IAC", "IAC">> ELSE <<s[i]>>])

\* iac_safe_write returns k.  half: the last write took one of the two bytes
\* of a doubled IAC; it is counted all the same.
iac_safe_write(k, half) ==
    LET raw == Encode([i \in 1 .. k |-> buf2[ts.wridx2 + i - 1]])
    IN /\ step = "tosock" /\ "sockw" \in ready
       /\ k \in 1 .. Chunk2
       /\ k < Chunk2 => "short" \in Fails
       /\ half => "half" \in Fails /\ buf2[ts.wridx2 + k - 1] = "IAC"
       /\ sockout' = sockout \o IF half THEN Front(raw) ELSE raw
       /\ ts' = [ts EXCEPT !.size2 = @ - k, !.wridx2 = Wrap(@ + k)]
       /\ step' = "fromsock"
       /\ UNCHANGED <<buf1, buf2, ready, ptr, totty, stream, sent, ptyout,
                      output, printed>>

SkipSocket ==
    /\ step = "tosock"
    /\ "sockw" \notin ready \/ "again" \in Fails
    /\ step' = "fromsock"
    /\ UNCHANGED <<ts, buf1, buf2, ready, ptr, totty, net>>

-----------------------------------------------------------------------------
(* Into the buffers.                                                        *)

\* An empty buffer starts again at its beginning.
Reset(t) ==
    [size1 |-> t.size1,
     rdidx1 |-> IF t.size1 = 0 THEN 0 ELSE t.rdidx1,
     wridx1 |-> IF t.size1 = 0 THEN 0 ELSE t.wridx1,
     size2 |-> t.size2,
     rdidx2 |-> IF t.size2 = 0 THEN 0 ELSE t.rdidx2,
     wridx2 |-> IF t.size2 = 0 THEN 0 ELSE t.wridx2]

\* n bytes of s from its position at are read into buf at rdidx.
Fill(buf, rdidx, s, at, n) ==
    [i \in Index |-> IF i >= rdidx /\ i < rdidx + n THEN s[at + 1 + i - rdidx]
                     ELSE buf[i]]

\* A trailing NUL is not counted.
FromSocket(n) ==
    LET t == Reset(ts)
        count == IF stream[sent + n] = "NUL" THEN n - 1 ELSE n
    IN /\ step = "fromsock" /\ "sockr" \in ready
       /\ n \in 1 .. Least(BUFSIZE - t.rdidx1, BUFSIZE - t.size1)
       /\ sent + n <= Len(stream)
       /\ buf1' = Fill(buf1, t.rdidx1, stream, sent, n)
       /\ sent' = sent + n
       /\ ts' = [t EXCEPT !.size1 = @ + count, !.rdidx1 = Wrap(@ + count)]
       /\ step' = "frompty"
       /\ UNCHANGED <<buf2, ready, ptr, totty, stream, ptyout, output, printed,
                      sockout>>

SkipFromSocket ==
    /\ step = "fromsock"
    /\ "sockr" \notin ready \/ "again" \in Fails
    /\ ts' = Reset(ts)
    /\ step' = "frompty"
    /\ UNCHANGED <<buf1, buf2, ready, ptr, totty, net>>

FromPty(n) ==
    /\ step = "frompty" /\ "ptyr" \in ready
    /\ n \in 1 .. Least(BUFSIZE - ts.rdidx2, BUFSIZE - ts.size2)
    /\ printed + n <= Len(output)
    /\ buf2' = Fill(buf2, ts.rdidx2, output, printed, n)
    /\ printed' = printed + n
    /\ ts' = [ts EXCEPT !.size2 = @ + n, !.rdidx2 = Wrap(@ + n)]
    /\ step' = "select"
    /\ UNCHANGED <<buf1, ready, ptr, totty, stream, sent, ptyout, output,
                   sockout>>

SkipFromPty ==
    /\ step = "frompty"
    /\ "ptyr" \notin ready \/ "again" \in Fails
    /\ step' = "select"
    /\ UNCHANGED <<ts, buf1, buf2, ready, ptr, totty, net>>

\* A failed write, a failed read or the end of the file.
KillSession ==
    /\ "kill" \in Fails
    /\ \/ step = "write"
       \/ step = "tosock" /\ "sockw" \in ready
       \/ step = "fromsock" /\ "sockr" \in ready
       \/ step = "frompty" /\ "ptyr" \in ready
    /\ step' = "killed"
    /\ UNCHANGED <<ts, buf1, buf2, ready, ptr, totty, net>>

\* The next client gets a new session.
new_session ==
    /\ step = "killed"
    /\ ts' = FreshSession
    /\ buf1' = FreshBuffer /\ buf2' = FreshBuffer
    /\ sent' = 0 /\ ptyout' = <<>>
    /\ printed' = 0 /\ sockout' = <<>>
    /\ step' = "select"
    /\ UNCHANGED <<ready, ptr, totty, stream, output>>

SessionNext ==
    \/ \E r \in SUBSET Selectable : SelectSession(r)
    \/ ToPty
    \/ RemoveIac
    \/ RemoveIacsEnds
    \/ \E n \in 0 .. num_totty : WritePty(n)
    \/ WritePtyAgain
    \/ \E k \in 1 .. BUFSIZE, half \in BOOLEAN : iac_safe_write(k, half)
    \/ SkipSocket
    \/ \E n \in 1 .. BUFSIZE : FromSocket(n)
    \/ SkipFromSocket
    \/ \E n \in 1 .. BUFSIZE : FromPty(n)
    \/ SkipFromPty
    \/ KillSession
    \/ new_session

SessionSpec == SessionInit /\ [][SessionNext]_session_vars

\* The loop goes on, the client sends its stream, select() reports a pty that
\* stays writable and a socket that stays readable, and neither answers EAGAIN
\* for ever.
FairSession ==
    /\ SessionSpec
    /\ WF_session_vars(SessionNext)
    /\ SF_session_vars(\E r \in SUBSET Selectable : "ptyw" \in r /\ SelectSession(r))
    /\ SF_session_vars(\E n \in 0 .. num_totty : WritePty(n))
    /\ SF_session_vars(\E r \in SUBSET Selectable : "sockr" \in r /\ SelectSession(r))
    /\ SF_session_vars(\E n \in 1 .. BUFSIZE : FromSocket(n))

-----------------------------------------------------------------------------

\* The variables are of the declared kind.
SessionTypeOK ==
    /\ ts \in SessionType
    /\ buf1 \in [Index -> Byte]
    /\ buf2 \in [Index -> Byte]
    /\ step \in {"select", "topty", "scan", "write", "tosock", "fromsock",
               "frompty", "killed"}
    /\ ready \subseteq {"ptyw", "sockr", "sockw", "ptyr"}
    /\ ptr \in 0 .. BUFSIZE /\ totty \in 0 .. BUFSIZE

\* rd is size bytes beyond wr, around the end of the buffer.
Ring(rd, wr, size) ==
    rd = IF wr + size < BUFSIZE THEN wr + size ELSE wr + size - BUFSIZE

\* "If sizeN == 0, buffer is empty. If sizeN == BUFSIZE, buffer is full. In
\* both these cases rdidxN == wridxN."  Indices and sizes agree whatever
\* remove_iacs, short writes, resets and the ignored NULs do to them.
BuffersCircular ==
    /\ Ring(ts.rdidx1, ts.wridx1, ts.size1)
    /\ Ring(ts.rdidx2, ts.wridx2, ts.size2)
    /\ ts.wridx1 = BUFSIZE => step \in {"write", "killed"}

\* remove_iacs stays inside the bytes it was given and writes behind where
\* it reads.
ScanInside ==
    step = "scan" => /\ ts.wridx1 <= totty /\ totty <= ptr /\ ptr <= End
                   /\ End <= BUFSIZE

\* A read that select() promised has room: with none it would ask for 0
\* bytes, and the 0 it got would end the session.
ReadHasRoom ==
    /\ step \in {"topty", "scan", "write", "tosock", "fromsock"} =>
          ("sockr" \in ready => ts.size1 < BUFSIZE)
    /\ step \in {"topty", "scan", "write", "tosock", "fromsock", "frompty"} =>
          ("ptyr" \in ready => ts.size2 < BUFSIZE)

\* The main loop never works outside a session's buffers, and never takes a
\* full one for the end of the file, wherever commands are cut and writes fall
\* short.
BuffersSafe == SessionTypeOK /\ BuffersCircular /\ ScanInside /\ ReadHasRoom
=============================================================================
