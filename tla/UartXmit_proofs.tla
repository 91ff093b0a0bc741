--------------------------- MODULE UartXmit_proofs ---------------------------
(* Theorems about UartXmit, for every buffer size, load size, wake-up       *)
(* threshold, number of writers and echoers, and both chip variants; and    *)
(* about SerialDaemon, the log that uart_write and the console append to,   *)
(* for every size of the page and of a write, any number of processes that  *)
(* attach, and any interleaving with the kernel thread.                     *)
EXTENDS UartXmit, SerialDaemon, SequenceTheorems, TLAPS

\* The masked additions of circ_buf.h are additions that wrap once.
LEMMA ModSmall ==
    ASSUME NEW i \in Slot PROVE i % UART_XMIT_SIZE = i
BY SizeAssumption DEF Slot

\* The remainder is a slot.
LEMMA ModRange ==
    ASSUME NEW i \in Int PROVE i % UART_XMIT_SIZE \in Slot
BY SizeAssumption DEF Slot

\* The remainder of an index that ran past the end once.
LEMMA ModWrap ==
    ASSUME NEW i \in UART_XMIT_SIZE .. 2 * UART_XMIT_SIZE - 1
    PROVE  i % UART_XMIT_SIZE = i - UART_XMIT_SIZE
BY SizeAssumption

\* The remainder of a negative distance.
LEMMA ModNeg ==
    ASSUME NEW i \in Int, -UART_XMIT_SIZE <= i, i < 0
    PROVE  i % UART_XMIT_SIZE = i + UART_XMIT_SIZE
BY SizeAssumption

\* CIRC_CNT is the distance from tail to head, going round once.
LEMMA PendingValue ==
    ASSUME NEW s \in Port
    PROVE  /\ uart_circ_chars_pending(s) \in 0 .. UART_XMIT_SIZE - 1
           /\ uart_circ_chars_pending(s) =
                 IF s.tail <= s.head THEN s.head - s.tail
                 ELSE s.head - s.tail + UART_XMIT_SIZE
           /\ uart_circ_chars_pending(s) = 0 <=> uart_circ_empty(s)
<1>1. s.head \in Slot /\ s.tail \in Slot
  BY DEF Port
<1>2. CASE s.tail <= s.head
  <2>1. s.head - s.tail \in Slot
    BY <1>1, <1>2, SizeAssumption DEF Slot
  <2> QED
    BY <1>1, <1>2, <2>1, ModSmall, SizeAssumption
       DEF uart_circ_chars_pending, uart_circ_empty, Slot
<1>3. CASE ~(s.tail <= s.head)
  <2>1. (s.head - s.tail) % UART_XMIT_SIZE = s.head - s.tail + UART_XMIT_SIZE
    BY <1>1, <1>3, ModNeg, SizeAssumption DEF Slot
  <2> QED
    BY <1>1, <1>3, <2>1, SizeAssumption
       DEF uart_circ_chars_pending, uart_circ_empty, Slot
<1> QED
  BY <1>2, <1>3

-----------------------------------------------------------------------------
(* The operations on the record stay in Port.                               *)

\* Forgetting what is on the line keeps the type.
LEMMA QuietType ==
    ASSUME NEW s \in Port PROVE Quiet(s) \in Port
<1>1. <<>> \in Seq(Char)
  OBVIOUS
<1> DEFINE e == <<>>
<1>2. e \in Seq(Char)
  BY <1>1
<1>3. Quiet(s) = [s EXCEPT !.wire = e]
  BY DEF Quiet
<1> HIDE DEF e
<1> QED
  BY <1>2, <1>3 DEF Port

\* Stopping keeps the type.
LEMMA StopType ==
    ASSUME NEW s \in Port
    PROVE  /\ __stop_tx(s) \in Port
           /\ serial8250_stop_tx(s) \in Port
           /\ uart_write_wakeup(s) \in Port
BY FlagAssumption DEF Port, __stop_tx, serial8250_stop_tx, uart_write_wakeup

\* What transmit_chars puts on the line are characters of the buffer.
LEMMA BatchType ==
    ASSUME NEW s \in Port, NEW n \in Nat
    PROVE  [i \in 1..n |-> s.buf[(s.tail + i - 1) % UART_XMIT_SIZE]]
             \in Seq(Char)
<1>1. ASSUME NEW i \in 1..n
      PROVE  s.buf[(s.tail + i - 1) % UART_XMIT_SIZE] \in Char
  <2>1. s.tail + i - 1 \in Int
    BY SizeAssumption DEF Port, Slot
  <2>2. (s.tail + i - 1) % UART_XMIT_SIZE \in Slot
    BY <2>1, ModRange
  <2> QED
    BY <2>2 DEF Port
<1> QED
  BY <1>1

\* transmit_chars keeps head and tail inside the buffer.
LEMMA TransmitType ==
    ASSUME NEW s \in Port PROVE transmit_chars(s) \in Port
<1> DEFINE n == Least(tx_loadsz, uart_circ_chars_pending(s))
           b == [i \in 1..n |-> s.buf[(s.tail + i - 1) % UART_XMIT_SIZE]]
           t == [s EXCEPT !.tail = (s.tail + n) % UART_XMIT_SIZE,
                          !.wire = s.wire \o b]
           u == IF uart_circ_chars_pending(t) < WAKEUP_CHARS
                THEN uart_write_wakeup(t) ELSE t
<1>1. n \in Nat
  BY PendingValue, LoadAssumption, SizeAssumption DEF Least
<1>2. b \in Seq(Char)
  <2> HIDE DEF n
  <2> QED BY <1>1, BatchType
<1>3. (s.tail + n) % UART_XMIT_SIZE \in Slot
  <2> HIDE DEF n
  <2>1. s.tail + n \in Int
    BY <1>1, SizeAssumption DEF Port, Slot
  <2> QED BY <2>1, ModRange
<1>4. s.wire \o b \in Seq(Char)
  <2> HIDE DEF b
  <2> QED BY <1>2 DEF Port
<1>5. t \in Port
  <2> HIDE DEF n, b
  <2> QED BY <1>3, <1>4 DEF Port
<1>6. u \in Port
  <2> HIDE DEF t
  <2> QED BY <1>5, StopType
<1>7. [s EXCEPT !.x_char = "none"] \in Port
  BY DEF Port, Xchar
<1>8. transmit_chars(s) \in {[s EXCEPT !.x_char = "none"],
         serial8250_stop_tx(s), __stop_tx(s), __stop_tx(u), u}
  BY Zenon DEF transmit_chars
<1> HIDE DEF u
<1> QED
  BY <1>6, <1>7, <1>8, StopType

\* serial8250_start_tx keeps the type.
LEMMA StartType ==
    ASSUME NEW s \in Port, NEW temt \in BOOLEAN
    PROVE  serial8250_start_tx(s, temt) \in Port
<1> DEFINE a == [s EXCEPT !.thri = TRUE]
           b == IF ~s.thri /\ BugTxen /\ temt THEN transmit_chars(a) ELSE a
<1>1. a \in Port
  BY DEF Port
<1>2. b \in Port
  <2> HIDE DEF a
  <2> QED BY <1>1, TransmitType
<1>3. [b EXCEPT !.txdis = FALSE] \in Port
  <2> HIDE DEF b
  <2> QED BY <1>2 DEF Port
<1> QED
  BY <1>3 DEF serial8250_start_tx

\* So does an interrupt.
LEMMA HandleType ==
    ASSUME NEW s \in Port, NEW delta \in {"none", "cts", "nocts"},
           NEW thre \in BOOLEAN, NEW temt \in BOOLEAN
    PROVE  serial8250_handle_port(s, delta, thre, temt) \in Port
<1> DEFINE up == [s EXCEPT !.hw_stopped = FALSE]
           down == [s EXCEPT !.hw_stopped = TRUE]
           t == check_modem_status(s, delta, temt)
<1>1. up \in Port /\ down \in Port
  BY DEF Port
<1>2. uart_write_wakeup(serial8250_start_tx(up, temt)) \in Port
  <2> HIDE DEF up
  <2> QED BY <1>1, StartType, StopType
<1>3. serial8250_stop_tx(down) \in Port
  <2> HIDE DEF down
  <2> QED BY <1>1, StopType
<1>4. t \in {s, uart_write_wakeup(serial8250_start_tx(up, temt)),
             serial8250_stop_tx(down)}
  BY Zenon DEF check_modem_status, uart_handle_cts_change
<1>5. t \in Port
  <2> HIDE DEF t, up, down
  <2> QED BY <1>2, <1>3, <1>4
<1> HIDE DEF t
<1>6. serial8250_handle_port(s, delta, thre, temt) \in {transmit_chars(t), t}
  BY Zenon DEF serial8250_handle_port, t
<1> QED
  BY <1>5, <1>6, TransmitType

\* So does __uart_start.
LEMMA UartStartType ==
    ASSUME NEW s \in Port, NEW temt \in BOOLEAN
    PROVE  __uart_start(s, temt) \in Port
BY StartType, Zenon DEF __uart_start

-----------------------------------------------------------------------------
(* uart_write's loop.                                                       *)

\* The free slots, without the remainder.
LEMMA FreeValue ==
    ASSUME NEW s \in Port
    PROVE  /\ uart_circ_chars_free(s) \in 0 .. UART_XMIT_SIZE - 1
           /\ uart_circ_chars_free(s) =
                 UART_XMIT_SIZE - 1 - uart_circ_chars_pending(s)
           /\ uart_circ_chars_free(s) =
                 IF s.tail <= s.head THEN UART_XMIT_SIZE - 1 - s.head + s.tail
                 ELSE s.tail - 1 - s.head
<1>1. s.head \in Slot /\ s.tail \in Slot
  BY DEF Port
<1>2. CASE s.tail <= s.head
  <2>1. (s.tail - (s.head + 1)) % UART_XMIT_SIZE
           = s.tail - (s.head + 1) + UART_XMIT_SIZE
    BY <1>1, <1>2, ModNeg, SizeAssumption DEF Slot
  <2> QED
    BY <1>1, <1>2, <2>1, PendingValue, SizeAssumption
       DEF uart_circ_chars_free, Slot
<1>3. CASE ~(s.tail <= s.head)
  <2>1. (s.tail - (s.head + 1)) % UART_XMIT_SIZE = s.tail - (s.head + 1)
    <3>1. s.tail - (s.head + 1) \in Slot
      BY <1>1, <1>3, SizeAssumption DEF Slot
    <3> QED BY <3>1, ModSmall
  <2> QED
    BY <1>1, <1>3, <2>1, PendingValue, SizeAssumption
       DEF uart_circ_chars_free, Slot
<1> QED
  BY <1>2, <1>3

\* SpaceToEnd agrees with its definition by cases.
LEMMA SpaceValue ==
    ASSUME NEW s \in Port
    PROVE  /\ SpaceToEnd(s) \in 0 .. UART_XMIT_SIZE
           /\ SpaceToEnd(s) = IF s.tail > s.head THEN s.tail - 1 - s.head
                              ELSE IF s.tail = 0 THEN UART_XMIT_SIZE - 1 - s.head
                              ELSE UART_XMIT_SIZE - s.head
<1>1. s.head \in Slot /\ s.tail \in Slot
  BY DEF Port
<1> DEFINE end == UART_XMIT_SIZE - 1 - s.head
<1>2. CASE s.tail <= s.head
  <2>1. end + s.tail \in Slot
    BY <1>1, <1>2, SizeAssumption DEF Slot
  <2>2. (end + s.tail) % UART_XMIT_SIZE = end + s.tail
    BY <2>1, ModSmall
  <2> QED
    BY <1>1, <1>2, <2>2, SizeAssumption DEF SpaceToEnd, Slot
<1>3. CASE ~(s.tail <= s.head)
  <2> DEFINE k == end + s.tail
  <2>1. k \in UART_XMIT_SIZE .. 2 * UART_XMIT_SIZE - 1
    BY <1>1, <1>3, SizeAssumption DEF Slot
  <2>2. k % UART_XMIT_SIZE = k - UART_XMIT_SIZE
    <3> HIDE DEF k
    <3> QED BY <2>1, ModWrap
  <2> QED
    BY <1>1, <1>3, <2>2, SizeAssumption DEF SpaceToEnd, Slot
<1> QED
  BY <1>2, <1>3

\* One round of the loop: the buffer stays well formed and head moves by the
\* number of characters copied.
LEMMA CopyRound ==
    ASSUME NEW s \in Port, NEW data \in Seq(Char)
    PROVE  /\ CopyToEnd(s, data) \in Port
           /\ Copied(s, data) \in 0 .. Len(data)
           /\ Copied(s, data) <= SpaceToEnd(s)
           /\ CopyToEnd(s, data).tail = s.tail
           /\ CopyToEnd(s, data).head =
                IF s.head + Copied(s, data) = UART_XMIT_SIZE THEN 0
                ELSE s.head + Copied(s, data)
<1> DEFINE c == Copied(s, data)
           nb == [i \in Slot |-> IF i \in s.head .. s.head + c - 1
                                 THEN data[i - s.head + 1] ELSE s.buf[i]]
           nh == (s.head + c) % UART_XMIT_SIZE
<1>1. s.head \in Slot /\ s.tail \in Slot /\ Len(data) \in Nat
  BY DEF Port
<1>2. c \in 0 .. Len(data) /\ c <= SpaceToEnd(s)
  BY <1>1, SpaceValue, SizeAssumption DEF Copied, Least
<1>3. s.head + c \in 0 .. UART_XMIT_SIZE
  <2> HIDE DEF c
  <2> QED BY <1>1, <1>2, SpaceValue, SizeAssumption DEF Slot
<1>4. nh \in Slot /\ nh = IF s.head + c = UART_XMIT_SIZE THEN 0
                          ELSE s.head + c
  <2> HIDE DEF c
  <2>1. CASE s.head + c = UART_XMIT_SIZE
    BY <1>3, <2>1, ModWrap, SizeAssumption DEF Slot
  <2>2. CASE s.head + c # UART_XMIT_SIZE
    BY <1>3, <2>2, ModSmall, SizeAssumption DEF Slot
  <2> QED BY <2>1, <2>2
<1>5. nb \in [Slot -> Char]
  <2> HIDE DEF c
  <2>1. ASSUME NEW i \in Slot, i \in s.head .. s.head + c - 1
        PROVE  data[i - s.head + 1] \in Char
    <3>1. i - s.head + 1 \in 1 .. Len(data)
      BY <1>1, <1>2, <2>1 DEF Slot
    <3> QED BY <3>1
  <2>2. \A i \in Slot : s.buf[i] \in Char
    BY DEF Port
  <2> QED BY <2>1, <2>2
<1>6. CopyToEnd(s, data) = [s EXCEPT !.buf = nb, !.head = nh]
  BY DEF CopyToEnd, Copied
<1> HIDE DEF nb, nh
<1>7. [s EXCEPT !.buf = nb, !.head = nh] \in Port
  BY <1>4, <1>5 DEF Port
<1>8. /\ [s EXCEPT !.buf = nb, !.head = nh].tail = s.tail
      /\ [s EXCEPT !.buf = nb, !.head = nh].head = nh
  BY DEF Port
<1> QED
  BY <1>2, <1>4, <1>6, <1>7, <1>8

\* SpaceToEnd by cases, and the arithmetic of two rounds.
Space(h, tl) == IF tl > h THEN tl - 1 - h
                ELSE IF tl = 0 THEN UART_XMIT_SIZE - 1 - h
                ELSE UART_XMIT_SIZE - h

TwoRounds(h, tl, l, c, h1, d, h2) ==
    /\ h \in Slot /\ tl \in Slot /\ h1 \in Slot /\ h2 \in Slot
    /\ l \in Nat /\ c \in Int /\ d \in Int
    /\ c = Least(l, Space(h, tl))
    /\ h1 = IF h + c = UART_XMIT_SIZE THEN 0 ELSE h + c
    /\ d = Least(l - c, Space(h1, tl))
    /\ h2 = IF h1 + d = UART_XMIT_SIZE THEN 0 ELSE h1 + d

\* After two rounds either all of the data is copied or the buffer is full.
LEMMA TwoRoundsArithmetic ==
    ASSUME NEW h, NEW tl, NEW l, NEW c, NEW h1, NEW d, NEW h2,
           TwoRounds(h, tl, l, c, h1, d, h2)
    PROVE  /\ c + d = Least(l, IF tl <= h THEN UART_XMIT_SIZE - 1 - h + tl
                               ELSE tl - 1 - h)
           /\ c + d \in 0 .. UART_XMIT_SIZE - 1
           /\ c + d <= l
           /\ h2 - h = c + d \/ h2 - h = c + d - UART_XMIT_SIZE
           /\ c + d = l \/ Space(h2, tl) = 0
<1>1. UART_XMIT_SIZE \in Nat /\ UART_XMIT_SIZE >= 2
  BY SizeAssumption
<1>2. CASE tl > h
  BY <1>1, <1>2 DEF TwoRounds, Slot, Space, Least
<1>3. CASE tl <= h /\ tl = 0
  BY <1>1, <1>3 DEF TwoRounds, Slot, Space, Least
<1>4. CASE tl <= h /\ tl # 0
  BY <1>1, <1>4 DEF TwoRounds, Slot, Space, Least
<1> QED
  BY <1>1, <1>2, <1>3, <1>4 DEF TwoRounds, Slot

\* Going round once, the distance between two positions is read off mod.
LEMMA Distance ==
    ASSUME NEW h \in Slot, NEW h2 \in Slot, NEW n \in 0 .. UART_XMIT_SIZE - 1,
           h2 - h = n \/ h2 - h = n - UART_XMIT_SIZE
    PROVE  (h2 - h) % UART_XMIT_SIZE = n
<1> DEFINE k == h2 - h
<1>1. CASE h2 - h = n
  <2>1. n \in Slot
    BY DEF Slot
  <2> QED BY <1>1, <2>1, ModSmall
<1>2. CASE h2 - h = n - UART_XMIT_SIZE
  <2>1. k \in Int /\ -UART_XMIT_SIZE <= k /\ k < 0
    BY <1>2, SizeAssumption DEF Slot
  <2>2. k = n - UART_XMIT_SIZE
    BY <1>2
  <2> HIDE DEF k
  <2>3. k % UART_XMIT_SIZE = k + UART_XMIT_SIZE
    BY <2>1, ModNeg
  <2>4. k % UART_XMIT_SIZE = n
    BY <2>2, <2>3, SizeAssumption
  <2> QED BY <2>4 DEF k
<1> QED
  BY <1>1, <1>2

\* The whole loop: two rounds accept as many characters as there are or as
\* fit, after which a third round would copy nothing.
LEMMA TwoRoundsSuffice ==
    ASSUME NEW s \in Port, NEW data \in Seq(Char)
    PROVE  LET t == WriteLoop(s, data)
               ret == (t.head - s.head) % UART_XMIT_SIZE
           IN /\ t \in Port
              /\ t.tail = s.tail
              /\ ret = Least(Len(data), uart_circ_chars_free(s))
              /\ ret \in 0 .. Len(data)
              /\ ret = Len(data) \/ SpaceToEnd(t) = 0
<1> DEFINE a == CopyToEnd(s, data)
           more == SubSeq(data, Copied(s, data) + 1, Len(data))
           t == CopyToEnd(a, more)
           c == Copied(s, data)
           d == Copied(a, more)
<1>1. /\ a \in Port /\ a.tail = s.tail
      /\ c \in 0 .. Len(data)
      /\ a.head = IF s.head + c = UART_XMIT_SIZE THEN 0 ELSE s.head + c
  BY CopyRound
<1>2. Len(data) \in Nat
  OBVIOUS
<1>3. more \in Seq(Char) /\ Len(more) = Len(data) - c
  BY <1>1, <1>2, SubSeqProperties
<1>4. c = Least(Len(data), Space(s.head, s.tail))
  BY SpaceValue DEF Copied, Space
<1> HIDE DEF a, c, more
<1>5. /\ t \in Port /\ t.tail = s.tail
      /\ d \in 0 .. Len(more)
      /\ t.head = IF a.head + d = UART_XMIT_SIZE THEN 0 ELSE a.head + d
  BY <1>1, <1>3, CopyRound
<1>6. d = Least(Len(data) - c, Space(a.head, s.tail))
  BY <1>1, <1>3, SpaceValue DEF Copied, Space
<1>7. WriteLoop(s, data) = t
  BY DEF WriteLoop, a, more, c
<1>8. SpaceToEnd(t) = Space(t.head, s.tail)
  <2> HIDE DEF t
  <2> QED BY <1>5, SpaceValue DEF Space
<1> HIDE DEF t, d
<1>9. /\ s.head \in Slot /\ s.tail \in Slot /\ a.head \in Slot
      /\ t.head \in Slot /\ c \in Int /\ d \in Int
  BY <1>1, <1>2, <1>3, <1>5 DEF Port
<1>a. TwoRounds(s.head, s.tail, Len(data), c, a.head, d, t.head)
  BY <1>1, <1>2, <1>4, <1>5, <1>6, <1>9 DEF TwoRounds
<1>10. /\ c + d = Least(Len(data),
                        IF s.tail <= s.head
                        THEN UART_XMIT_SIZE - 1 - s.head + s.tail
                        ELSE s.tail - 1 - s.head)
       /\ c + d \in 0 .. UART_XMIT_SIZE - 1
       /\ c + d <= Len(data)
       /\ t.head - s.head = c + d \/ t.head - s.head = c + d - UART_XMIT_SIZE
       /\ c + d = Len(data) \/ Space(t.head, s.tail) = 0
  BY <1>a, TwoRoundsArithmetic
<1>11. c + d = Least(Len(data), uart_circ_chars_free(s))
  BY <1>10, FreeValue
<1>12. (t.head - s.head) % UART_XMIT_SIZE = c + d
  <2> DEFINE n == c + d
             h == s.head
             h2 == t.head
  <2>1. /\ n \in 0 .. UART_XMIT_SIZE - 1 /\ h \in Slot /\ h2 \in Slot
        /\ h2 - h = n \/ h2 - h = n - UART_XMIT_SIZE
    BY <1>9, <1>10, SizeAssumption
  <2> HIDE DEF n, h, h2
  <2>2. (h2 - h) % UART_XMIT_SIZE = n
    BY <2>1, Distance
  <2> QED BY <2>2 DEF n, h, h2
<1>13. c + d \in 0 .. Len(data)
  BY <1>2, <1>10
<1> QED
  BY <1>5, <1>7, <1>8, <1>10, <1>11, <1>12, <1>13

-----------------------------------------------------------------------------
(* Characters never get stuck.                                              *)

\* NoStall without its excuse: the record alone.
Armed(s) == ~uart_circ_empty(s) /\ ~uart_tx_stopped(s) => s.thri /\ ~s.txdis

\* transmit_chars turns the interrupt off only on a stopped or empty port,
\* and the transmitter only on a stopped one.
LEMMA TransmitThri ==
    ASSUME NEW s \in Port
    PROVE  ~uart_circ_empty(transmit_chars(s)) /\ ~uart_tx_stopped(transmit_chars(s))
             => /\ transmit_chars(s).thri = s.thri
                /\ transmit_chars(s).txdis = s.txdis
                /\ ~uart_circ_empty(s) /\ ~uart_tx_stopped(s)
<1> DEFINE n == Least(tx_loadsz, uart_circ_chars_pending(s))
           b == [i \in 1..n |-> s.buf[(s.tail + i - 1) % UART_XMIT_SIZE]]
           nt == (s.tail + n) % UART_XMIT_SIZE
           nw == s.wire \o b
           t == [s EXCEPT !.tail = nt, !.wire = nw]
           u == IF uart_circ_chars_pending(t) < WAKEUP_CHARS
                THEN uart_write_wakeup(t) ELSE t
<1>1. CASE s.x_char # "none"
  <2>1. transmit_chars(s) = [s EXCEPT !.x_char = "none"]
    BY <1>1, Zenon DEF transmit_chars
  <2> QED
    BY <2>1 DEF Port, uart_circ_empty, uart_tx_stopped
<1>2. CASE s.x_char = "none" /\ uart_tx_stopped(s)
  <2>1. transmit_chars(s) = serial8250_stop_tx(s)
    BY <1>2, Zenon DEF transmit_chars
  <2> QED
    BY <1>2, <2>1 DEF Port, uart_tx_stopped, serial8250_stop_tx, __stop_tx
<1>3. CASE s.x_char = "none" /\ ~uart_tx_stopped(s) /\ uart_circ_empty(s)
  <2>1. transmit_chars(s) = __stop_tx(s)
    BY <1>3, Zenon DEF transmit_chars
  <2> QED
    BY <1>3, <2>1 DEF Port, uart_circ_empty, __stop_tx
<1>4. CASE s.x_char = "none" /\ ~uart_tx_stopped(s) /\ ~uart_circ_empty(s)
  <2>1. transmit_chars(s) = IF uart_circ_empty(u) THEN __stop_tx(u) ELSE u
    BY <1>4, Zenon DEF transmit_chars
  <2> HIDE DEF nt, nw
  <2>2. t.thri = s.thri /\ t.txdis = s.txdis
    BY DEF Port
  <2>3. u.thri = s.thri /\ u.txdis = s.txdis
    <3>1. u \in {t, [t EXCEPT !.tlet = TRUE]}
      <4> HIDE DEF t
      <4> QED BY DEF uart_write_wakeup
    <3>2. [t EXCEPT !.tlet = TRUE].thri = s.thri
          /\ [t EXCEPT !.tlet = TRUE].txdis = s.txdis
      BY DEF Port
    <3> HIDE DEF u, t
    <3> QED BY <2>2, <3>1, <3>2
  <2> HIDE DEF u
  <2>4. uart_circ_empty(u) => uart_circ_empty(__stop_tx(u))
    BY DEF uart_circ_empty, __stop_tx
  <2> QED
    BY <1>4, <2>1, <2>3, <2>4
<1> QED
  BY <1>1, <1>2, <1>3, <1>4

\* transmit_chars leaves the interrupt enabled while characters are left.
LEMMA TransmitArmed ==
    ASSUME NEW s \in Port, Armed(s)
    PROVE  Armed(transmit_chars(s))
BY TransmitThri DEF Armed

\* start_tx arms the port whatever its state was.
LEMMA StartArmed ==
    ASSUME NEW s \in Port, NEW temt \in BOOLEAN
    PROVE  Armed(serial8250_start_tx(s, temt))
<1> DEFINE a == [s EXCEPT !.thri = TRUE, !.txdis = FALSE]
           a0 == [s EXCEPT !.thri = TRUE]
           b == IF ~s.thri /\ BugTxen /\ temt THEN transmit_chars(a0) ELSE a0
<1>1. a0 \in Port /\ a0.thri
  BY DEF Port
<1>2. serial8250_start_tx(s, temt) = [b EXCEPT !.txdis = FALSE]
  BY DEF serial8250_start_tx
<1>3. b \in Port
  <2> HIDE DEF a0
  <2> QED BY <1>1, TransmitType
<1>4. ~uart_circ_empty(b) /\ ~uart_tx_stopped(b) => b.thri
  <2>1. ASSUME NEW r \in Port, r.thri,
               ~uart_circ_empty(transmit_chars(r)),
               ~uart_tx_stopped(transmit_chars(r))
        PROVE  transmit_chars(r).thri
    BY <2>1, TransmitThri
  <2> HIDE DEF a0
  <2> QED BY <1>1, <2>1
<1> HIDE DEF b
<1>5. [b EXCEPT !.txdis = FALSE].txdis = FALSE
      /\ [b EXCEPT !.txdis = FALSE].thri = b.thri
      /\ uart_circ_empty([b EXCEPT !.txdis = FALSE]) = uart_circ_empty(b)
      /\ uart_tx_stopped([b EXCEPT !.txdis = FALSE]) = uart_tx_stopped(b)
  BY <1>3 DEF Port, uart_circ_empty, uart_tx_stopped
<1> QED
  BY <1>2, <1>4, <1>5 DEF Armed

\* __uart_start enables it when there are characters to send.
LEMMA UartStartArmed ==
    ASSUME NEW s \in Port, NEW temt \in BOOLEAN
    PROVE  Armed(__uart_start(s, temt))
BY StartArmed DEF __uart_start, Armed

\* An interrupt leaves a port with characters armed, or stopped.
LEMMA HandleArmed ==
    ASSUME NEW s \in Port, NEW delta \in {"none", "cts", "nocts"},
           NEW thre \in BOOLEAN, NEW temt \in BOOLEAN, Armed(s)
    PROVE  Armed(serial8250_handle_port(s, delta, thre, temt))
<1> DEFINE up == [s EXCEPT !.hw_stopped = FALSE]
           down == [s EXCEPT !.hw_stopped = TRUE]
           st == serial8250_start_tx(up, temt)
           t == check_modem_status(s, delta, temt)
<1>1. up \in Port /\ down \in Port
  BY DEF Port
<1>2. st \in Port /\ Armed(st)
  <2> HIDE DEF up
  <2> QED BY <1>1, StartType, StartArmed
<1>3. uart_write_wakeup(st) \in Port /\ Armed(uart_write_wakeup(st))
  <2> HIDE DEF st
  <2>1. uart_write_wakeup(st) \in Port
    BY <1>2, StopType
  <2> QED
    BY <1>2, <2>1
       DEF uart_write_wakeup, Armed, Port, uart_circ_empty, uart_tx_stopped
<1>4. serial8250_stop_tx(down) \in Port /\ Armed(serial8250_stop_tx(down))
  <2>1. down.hw_stopped
    BY DEF Port
  <2> HIDE DEF down
  <2>2. serial8250_stop_tx(down) \in Port
    BY <1>1, StopType
  <2> QED
    BY <1>1, <2>1, <2>2
       DEF serial8250_stop_tx, __stop_tx, Armed, Port, uart_tx_stopped
<1>5. t \in {s, uart_write_wakeup(st), serial8250_stop_tx(down)}
  BY Zenon DEF check_modem_status, uart_handle_cts_change
<1>6. t \in Port /\ Armed(t)
  <2> HIDE DEF t, st, down
  <2> QED BY <1>3, <1>4, <1>5
<1>7. serial8250_handle_port(s, delta, thre, temt) \in {transmit_chars(t), t}
  BY Zenon DEF serial8250_handle_port
<1> HIDE DEF t
<1> QED
  BY <1>6, <1>7, TransmitArmed

-----------------------------------------------------------------------------

\* uart_stop runs with tty->stopped still set: start_tty waits for it.
IInv == TypeOK /\ NoStall /\ (flow = "stopping" => port.stopped)

\* NoStall in terms of Armed.
LEMMA NoStallArmed == (StartPending \/ Armed(port)) <=> NoStall
BY DEF NoStall, Armed

\* Steps that leave the control state of the port's users alone.
LEMMA FieldsType ==
    ASSUME NEW s \in Port
    PROVE  /\ \A x \in Xchar : [Quiet(s) EXCEPT !.x_char = x] \in Port
           /\ \A x \in BOOLEAN : [Quiet(s) EXCEPT !.stopped = x] \in Port
           /\ [Quiet(s) EXCEPT !.tlet = FALSE] \in Port
           /\ [Quiet(s) EXCEPT !.head = 0, !.tail = 0] \in Port
           /\ \A c \in Char :
                [Quiet(s) EXCEPT !.buf[s.head] = c,
                                 !.head = (s.head + 1) % UART_XMIT_SIZE] \in Port
<1> DEFINE q == Quiet(s)
<1>1. q \in Port
  BY QuietType
<1>2. 0 \in Slot
  BY SizeAssumption DEF Slot
<1>3. (s.head + 1) % UART_XMIT_SIZE \in Slot
  <2>1. s.head + 1 \in Int
    BY SizeAssumption DEF Port, Slot
  <2> QED BY <2>1, ModRange
<1>4. ASSUME NEW c \in Char
      PROVE  [q EXCEPT !.buf[s.head] = c,
                       !.head = (s.head + 1) % UART_XMIT_SIZE] \in Port
  <2> DEFINE nb == [q.buf EXCEPT ![s.head] = c]
             nh == (s.head + 1) % UART_XMIT_SIZE
  <2> HIDE DEF q
  <2>1. nb \in [Slot -> Char]
    BY <1>1 DEF Port
  <2>2. nh \in Slot
    BY <1>3
  <2>3. [q EXCEPT !.buf[s.head] = c, !.head = nh] = [q EXCEPT !.buf = nb, !.head = nh]
    <3> HIDE DEF nh
    <3> QED BY <1>1 DEF Port
  <2> HIDE DEF nb, nh
  <2>4. [q EXCEPT !.buf = nb, !.head = nh] \in Port
    BY <1>1, <2>1, <2>2 DEF Port
  <2> QED BY <2>3, <2>4 DEF nh
<1> HIDE DEF q
<1>5. /\ \A x \in Xchar : [q EXCEPT !.x_char = x] \in Port
      /\ \A x \in BOOLEAN : [q EXCEPT !.stopped = x] \in Port
      /\ [q EXCEPT !.tlet = FALSE] \in Port
      /\ [q EXCEPT !.head = 0, !.tail = 0] \in Port
  BY <1>1, <1>2 DEF Port
<1> QED
  BY <1>4, <1>5 DEF q

\* What is on the line does not matter to NoStall.
LEMMA QuietArmed ==
    ASSUME NEW s \in Port
    PROVE  Armed(Quiet(s)) <=> Armed(s)
BY DEF Quiet, Armed, Port, uart_circ_empty, uart_tx_stopped

\* The transmitter-empty bit is a Boolean.
LEMMA TemtType == Temt \subseteq BOOLEAN
BY DEF Temt

\* What a writer submits is a sequence of characters, not longer than
\* MaxWrite.
LEMMA DataType ==
    ASSUME NEW data \in Data PROVE data \in Seq(Char) /\ Len(data) \in 1..MaxWrite
BY WriteAssumption DEF Data

\* The transmit state is well formed in every reachable state.
LEMMA TypeStep == TypeOK /\ [Next]_vars => TypeOK'
<1> SUFFICES ASSUME TypeOK, [Next]_vars PROVE TypeOK'
  OBVIOUS
<1> USE DEF TypeOK
<1>0. port \in Port /\ Quiet(port) \in Port
  BY QuietType
<1>1. ASSUME NEW p \in Writers, NEW data \in Data, uart_write(p, data)
      PROVE  TypeOK'
  <2> DEFINE s == WriteLoop(Quiet(port), data)
             ret == (s.head - port.head) % UART_XMIT_SIZE
  <2>1. data \in Seq(Char) /\ Len(data) \in 1..MaxWrite
    BY DataType
  <2>2. Quiet(port).head = port.head
    BY DEF Quiet, Port
  <2>3. s \in Port /\ ret \in 0 .. Len(data)
    BY <1>0, <2>1, <2>2, TwoRoundsSuffice
  <2> HIDE DEF s, ret
  <2>4. Len(data) - ret \in 0 .. MaxWrite
    BY <2>1, <2>3, WriteAssumption
  <2>5. /\ port' = s
        /\ rest' = [rest EXCEPT ![p] = Len(data) - ret]
        /\ again' = [again EXCEPT ![p] = ret > 0]
        /\ pc' = [pc EXCEPT ![p] = "starting"]
        /\ UNCHANGED <<woken, flow, xpc, throttled>>
    BY <1>1 DEF uart_write, s, ret
  <2> QED
    BY <2>3, <2>4, <2>5 DEF Procs
<1>2. ASSUME NEW p \in Writers, NEW temt \in Temt, WriteStart(p, temt)
      PROVE  TypeOK'
  <2>1. port' \in Port
    BY <1>0, <1>2, UartStartType, TemtType DEF WriteStart
  <2> QED
    BY <1>2, <2>1 DEF WriteStart, Procs
<1>3. ASSUME NEW p \in Writers, WriterWakes(p) PROVE TypeOK'
  BY <1>3 DEF WriterWakes, Procs
<1>4. ASSUME NEW e \in Echoers, NEW c \in Char, uart_put_char(e, c)
      PROVE  TypeOK'
  <2>1. port' \in Port
    BY <1>0, <1>4, FieldsType DEF uart_put_char
  <2> QED
    BY <1>4, <2>1 DEF uart_put_char, Procs
<1>5. ASSUME NEW e \in Echoers, NEW temt \in Temt, uart_flush_chars(e, temt)
      PROVE  TypeOK'
  <2>1. port' \in Port
    BY <1>0, <1>5, UartStartType, TemtType DEF uart_flush_chars
  <2> QED
    BY <1>5, <2>1 DEF uart_flush_chars, Procs
<1>6. ASSUME uart_flush_buffer \/ stop_tty \/ start_tty PROVE TypeOK'
  <2>1. port' \in Port
    BY <1>0, <1>6, FieldsType DEF uart_flush_buffer, stop_tty, start_tty
  <2> QED
    BY <1>6, <2>1
       DEF uart_flush_buffer, stop_tty, start_tty, tty_wakeup, Procs
<1>7. ASSUME uart_stop PROVE TypeOK'
  <2>1. port' \in Port
    BY <1>0, <1>7, StopType DEF uart_stop
  <2> QED
    BY <1>7, <2>1 DEF uart_stop
<1>8. ASSUME NEW temt \in Temt, uart_start(temt) \/ SendXcharStart(temt)
      PROVE  TypeOK'
  <2>1. port' \in Port
    BY <1>0, <1>8, UartStartType, StartType, TemtType
       DEF uart_start, SendXcharStart
  <2> QED
    BY <1>8, <2>1 DEF uart_start, SendXcharStart, tty_wakeup
<1>9. ASSUME uart_throttle \/ uart_unthrottle \/ UnthrottleClear PROVE TypeOK'
  <2>1. port' \in Port
    BY <1>0, <1>9, FieldsType
       DEF uart_throttle, uart_unthrottle, UnthrottleClear, Xchar
  <2> QED
    BY <1>9, <2>1 DEF uart_throttle, uart_unthrottle, UnthrottleClear
<1>10. ASSUME NEW delta \in {"none", "cts", "nocts"}, NEW thre \in BOOLEAN,
              NEW temt \in Temt, serial8250_interrupt(delta, thre, temt)
       PROVE  TypeOK'
  <2>1. port' \in Port
    BY <1>0, <1>10, HandleType, TemtType DEF serial8250_interrupt
  <2> QED
    BY <1>10, <2>1 DEF serial8250_interrupt
<1>11. ASSUME uart_tasklet_action PROVE TypeOK'
  <2>1. port' \in Port
    BY <1>0, <1>11, FieldsType DEF uart_tasklet_action
  <2> QED
    BY <1>11, <2>1 DEF uart_tasklet_action, tty_wakeup
<1>12. CASE UNCHANGED vars
  BY <1>12 DEF vars
<1> QED
  BY <1>1, <1>2, <1>3, <1>4, <1>5, <1>6, <1>7, <1>8, <1>9, <1>10, <1>11, <1>12
     DEF Next

\* A port just opened has nothing to send.
LEMMA InitIInv == Init => IInv
<1> SUFFICES ASSUME Init PROVE IInv
  OBVIOUS
<1>1. port \in Port
  <2>1. PICK c \in Char :
           port = [buf |-> [i \in Slot |-> c], head |-> 0, tail |-> 0,
                   x_char |-> "none", stopped |-> FALSE, hw_stopped |-> FALSE,
                   thri |-> FALSE, txdis |-> FALSE, tlet |-> FALSE,
                   wire |-> <<>>]
    BY DEF Init
  <2>2. 0 \in Slot /\ [i \in Slot |-> c] \in [Slot -> Char]
    BY SizeAssumption DEF Slot
  <2>3. <<>> \in Seq(Char)
    OBVIOUS
  <2> QED
    BY <2>1, <2>2, <2>3 DEF Port, Xchar
<1>2. TypeOK
  <2>1. rest \in [Writers -> 0..MaxWrite]
    BY WriteAssumption DEF Init
  <2> QED
    BY <1>1, <2>1 DEF Init, TypeOK
<1>3. uart_circ_empty(port)
  BY DEF Init, uart_circ_empty
<1> QED
  BY <1>2, <1>3 DEF IInv, NoStall, Init

\* Every step keeps NoStall, one case per action.
LEMMA NoStallStep == IInv /\ [Next]_vars => NoStall'
<1> SUFFICES ASSUME IInv, [Next]_vars PROVE NoStall'
  OBVIOUS
<1>0. /\ port \in Port /\ Quiet(port) \in Port
      /\ StartPending \/ Armed(port)
  BY QuietType, NoStallArmed DEF IInv, TypeOK
<1> SUFFICES StartPending' \/ Armed(port')
  BY DEF NoStall, Armed, uart_circ_empty, uart_tx_stopped
<1>1. ASSUME NEW p \in Writers, NEW data \in Data, uart_write(p, data)
      PROVE  StartPending'
  BY <1>1 DEF uart_write, StartPending, Procs, IInv, TypeOK
<1>2. ASSUME NEW p \in Writers, NEW temt \in Temt, WriteStart(p, temt)
      PROVE  Armed(port')
  BY <1>0, <1>2, UartStartArmed, TemtType DEF WriteStart
<1>3. ASSUME NEW p \in Writers, WriterWakes(p) PROVE StartPending' \/ Armed(port')
  BY <1>0, <1>3 DEF WriterWakes, StartPending, Procs, IInv, TypeOK
<1>4. ASSUME NEW e \in Echoers, NEW c \in Char, uart_put_char(e, c)
      PROVE  StartPending'
  BY <1>4 DEF uart_put_char, StartPending, Procs, IInv, TypeOK
<1>5. ASSUME NEW e \in Echoers, NEW temt \in Temt, uart_flush_chars(e, temt)
      PROVE  Armed(port')
  BY <1>0, <1>5, UartStartArmed, TemtType DEF uart_flush_chars
<1>6. ASSUME uart_flush_buffer PROVE Armed(port')
  BY <1>0, <1>6 DEF uart_flush_buffer, Armed, uart_circ_empty, Port
<1>7. ASSUME stop_tty PROVE Armed(port')
  BY <1>0, <1>7 DEF stop_tty, Armed, uart_tx_stopped, Port
<1>8. ASSUME start_tty PROVE StartPending'
  BY <1>8 DEF start_tty, StartPending
<1>9. ASSUME uart_stop PROVE Armed(port')
  <2>1. Quiet(port).stopped
    BY <1>9 DEF IInv, uart_stop, Quiet, TypeOK, Port
  <2> QED
    BY <1>0, <1>9, <2>1
       DEF uart_stop, serial8250_stop_tx, __stop_tx, Armed, uart_tx_stopped, Port
<1>10. ASSUME NEW temt \in Temt, uart_start(temt) \/ SendXcharStart(temt)
       PROVE  Armed(port')
  BY <1>0, <1>10, UartStartArmed, StartArmed, TemtType
     DEF uart_start, SendXcharStart
<1>11. ASSUME uart_throttle \/ uart_unthrottle \/ UnthrottleClear
              \/ uart_tasklet_action
       PROVE  StartPending' \/ Armed(port')
  <2>1. StartPending' = StartPending
    BY <1>11 DEF uart_throttle, uart_unthrottle, UnthrottleClear,
                 uart_tasklet_action, StartPending
  <2>2. /\ port'.head = port.head /\ port'.tail = port.tail
        /\ port'.stopped = port.stopped /\ port'.hw_stopped = port.hw_stopped
        /\ port'.thri = port.thri /\ port'.txdis = port.txdis
    BY <1>0, <1>11 DEF uart_throttle, uart_unthrottle, UnthrottleClear,
                 uart_tasklet_action, Quiet, Port
  <2> QED
    BY <1>0, <2>1, <2>2 DEF Armed, uart_circ_empty, uart_tx_stopped
<1>12. ASSUME NEW delta \in {"none", "cts", "nocts"}, NEW thre \in BOOLEAN,
              NEW temt \in Temt, serial8250_interrupt(delta, thre, temt)
       PROVE  StartPending' \/ Armed(port')
  <2>1. StartPending' = StartPending
    BY <1>12 DEF serial8250_interrupt, StartPending
  <2>2. Armed(port) => Armed(port')
    BY <1>0, <1>12, QuietArmed, HandleArmed, TemtType DEF serial8250_interrupt
  <2> QED
    BY <1>0, <2>1, <2>2
<1>13. CASE UNCHANGED vars
  BY <1>0, <1>13 DEF vars, StartPending
<1> QED
  BY <1>1, <1>2, <1>3, <1>4, <1>5, <1>6, <1>7, <1>8, <1>9, <1>10, <1>11, <1>12,
     <1>13 DEF Next

\* Nothing below start_tty and stop_tty writes tty->stopped.
LEMMA TransmitStopped ==
    ASSUME NEW s \in Port PROVE transmit_chars(s).stopped = s.stopped
<1> DEFINE n == Least(tx_loadsz, uart_circ_chars_pending(s))
           b == [i \in 1..n |-> s.buf[(s.tail + i - 1) % UART_XMIT_SIZE]]
           nt == (s.tail + n) % UART_XMIT_SIZE
           nw == s.wire \o b
           t == [s EXCEPT !.tail = nt, !.wire = nw]
           u == IF uart_circ_chars_pending(t) < WAKEUP_CHARS
                THEN uart_write_wakeup(t) ELSE t
<1>1. transmit_chars(s) \in {[s EXCEPT !.x_char = "none"],
         serial8250_stop_tx(s), __stop_tx(s), __stop_tx(u), u}
  BY Zenon DEF transmit_chars
<1> HIDE DEF nt, nw
<1>2. t.stopped = s.stopped /\ [t EXCEPT !.tlet = TRUE].stopped = s.stopped
  BY DEF Port
<1>3. u.stopped = s.stopped
  <2> HIDE DEF t
  <2> QED BY <1>2 DEF uart_write_wakeup
<1>4. /\ [s EXCEPT !.x_char = "none"].stopped = s.stopped
      /\ serial8250_stop_tx(s).stopped = s.stopped
      /\ __stop_tx(s).stopped = s.stopped
  BY DEF Port, serial8250_stop_tx, __stop_tx
<1> HIDE DEF u
<1>5. __stop_tx(u).stopped = u.stopped
  BY DEF __stop_tx
<1> QED
  BY <1>1, <1>3, <1>4, <1>5

\* Starting does not touch tty->stopped.
LEMMA StartStopped ==
    ASSUME NEW s \in Port, NEW temt \in BOOLEAN
    PROVE  /\ serial8250_start_tx(s, temt).stopped = s.stopped
           /\ __uart_start(s, temt).stopped = s.stopped
<1> DEFINE a == [s EXCEPT !.thri = TRUE]
           b == IF ~s.thri /\ BugTxen /\ temt THEN transmit_chars(a) ELSE a
<1>1. a \in Port /\ a.stopped = s.stopped
  BY DEF Port
<1>2. b \in Port /\ b.stopped = s.stopped
  <2> HIDE DEF a
  <2> QED BY <1>1, TransmitStopped, TransmitType
<1>3. serial8250_start_tx(s, temt) = [b EXCEPT !.txdis = FALSE]
  BY DEF serial8250_start_tx
<1> HIDE DEF b
<1>4. serial8250_start_tx(s, temt).stopped = s.stopped
  BY <1>2, <1>3 DEF Port
<1> QED
  BY <1>4 DEF __uart_start

\* Neither does an interrupt.
LEMMA HandleStopped ==
    ASSUME NEW s \in Port, NEW delta \in {"none", "cts", "nocts"},
           NEW thre \in BOOLEAN, NEW temt \in BOOLEAN
    PROVE  serial8250_handle_port(s, delta, thre, temt).stopped = s.stopped
<1> DEFINE up == [s EXCEPT !.hw_stopped = FALSE]
           down == [s EXCEPT !.hw_stopped = TRUE]
           st == serial8250_start_tx(up, temt)
           t == check_modem_status(s, delta, temt)
<1>1. /\ up \in Port /\ up.stopped = s.stopped
      /\ down \in Port /\ down.stopped = s.stopped
  BY DEF Port
<1>2. st \in Port /\ st.stopped = s.stopped
  <2> HIDE DEF up
  <2> QED BY <1>1, StartType, StartStopped
<1>3. /\ uart_write_wakeup(st) \in Port /\ uart_write_wakeup(st).stopped = s.stopped
      /\ serial8250_stop_tx(down) \in Port
      /\ serial8250_stop_tx(down).stopped = s.stopped
  <2> HIDE DEF st, down
  <2>1. uart_write_wakeup(st) \in Port /\ serial8250_stop_tx(down) \in Port
    BY <1>1, <1>2, StopType
  <2> QED
    BY <1>1, <1>2, <2>1
       DEF uart_write_wakeup, serial8250_stop_tx, __stop_tx, Port
<1>4. t \in {s, uart_write_wakeup(st), serial8250_stop_tx(down)}
  BY Zenon DEF check_modem_status, uart_handle_cts_change
<1>5. t \in Port /\ t.stopped = s.stopped
  <2> HIDE DEF t, st, down
  <2> QED BY <1>3, <1>4
<1>6. serial8250_handle_port(s, delta, thre, temt) \in {transmit_chars(t), t}
  BY Zenon DEF serial8250_handle_port
<1> HIDE DEF t
<1> QED
  BY <1>5, <1>6, TransmitStopped

\* Nor does copying into the buffer.
LEMMA CopyStopped ==
    ASSUME NEW s \in Port, NEW data \in Seq(Char)
    PROVE  WriteLoop(s, data).stopped = s.stopped
<1>1. ASSUME NEW r \in Port, NEW x PROVE CopyToEnd(r, x).stopped = r.stopped
  BY DEF CopyToEnd, Port
<1>2. CopyToEnd(s, data) \in Port
  BY CopyRound
<1> QED
  BY <1>1, <1>2 DEF WriteLoop

\* While a stop is under way, nobody clears tty->stopped.
LEMMA StopHeldStep ==
    IInv /\ [Next]_vars => (flow = "stopping" => port.stopped)'
<1> SUFFICES ASSUME IInv, [Next]_vars, flow' = "stopping" PROVE port'.stopped
  OBVIOUS
<1>0. /\ port \in Port /\ Quiet(port) \in Port
      /\ Quiet(port).stopped = port.stopped
      /\ flow = "stopping" => port.stopped
  BY QuietType DEF IInv, TypeOK, Quiet, Port
<1>1. CASE stop_tty
  BY <1>0, <1>1 DEF stop_tty, Port
<1>2. ASSUME NEW p \in Writers, NEW data \in Data, uart_write(p, data)
      PROVE  port'.stopped
  BY <1>0, <1>2, CopyStopped, DataType DEF uart_write
<1>3. ASSUME NEW p \in Writers, NEW temt \in Temt, WriteStart(p, temt)
      PROVE  port'.stopped
  BY <1>0, <1>3, StartStopped, TemtType DEF WriteStart
<1>4. ASSUME NEW p \in Writers, WriterWakes(p) PROVE port'.stopped
  BY <1>0, <1>4 DEF WriterWakes
<1>5. ASSUME NEW e \in Echoers, NEW c \in Char, uart_put_char(e, c)
      PROVE  port'.stopped
  BY <1>0, <1>5 DEF uart_put_char, Port
<1>6. ASSUME NEW e \in Echoers, NEW temt \in Temt, uart_flush_chars(e, temt)
      PROVE  port'.stopped
  BY <1>0, <1>6, StartStopped, TemtType DEF uart_flush_chars
<1>7. ASSUME uart_flush_buffer \/ uart_throttle \/ uart_unthrottle
             \/ UnthrottleClear \/ uart_tasklet_action
      PROVE  port'.stopped
  BY <1>0, <1>7 DEF uart_flush_buffer, uart_throttle, uart_unthrottle,
                    UnthrottleClear, uart_tasklet_action, Port
<1>8. ASSUME NEW temt \in Temt, uart_start(temt) \/ SendXcharStart(temt)
      PROVE  port'.stopped
  BY <1>0, <1>8, StartStopped, TemtType DEF uart_start, SendXcharStart
<1>9. ASSUME NEW delta \in {"none", "cts", "nocts"}, NEW thre \in BOOLEAN,
             NEW temt \in Temt, serial8250_interrupt(delta, thre, temt)
      PROVE  port'.stopped
  BY <1>0, <1>9, HandleStopped, TemtType DEF serial8250_interrupt
<1>10. CASE UNCHANGED vars
  BY <1>0, <1>10 DEF vars
<1>11. ~uart_stop /\ ~start_tty
  BY DEF uart_stop, start_tty
<1> QED
  BY <1>1, <1>2, <1>3, <1>4, <1>5, <1>6, <1>7, <1>8, <1>9, <1>10, <1>11 DEF Next

\* Type correctness of the transmit side: in particular the indices never
\* leave the buffer, and uart_write never accepts more than it was given.
THEOREM TypeCorrect == Spec => []TypeOK
<1>1. Init => TypeOK
  BY InitIInv DEF IInv
<1> QED
  BY <1>1, TypeStep, PTL DEF Spec

\* Characters never get stuck in the buffer, for every size of it and any
\* number of writers and echoers.
THEOREM NeverStalls == Spec => []NoStall
<1>1. IInv /\ [Next]_vars => IInv'
  <2> SUFFICES ASSUME IInv, [Next]_vars PROVE IInv'
    OBVIOUS
  <2>1. TypeOK'
    BY TypeStep DEF IInv
  <2> QED
    BY <2>1, NoStallStep, StopHeldStep DEF IInv
<1>2. IInv => NoStall
  BY DEF IInv
<1> QED
  BY InitIInv, <1>1, <1>2, PTL DEF Spec
-----------------------------------------------------------------------------
(* The buffer is a FIFO.                                                    *)

\* What a port record holds, oldest first: Pending for any record.
Held(s) == [i \in 1..uart_circ_chars_pending(s) |->
               s.buf[(s.tail + i - 1) % UART_XMIT_SIZE]]

\* An index that went round at most once.
LEMMA ModOnce ==
    ASSUME NEW i \in Int, 0 <= i, i < 2 * UART_XMIT_SIZE
    PROVE  i % UART_XMIT_SIZE = IF i < UART_XMIT_SIZE THEN i
                                ELSE i - UART_XMIT_SIZE
<1>1. CASE i < UART_XMIT_SIZE
  BY <1>1, ModSmall, SizeAssumption DEF Slot
<1>2. CASE ~(i < UART_XMIT_SIZE)
  BY <1>2, ModWrap, SizeAssumption
<1> QED
  BY <1>1, <1>2

\* What is held is a sequence of characters.
LEMMA HeldType ==
    ASSUME NEW s \in Port
    PROVE  /\ Held(s) \in Seq(Char)
           /\ Len(Held(s)) = uart_circ_chars_pending(s)
           /\ \A i \in 1..uart_circ_chars_pending(s) :
                Held(s)[i] = s.buf[(s.tail + i - 1) % UART_XMIT_SIZE]
<1> DEFINE n == uart_circ_chars_pending(s)
<1>1. n \in Nat
  BY PendingValue, SizeAssumption
<1>2. Held(s) = [i \in 1..n |-> s.buf[(s.tail + i - 1) % UART_XMIT_SIZE]]
  BY DEF Held
<1> HIDE DEF n
<1>3. Held(s) \in Seq(Char)
  BY <1>1, <1>2, BatchType
<1>4. Len(Held(s)) = n
  BY <1>1, <1>2, <1>3
<1>5. \A i \in 1..n : Held(s)[i] = s.buf[(s.tail + i - 1) % UART_XMIT_SIZE]
  BY <1>2
<1> QED
  BY <1>3, <1>4, <1>5 DEF n

\* Characters stored behind head, over no pending one, are appended.
LEMMA Fill ==
    ASSUME NEW s \in Port, NEW t \in Port, NEW d \in Seq(Char),
           Len(d) <= uart_circ_chars_free(s),
           t.tail = s.tail,
           t.head = (s.head + Len(d)) % UART_XMIT_SIZE,
           \A i \in 1..Len(d) :
              t.buf[(s.head + i - 1) % UART_XMIT_SIZE] = d[i],
           \A i \in 1..uart_circ_chars_pending(s) :
              t.buf[(s.tail + i - 1) % UART_XMIT_SIZE]
                = s.buf[(s.tail + i - 1) % UART_XMIT_SIZE]
    PROVE  Held(t) = Held(s) \o d
<1>0. PICK h, tl, l, m, h2 : /\ h = s.head /\ tl = s.tail /\ l = Len(d)
                             /\ m = uart_circ_chars_pending(s) /\ h2 = t.head
  OBVIOUS
<1>1. /\ h \in Slot /\ tl \in Slot /\ h2 \in Slot /\ l \in Nat
      /\ m \in 0 .. UART_XMIT_SIZE - 1
      /\ m = IF tl <= h THEN h - tl ELSE h - tl + UART_XMIT_SIZE
      /\ l <= UART_XMIT_SIZE - 1 - m
      /\ h2 = (h + l) % UART_XMIT_SIZE
      /\ UART_XMIT_SIZE \in Nat
  BY <1>0, PendingValue, FreeValue, SizeAssumption DEF Port
<1>2. h2 = IF h + l < UART_XMIT_SIZE THEN h + l ELSE h + l - UART_XMIT_SIZE
  <2>1. PICK a : a = h + l
    OBVIOUS
  <2>2. a \in Int /\ 0 <= a /\ a < 2 * UART_XMIT_SIZE
    BY <1>1, <2>1 DEF Slot
  <2>3. a % UART_XMIT_SIZE = IF a < UART_XMIT_SIZE THEN a ELSE a - UART_XMIT_SIZE
    BY <2>2, ModOnce
  <2>4. h2 = a % UART_XMIT_SIZE
    BY <1>1, <2>1
  <2>5. h2 = IF a < UART_XMIT_SIZE THEN a ELSE a - UART_XMIT_SIZE
    BY <2>3, <2>4, Zenon
  <2>6. h \in Int /\ l \in Int /\ h2 \in Int /\ UART_XMIT_SIZE \in Int
    BY <1>1 DEF Slot
  <2> QED
    BY <2>1, <2>5, <2>6
<1>3. uart_circ_chars_pending(t) = m + l
  <2>1. uart_circ_chars_pending(t)
          = IF tl <= h2 THEN h2 - tl ELSE h2 - tl + UART_XMIT_SIZE
    BY <1>0, PendingValue
  <2> QED
    BY <1>1, <1>2, <2>1 DEF Slot
<1>4. ASSUME NEW i \in 1..l
      PROVE  (tl + (m + i) - 1) % UART_XMIT_SIZE = (h + i - 1) % UART_XMIT_SIZE
  <2>1. PICK a, b : a = tl + (m + i) - 1 /\ b = h + i - 1
    OBVIOUS
  <2>2. /\ a \in Int /\ 0 <= a /\ a < 2 * UART_XMIT_SIZE
        /\ b \in Int /\ 0 <= b /\ b < 2 * UART_XMIT_SIZE
        /\ a = b \/ (a = b + UART_XMIT_SIZE /\ b < UART_XMIT_SIZE)
    BY <1>1, <2>1 DEF Slot
  <2>3. a % UART_XMIT_SIZE = IF a < UART_XMIT_SIZE THEN a ELSE a - UART_XMIT_SIZE
    BY <2>2, ModOnce
  <2>4. b % UART_XMIT_SIZE = IF b < UART_XMIT_SIZE THEN b ELSE b - UART_XMIT_SIZE
    BY <2>2, ModOnce
  <2>5. PICK ra, rb : ra = a % UART_XMIT_SIZE /\ rb = b % UART_XMIT_SIZE
    OBVIOUS
  <2>6. /\ ra = IF a < UART_XMIT_SIZE THEN a ELSE a - UART_XMIT_SIZE
        /\ rb = IF b < UART_XMIT_SIZE THEN b ELSE b - UART_XMIT_SIZE
    BY <2>3, <2>4, <2>5
  <2>7. ra = rb
    BY <1>1, <2>2, <2>6
  <2> QED
    BY <2>1, <2>5, <2>7
<1>5. /\ Held(s) \in Seq(Char) /\ Len(Held(s)) = m
      /\ \A i \in 1..m : Held(s)[i] = s.buf[(tl + i - 1) % UART_XMIT_SIZE]
  BY <1>0, HeldType
<1>6. /\ Held(t) \in Seq(Char) /\ Len(Held(t)) = m + l
      /\ \A i \in 1..(m + l) : Held(t)[i] = t.buf[(tl + i - 1) % UART_XMIT_SIZE]
  BY <1>0, <1>3, HeldType
<1>7. PICK c : c = Held(s) \o d
  OBVIOUS
<1>8. /\ c \in Seq(Char) /\ Len(c) = m + l
      /\ \A i \in 1..(m + l) : c[i] = IF i <= m THEN Held(s)[i] ELSE d[i - m]
  <2>1. PICK x : x = Held(s)
    OBVIOUS
  <2>2. x \in Seq(Char) /\ Len(x) = m /\ Len(d) = l
    BY <1>0, <1>5, <2>1
  <2>3. /\ x \o d \in Seq(Char) /\ Len(x \o d) = m + l
        /\ \A i \in 1..(m + l) : (x \o d)[i] = IF i <= m THEN x[i] ELSE d[i - m]
    BY <2>2, ConcatProperties
  <2> QED
    BY <1>7, <2>1, <2>3
<1>9. ASSUME NEW i \in 1..(m + l) PROVE Held(t)[i] = c[i]
  <2>1. CASE i <= m
    <3>1. i \in 1..m
      BY <1>1, <2>1
    <3> QED BY <1>0, <1>5, <1>6, <1>8, <2>1, <3>1
  <2>2. CASE ~(i <= m)
    <3>1. PICK j \in 1..l : i = m + j
      <4>1. i - m \in 1..l /\ i = m + (i - m)
        BY <1>1, <2>2
      <4> QED BY <4>1
    <3>2. t.buf[(h + j - 1) % UART_XMIT_SIZE] = d[j]
      BY <1>0
    <3>3. Held(t)[i] = d[j]
      BY <1>4, <1>6, <3>1, <3>2
    <3>4. i - m = j
      BY <1>1, <3>1
    <3> QED BY <1>8, <2>2, <3>3, <3>4
  <2> QED BY <2>1, <2>2
<1> QED
  BY <1>6, <1>7, <1>8, <1>9, SeqEqual

\* One round of uart_write's loop appends what it copies.
LEMMA CopyFill ==
    ASSUME NEW s \in Port, NEW data \in Seq(Char)
    PROVE  \E d \in Seq(Char) : Held(CopyToEnd(s, data)) = Held(s) \o d
<1> DEFINE nb == [i \in Slot |-> IF i \in s.head .. s.head + Copied(s, data) - 1
                                 THEN data[i - s.head + 1] ELSE s.buf[i]]
           nh == (s.head + Copied(s, data)) % UART_XMIT_SIZE
<1>0. PICK h, tl, c, m, t : /\ h = s.head /\ tl = s.tail /\ c = Copied(s, data)
                            /\ m = uart_circ_chars_pending(s)
                            /\ t = CopyToEnd(s, data)
  OBVIOUS
<1>1. /\ t \in Port /\ t.tail = tl
      /\ c \in 0 .. Len(data) /\ c <= SpaceToEnd(s) /\ Len(data) \in Nat
      /\ h \in Slot /\ tl \in Slot
  BY <1>0, CopyRound DEF Port
<1>2. t = [s EXCEPT !.buf = nb, !.head = nh]
  BY <1>0 DEF CopyToEnd, Copied
<1>3. t.head = (h + c) % UART_XMIT_SIZE /\ t.buf = nb
  <2> HIDE DEF nb, nh
  <2>1. t.head = nh /\ t.buf = nb
    BY <1>2 DEF Port
  <2> QED
    BY <1>0, <2>1 DEF nh
<1>4. ASSUME NEW i \in Slot
      PROVE  t.buf[i] = IF i \in h .. h + c - 1 THEN data[i - h + 1] ELSE s.buf[i]
  BY <1>0, <1>3
<1> HIDE DEF nb, nh
<1>5. /\ m \in 0 .. UART_XMIT_SIZE - 1
      /\ m = IF tl <= h THEN h - tl ELSE h - tl + UART_XMIT_SIZE
      /\ c <= UART_XMIT_SIZE - h
      /\ c <= UART_XMIT_SIZE - 1 - m
      /\ tl > h => c <= tl - 1 - h
      /\ UART_XMIT_SIZE \in Nat
  <2>1. PICK sp, fr : sp = SpaceToEnd(s) /\ fr = uart_circ_chars_free(s)
    OBVIOUS
  <2>2. /\ m \in 0 .. UART_XMIT_SIZE - 1
        /\ m = IF tl <= h THEN h - tl ELSE h - tl + UART_XMIT_SIZE
        /\ UART_XMIT_SIZE \in Nat
    BY <1>0, PendingValue, SizeAssumption
  <2>3. sp = IF tl > h THEN tl - 1 - h
             ELSE IF tl = 0 THEN UART_XMIT_SIZE - 1 - h
             ELSE UART_XMIT_SIZE - h
    BY <1>0, <2>1, SpaceValue
  <2> QED
    BY <1>1, <2>1, <2>2, <2>3 DEF Slot
<1>6. PICK d : d = SubSeq(data, 1, c)
  OBVIOUS
<1>7. /\ d \in Seq(Char) /\ Len(d) = c
      /\ \A i \in 1..c : d[i] = data[i]
  <2>1. \A i \in 1..c : data[i] \in Char
    BY <1>1
  <2> QED
    BY <1>1, <1>6, <2>1, SubSeqProperties
<1>8. Len(d) <= uart_circ_chars_free(s)
  BY <1>0, <1>5, <1>7, FreeValue
<1>9. ASSUME NEW i \in 1..Len(d)
      PROVE  t.buf[(s.head + i - 1) % UART_XMIT_SIZE] = d[i]
  <2>1. PICK j : j = h + i - 1
    OBVIOUS
  <2>0. i \in 1..c
    BY <1>7
  <2>2. j \in Slot /\ j \in h .. h + c - 1 /\ j - h + 1 = i
    <3>1. h \in Nat /\ c \in Nat /\ i \in Nat /\ c <= UART_XMIT_SIZE - h
          /\ UART_XMIT_SIZE \in Nat
      BY <1>1, <1>5, <2>0 DEF Slot
    <3> QED
      BY <2>0, <2>1, <3>1 DEF Slot
  <2>3. j % UART_XMIT_SIZE = j
    BY <2>2, ModSmall
  <2>4. t.buf[j] = d[i]
    BY <1>4, <1>7, <2>0, <2>2
  <2> QED
    BY <1>0, <2>1, <2>3, <2>4
<1>10. ASSUME NEW i \in 1..uart_circ_chars_pending(s)
       PROVE  t.buf[(s.tail + i - 1) % UART_XMIT_SIZE]
                = s.buf[(s.tail + i - 1) % UART_XMIT_SIZE]
  <2>1. PICK j, k : j = tl + i - 1 /\ k = j % UART_XMIT_SIZE
    OBVIOUS
  <2>2. i \in 1..m /\ j \in Int /\ 0 <= j /\ j < 2 * UART_XMIT_SIZE
    <3>1. i \in 1..m
      BY <1>0
    <3>2. tl \in 0 .. UART_XMIT_SIZE - 1
      BY <1>1 DEF Slot
    <3> QED
      BY <1>5, <2>1, <3>1, <3>2
  <2>3. k = IF j < UART_XMIT_SIZE THEN j ELSE j - UART_XMIT_SIZE
    BY <2>1, <2>2, ModOnce
  <2>4. k \in Slot /\ k \notin h .. h + c - 1
    BY <1>1, <1>5, <2>1, <2>2, <2>3 DEF Slot
  <2>5. t.buf[k] = s.buf[k]
    BY <1>4, <2>4
  <2> QED
    BY <1>0, <2>1, <2>5
<1>11. t.tail = s.tail /\ t.head = (s.head + Len(d)) % UART_XMIT_SIZE
  BY <1>0, <1>1, <1>3, <1>7
<1>12. Held(t) = Held(s) \o d
  BY <1>1, <1>7, <1>8, <1>9, <1>10, <1>11, Fill
<1> QED
  BY <1>0, <1>7, <1>12

\* uart_write's loop appends what it copies.
LEMMA WriteFill ==
    ASSUME NEW s \in Port, NEW data \in Seq(Char)
    PROVE  \E d \in Seq(Char) : Held(WriteLoop(s, data)) = Held(s) \o d
<1>1. PICK a, more : /\ a = CopyToEnd(s, data)
                     /\ more = SubSeq(data, Copied(s, data) + 1, Len(data))
  OBVIOUS
<1>2. a \in Port /\ Copied(s, data) \in 0 .. Len(data) /\ Len(data) \in Nat
  BY <1>1, CopyRound
<1>3. more \in Seq(Char)
  <2>1. PICK k : k = Copied(s, data) + 1
    OBVIOUS
  <2>2. k \in Int /\ \A i \in k .. Len(data) : data[i] \in Char
    BY <1>2, <2>1
  <2> QED
    BY <1>1, <1>2, <2>1, <2>2, SubSeqProperties
<1>4. PICK d1 \in Seq(Char) : Held(a) = Held(s) \o d1
  BY <1>1, CopyFill
<1>5. PICK d2 \in Seq(Char) : Held(CopyToEnd(a, more)) = Held(a) \o d2
  BY <1>2, <1>3, CopyFill
<1>6. (Held(s) \o d1) \o d2 = Held(s) \o (d1 \o d2)
  BY HeldType, ConcatAssociative
<1>7. d1 \o d2 \in Seq(Char)
  BY ConcatProperties
<1>8. WriteLoop(s, data) = CopyToEnd(a, more)
  BY <1>1, Zenon DEF WriteLoop
<1>9. Held(WriteLoop(s, data)) = Held(s) \o (d1 \o d2)
  BY <1>4, <1>5, <1>6, <1>8, Zenon
<1> QED
  BY <1>7, <1>9, Zenon

\* uart_put_char appends its character.
LEMMA PutFill ==
    ASSUME NEW s \in Port, NEW t \in Port, NEW c \in Char,
           uart_circ_chars_free(s) # 0,
           t.tail = s.tail,
           t.head = (s.head + 1) % UART_XMIT_SIZE,
           t.buf = [s.buf EXCEPT ![s.head] = c]
    PROVE  Held(t) = Held(s) \o <<c>>
<1>0. PICK h, tl, m, d : /\ h = s.head /\ tl = s.tail /\ d = <<c>>
                         /\ m = uart_circ_chars_pending(s)
  OBVIOUS
<1>1. /\ h \in Slot /\ tl \in Slot /\ UART_XMIT_SIZE \in Nat
      /\ m \in 0 .. UART_XMIT_SIZE - 1
      /\ m = IF tl <= h THEN h - tl ELSE h - tl + UART_XMIT_SIZE
      /\ m < UART_XMIT_SIZE - 1
  BY <1>0, PendingValue, FreeValue, SizeAssumption DEF Port
<1>2. d \in Seq(Char) /\ Len(d) = 1 /\ d[1] = c
  BY <1>0
<1>3. Len(d) <= uart_circ_chars_free(s)
  BY <1>0, <1>1, <1>2, FreeValue
<1>4. ASSUME NEW i \in Slot
      PROVE  t.buf[i] = IF i = h THEN c ELSE s.buf[i]
  BY <1>0 DEF Port
<1>5. ASSUME NEW i \in 1..Len(d)
      PROVE  t.buf[(s.head + i - 1) % UART_XMIT_SIZE] = d[i]
  <2>1. i = 1
    BY <1>2
  <2>2. h + i - 1 = h
    BY <1>1, <2>1 DEF Slot
  <2>3. h % UART_XMIT_SIZE = h
    BY <1>1, ModSmall
  <2> QED
    BY <1>0, <1>1, <1>2, <1>4, <2>1, <2>2, <2>3
<1>6. ASSUME NEW i \in 1..uart_circ_chars_pending(s)
      PROVE  t.buf[(s.tail + i - 1) % UART_XMIT_SIZE]
               = s.buf[(s.tail + i - 1) % UART_XMIT_SIZE]
  <2>1. PICK j, k : j = tl + i - 1 /\ k = j % UART_XMIT_SIZE
    OBVIOUS
  <2>2. i \in 1..m /\ j \in Int /\ 0 <= j /\ j < 2 * UART_XMIT_SIZE
    BY <1>0, <1>1, <2>1 DEF Slot
  <2>3. k = IF j < UART_XMIT_SIZE THEN j ELSE j - UART_XMIT_SIZE
    BY <2>1, <2>2, ModOnce
  <2>4. k \in Slot /\ k # h
    BY <1>1, <2>1, <2>2, <2>3 DEF Slot
  <2>5. t.buf[k] = s.buf[k]
    BY <1>4, <2>4
  <2> QED
    BY <1>0, <2>1, <2>5
<1>7. t.head = (s.head + Len(d)) % UART_XMIT_SIZE
  BY <1>2
<1> QED
  BY <1>0, <1>2, <1>3, <1>5, <1>6, <1>7, Fill

\* t is s with the n oldest characters moved to the line.
Sent(s, t, n) ==
    /\ t \in Port
    /\ t.buf = s.buf /\ t.head = s.head
    /\ n \in 0..uart_circ_chars_pending(s)
    /\ t.tail = (s.tail + n) % UART_XMIT_SIZE
    /\ t.wire = s.wire \o SubSeq(Held(s), 1, n)

\* What is left is the rest of what was held.
LEMMA SentRest ==
    ASSUME NEW s \in Port, NEW t, NEW n, Sent(s, t, n)
    PROVE  /\ Held(t) = SubSeq(Held(s), n + 1, Len(Held(s)))
           /\ uart_circ_chars_pending(t) = uart_circ_chars_pending(s) - n
<1>0. PICK h, tl, m, tt, q : /\ h = s.head /\ tl = s.tail /\ tt = t.tail
                             /\ m = uart_circ_chars_pending(s)
                             /\ q = uart_circ_chars_pending(t)
  OBVIOUS
<1>1. /\ h \in Slot /\ tl \in Slot /\ UART_XMIT_SIZE \in Nat
      /\ m \in 0 .. UART_XMIT_SIZE - 1
      /\ m = IF tl <= h THEN h - tl ELSE h - tl + UART_XMIT_SIZE
  BY <1>0, PendingValue, SizeAssumption DEF Port
<1>2. /\ t \in Port /\ t.buf = s.buf /\ t.head = h /\ n \in 0..m
      /\ tt = (tl + n) % UART_XMIT_SIZE
  BY <1>0 DEF Sent
<1>3. tt = IF tl + n < UART_XMIT_SIZE THEN tl + n ELSE tl + n - UART_XMIT_SIZE
  <2>1. PICK a : a = tl + n
    OBVIOUS
  <2>2. a \in Int /\ 0 <= a /\ a < 2 * UART_XMIT_SIZE
    BY <1>1, <1>2, <2>1 DEF Slot
  <2>3. a % UART_XMIT_SIZE = IF a < UART_XMIT_SIZE THEN a ELSE a - UART_XMIT_SIZE
    BY <2>2, ModOnce
  <2>4. tt = a % UART_XMIT_SIZE
    BY <1>2, <2>1, Zenon
  <2>5. tt = IF a < UART_XMIT_SIZE THEN a ELSE a - UART_XMIT_SIZE
    BY <2>3, <2>4, Zenon
  <2>6. tl \in Int /\ n \in Int
    BY <1>1, <1>2 DEF Slot
  <2> QED
    BY <1>1, <2>1, <2>5, <2>6
<1>4. q = m - n
  <2>1. q = IF tt <= h THEN h - tt ELSE h - tt + UART_XMIT_SIZE
    BY <1>0, <1>2, PendingValue
  <2> QED
    BY <1>1, <1>2, <1>3, <2>1 DEF Slot
<1>5. ASSUME NEW i \in 1..q
      PROVE  (tt + i - 1) % UART_XMIT_SIZE = (tl + (n + i) - 1) % UART_XMIT_SIZE
  <2>1. PICK a, b : a = tt + i - 1 /\ b = tl + (n + i) - 1
    OBVIOUS
  <2>2. /\ a \in Int /\ 0 <= a /\ a < 2 * UART_XMIT_SIZE
        /\ b \in Int /\ 0 <= b /\ b < 2 * UART_XMIT_SIZE
        /\ a = b \/ (b = a + UART_XMIT_SIZE /\ a < UART_XMIT_SIZE)
    BY <1>1, <1>2, <1>3, <1>4, <2>1 DEF Slot
  <2>3. a % UART_XMIT_SIZE = IF a < UART_XMIT_SIZE THEN a ELSE a - UART_XMIT_SIZE
    BY <2>2, ModOnce
  <2>4. b % UART_XMIT_SIZE = IF b < UART_XMIT_SIZE THEN b ELSE b - UART_XMIT_SIZE
    BY <2>2, ModOnce
  <2>5. PICK ra, rb : ra = a % UART_XMIT_SIZE /\ rb = b % UART_XMIT_SIZE
    OBVIOUS
  <2>6. /\ ra = IF a < UART_XMIT_SIZE THEN a ELSE a - UART_XMIT_SIZE
        /\ rb = IF b < UART_XMIT_SIZE THEN b ELSE b - UART_XMIT_SIZE
    BY <2>3, <2>4, <2>5
  <2>7. ra = rb
    BY <1>1, <2>2, <2>6
  <2> QED
    BY <2>1, <2>5, <2>7
<1>6. PICK x, y : x = Held(s) /\ y = Held(t)
  OBVIOUS
<1>7. /\ x \in Seq(Char) /\ Len(x) = m
      /\ \A i \in 1..m : x[i] = s.buf[(tl + i - 1) % UART_XMIT_SIZE]
  BY <1>0, <1>6, HeldType
<1>8. /\ y \in Seq(Char) /\ Len(y) = q
      /\ \A i \in 1..q : y[i] = s.buf[(tt + i - 1) % UART_XMIT_SIZE]
  BY <1>0, <1>2, <1>6, HeldType
<1>9. PICK z, k : k = n + 1 /\ z = SubSeq(x, k, m)
  OBVIOUS
<1>10. /\ z \in Seq(Char) /\ Len(z) = q
       /\ \A i \in 1..q : z[i] = x[n + i]
  <2>1. k \in Int /\ m \in Int /\ \A i \in k..m : x[i] \in Char
    BY <1>1, <1>2, <1>7, <1>9
  <2>2. /\ z \in Seq(Char) /\ Len(z) = IF k <= m THEN m - k + 1 ELSE 0
        /\ \A i \in 1 .. m - k + 1 : z[i] = x[k + i - 1]
    BY <1>9, <2>1, SubSeqProperties
  <2>3. (IF k <= m THEN m - k + 1 ELSE 0) = q /\ m - k + 1 = q
    BY <1>1, <1>2, <1>4, <1>9
  <2>4. ASSUME NEW i \in 1..q PROVE k + i - 1 = n + i
    BY <1>2, <1>9
  <2> QED
    BY <2>2, <2>3, <2>4
<1>11. ASSUME NEW i \in 1..q PROVE y[i] = z[i]
  <2>1. n + i \in 1..m
    BY <1>1, <1>2, <1>4
  <2> QED
    BY <1>5, <1>7, <1>8, <1>10, <2>1
<1>12. y = z
  BY <1>8, <1>10, <1>11, SeqEqual
<1> QED
  BY <1>0, <1>4, <1>6, <1>7, <1>9, <1>12

\* Sending twice is sending once.
LEMMA SentTwice ==
    ASSUME NEW s \in Port, NEW t, NEW u, NEW m, NEW n, Sent(s, t, m), Sent(t, u, n)
    PROVE  Sent(s, u, m + n)
<1>0. PICK x, l : x = Held(s) /\ l = uart_circ_chars_pending(s)
  OBVIOUS
<1>1. x \in Seq(Char) /\ Len(x) = l /\ l \in Nat
  BY <1>0, HeldType, PendingValue, SizeAssumption
<1>2. /\ Held(t) = SubSeq(x, m + 1, l)
      /\ uart_circ_chars_pending(t) = l - m
  BY <1>0, <1>1, SentRest
<1>3. m \in 0..l /\ n \in 0..(l - m)
  BY <1>0, <1>2 DEF Sent
<1>4. u.tail = (s.tail + (m + n)) % UART_XMIT_SIZE
  <2>1. PICK tl, tt, tu, r : /\ tl = s.tail /\ tt = t.tail /\ tu = u.tail
                             /\ r = (tl + (m + n)) % UART_XMIT_SIZE
    OBVIOUS
  <2>2. /\ tl \in Slot /\ tt = (tl + m) % UART_XMIT_SIZE
        /\ tu = (tt + n) % UART_XMIT_SIZE /\ UART_XMIT_SIZE \in Nat
        /\ l < UART_XMIT_SIZE
    <3>1. tl \in Slot
      BY <2>1 DEF Port
    <3>2. tt = (tl + m) % UART_XMIT_SIZE /\ tu = (tt + n) % UART_XMIT_SIZE
      BY <2>1, Zenon DEF Sent
    <3>3. l < UART_XMIT_SIZE /\ UART_XMIT_SIZE \in Nat
      BY <1>0, PendingValue, SizeAssumption
    <3> QED
      BY <3>1, <3>2, <3>3
  <2>3. PICK a, b, c : a = tl + m /\ b = tt + n /\ c = tl + (m + n)
    OBVIOUS
  <2>4. a \in Int /\ 0 <= a /\ a < 2 * UART_XMIT_SIZE
        /\ c \in Int /\ 0 <= c /\ c < 2 * UART_XMIT_SIZE
    BY <1>1, <1>3, <2>2, <2>3 DEF Slot
  <2>5. a % UART_XMIT_SIZE = IF a < UART_XMIT_SIZE THEN a ELSE a - UART_XMIT_SIZE
    BY <2>4, ModOnce
  <2>6. tt = IF a < UART_XMIT_SIZE THEN a ELSE a - UART_XMIT_SIZE
    BY <2>2, <2>3, <2>5
  <2>7. b \in Int /\ 0 <= b /\ b < 2 * UART_XMIT_SIZE
    BY <1>1, <1>3, <2>2, <2>3, <2>6 DEF Slot
  <2>8. b % UART_XMIT_SIZE = IF b < UART_XMIT_SIZE THEN b ELSE b - UART_XMIT_SIZE
    BY <2>7, ModOnce
  <2>9. c % UART_XMIT_SIZE = IF c < UART_XMIT_SIZE THEN c ELSE c - UART_XMIT_SIZE
    BY <2>4, ModOnce
  <2>10. /\ tu = IF b < UART_XMIT_SIZE THEN b ELSE b - UART_XMIT_SIZE
         /\ r = IF c < UART_XMIT_SIZE THEN c ELSE c - UART_XMIT_SIZE
    BY <2>1, <2>2, <2>3, <2>8, <2>9
  <2>11. tu = r
    BY <1>1, <1>3, <2>2, <2>3, <2>4, <2>6, <2>7, <2>10 DEF Slot
  <2> QED
    BY <2>1, <2>11
<1>5. PICK a, b : a = SubSeq(x, 1, m) /\ b = SubSeq(x, m + 1, m + n)
  OBVIOUS
<1>6. SubSeq(Held(t), 1, n) = b
  <2>1. PICK k, z : k = m + 1 /\ z = SubSeq(x, k, l)
    OBVIOUS
  <2>2. /\ z \in Seq(Char) /\ Len(z) = l - m
        /\ \A i \in 1..(l - m) : z[i] = x[m + i]
    <3>1. k \in Int /\ \A i \in k..l : x[i] \in Char
      BY <1>1, <1>3, <2>1
    <3>2. /\ z \in Seq(Char) /\ Len(z) = IF k <= l THEN l - k + 1 ELSE 0
          /\ \A i \in 1 .. l - k + 1 : z[i] = x[k + i - 1]
      BY <1>1, <2>1, <3>1, SubSeqProperties
    <3>3. (IF k <= l THEN l - k + 1 ELSE 0) = l - m /\ l - k + 1 = l - m
      BY <1>1, <1>3, <2>1
    <3>4. ASSUME NEW i \in 1..(l - m) PROVE k + i - 1 = m + i
      BY <1>3, <2>1
    <3> QED
      BY <3>2, <3>3, <3>4
  <2>3. PICK w, j : w = SubSeq(z, 1, n) /\ j = m + n
    OBVIOUS
  <2>4. w \in Seq(Char) /\ Len(w) = n /\ \A i \in 1..n : w[i] = z[i]
    <3>1. \A i \in 1..n : z[i] \in Char
      BY <1>1, <1>3, <2>2
    <3> QED
      BY <1>1, <1>3, <2>3, <3>1, SubSeqProperties
  <2>5. /\ b \in Seq(Char) /\ Len(b) = n /\ \A i \in 1..n : b[i] = x[m + i]
    <3>1. k \in Int /\ j \in Int /\ \A i \in k..j : x[i] \in Char
      BY <1>1, <1>3, <2>1, <2>3
    <3>2. /\ b \in Seq(Char) /\ Len(b) = IF k <= j THEN j - k + 1 ELSE 0
          /\ \A i \in 1 .. j - k + 1 : b[i] = x[k + i - 1]
      BY <1>5, <2>1, <2>3, <3>1, SubSeqProperties
    <3>3. (IF k <= j THEN j - k + 1 ELSE 0) = n /\ j - k + 1 = n
      BY <1>3, <2>1, <2>3
    <3>4. ASSUME NEW i \in 1..n PROVE k + i - 1 = m + i
      BY <1>3, <2>1
    <3> QED
      BY <3>2, <3>3, <3>4
  <2>6. ASSUME NEW i \in 1..n PROVE w[i] = b[i]
    <3>1. i \in 1..(l - m)
      BY <1>1, <1>3
    <3> QED
      BY <2>2, <2>4, <2>5, <3>1
  <2>7. w = b
    BY <2>4, <2>5, <2>6, SeqEqual
  <2> QED
    BY <1>2, <2>1, <2>3, <2>7
<1>7. a \o b = SubSeq(x, 1, m + n) /\ a \in Seq(Char) /\ b \in Seq(Char)
  <2>1. PICK k, j : k = m + 1 /\ j = m + n
    OBVIOUS
  <2>2. /\ 1 \in 1 .. m + 1 /\ m \in 0..l /\ j \in m..l
        /\ \A i \in 1..m : x[i] \in Char
        /\ \A i \in k..j : x[i] \in Char
        /\ k \in Int /\ j \in Int
    BY <1>1, <1>3, <2>1
  <2>3. a \in Seq(Char) /\ b \in Seq(Char)
    BY <1>5, <2>1, <2>2, SubSeqProperties
  <2>4. a \o b = SubSeq(x, 1, j)
    <3>1. 1 \in 1 .. Len(x) + 1 /\ m \in 1 - 1 .. Len(x) /\ j \in m .. Len(x)
      BY <1>1, <1>3, <2>1
    <3>2. SubSeq(x, 1, m) \o SubSeq(x, m + 1, j) = SubSeq(x, 1, j)
      BY <1>1, <3>1, ConcatAdjacentSubSeq, Zenon
    <3> QED
      BY <1>5, <2>1, <3>2, Zenon
  <2> QED
    BY <2>1, <2>3, <2>4
<1>8. u.wire = s.wire \o SubSeq(x, 1, m + n)
  <2>1. PICK w : w = s.wire
    OBVIOUS
  <2>2. w \in Seq(Char) /\ u.wire = (w \o a) \o b
    BY <1>0, <1>5, <1>6, <2>1 DEF Sent, Port
  <2>3. (w \o a) \o b = w \o (a \o b)
    <3>1. w \in Seq(Char) /\ a \in Seq(Char) /\ b \in Seq(Char)
      BY <1>7, <2>2
    <3> QED
      BY <3>1, ConcatAssociative
  <2> QED
    BY <1>7, <2>1, <2>2, <2>3
<1>9. m + n \in 0..l
  BY <1>1, <1>3
<1> QED
  BY <1>0, <1>4, <1>8, <1>9 DEF Sent

\* t is s after some sending: none of it if the port is stopped.
Sends(s, t) ==
    /\ \E n : Sent(s, t, n)
    /\ t.stopped = s.stopped /\ t.hw_stopped = s.hw_stopped
    /\ uart_tx_stopped(s) => t.wire = s.wire

\* Sending nothing.
LEMMA SameSends ==
    ASSUME NEW s \in Port, NEW t \in Port,
           t.buf = s.buf, t.head = s.head, t.tail = s.tail, t.wire = s.wire,
           t.stopped = s.stopped, t.hw_stopped = s.hw_stopped
    PROVE  Sends(s, t)
<1>1. PICK z \in Int : z = 0
  OBVIOUS
<1>2. z \in 0..uart_circ_chars_pending(s)
  BY <1>1, PendingValue, SizeAssumption
<1>3. t.tail = (s.tail + z) % UART_XMIT_SIZE
  <2>1. s.tail \in Slot
    BY DEF Port
  <2>2. s.tail + z = s.tail
    BY <1>1, <2>1 DEF Slot
  <2>3. s.tail % UART_XMIT_SIZE = s.tail
    BY <2>1, ModSmall
  <2> QED
    BY <2>2, <2>3
<1>4. t.wire = s.wire \o SubSeq(Held(s), 1, z)
  <2>1. SubSeq(Held(s), 1, z) = <<>>
    BY <1>1, SubSeqEmpty
  <2>2. s.wire \in Seq(Char)
    BY DEF Port
  <2>3. s.wire \o <<>> = s.wire
    BY <2>2, ConcatEmptySeq
  <2> QED
    BY <2>1, <2>3
<1>5. Sent(s, t, z)
  BY <1>2, <1>3, <1>4, Zenon DEF Sent
<1> QED
  BY <1>5, Zenon DEF Sends

\* Two sendings in a row.
LEMMA SendsTwice ==
    ASSUME NEW s \in Port, NEW t, NEW u, Sends(s, t), Sends(t, u)
    PROVE  Sends(s, u)
<1>1. PICK m : Sent(s, t, m)
  BY DEF Sends
<1>2. PICK n : Sent(t, u, n)
  BY DEF Sends
<1>3. Sent(s, u, m + n)
  BY <1>1, <1>2, SentTwice
<1> QED
  BY <1>3, Zenon DEF Sends, uart_tx_stopped

\* transmit_chars sends the oldest characters, and nothing when stopped.
LEMMA TransmitSends ==
    ASSUME NEW s \in Port PROVE Sends(s, transmit_chars(s))
<1> DEFINE n == Least(tx_loadsz, uart_circ_chars_pending(s))
           b == [i \in 1..n |-> s.buf[(s.tail + i - 1) % UART_XMIT_SIZE]]
           nt == (s.tail + n) % UART_XMIT_SIZE
           nw == s.wire \o b
           t == [s EXCEPT !.tail = nt, !.wire = nw]
           u == IF uart_circ_chars_pending(t) < WAKEUP_CHARS
                THEN uart_write_wakeup(t) ELSE t
           res == transmit_chars(s)
<1>0. res \in Port
  BY TransmitType
<1>1. res \in {[s EXCEPT !.x_char = "none"], serial8250_stop_tx(s), __stop_tx(s)}
        \/ (~uart_tx_stopped(s) /\ res \in {__stop_tx(u), u})
  BY Zenon DEF transmit_chars
<1>2. CASE res \in {[s EXCEPT !.x_char = "none"], serial8250_stop_tx(s), __stop_tx(s)}
  <2>1. /\ res.buf = s.buf /\ res.head = s.head /\ res.tail = s.tail
        /\ res.wire = s.wire /\ res.stopped = s.stopped
        /\ res.hw_stopped = s.hw_stopped
    <3> HIDE DEF res
    <3> QED BY <1>2 DEF Port, serial8250_stop_tx, __stop_tx
  <2> HIDE DEF res
  <2>2. Sends(s, res)
    BY <1>0, <2>1, SameSends
  <2> QED
    BY <2>2 DEF res
<1>3. CASE ~uart_tx_stopped(s) /\ res \in {__stop_tx(u), u}
  <2>1. n \in 0..uart_circ_chars_pending(s)
    BY PendingValue, LoadAssumption, SizeAssumption DEF Least
  <2>2. b = SubSeq(Held(s), 1, n)
    <3> HIDE DEF n
    <3>1. uart_circ_chars_pending(s) \in Nat
      BY PendingValue, SizeAssumption
    <3>2. n \in Nat /\ \A i \in 1..n : i \in 1..uart_circ_chars_pending(s)
      BY <2>1, <3>1
    <3>3. /\ b \in Seq(Char) /\ Len(b) = n
          /\ \A i \in 1..n : b[i] = s.buf[(s.tail + i - 1) % UART_XMIT_SIZE]
      BY <3>2, BatchType
    <3>4. PICK x : x = Held(s)
      OBVIOUS
    <3>5. /\ x \in Seq(Char) /\ Len(x) = uart_circ_chars_pending(s)
          /\ \A i \in 1..n : x[i] = s.buf[(s.tail + i - 1) % UART_XMIT_SIZE]
      BY <3>2, <3>4, HeldType
    <3>6. PICK z : z = SubSeq(x, 1, n)
      OBVIOUS
    <3>7. \A i \in 1..n : x[i] \in Char
      BY <3>2, <3>5
    <3>8. z \in Seq(Char) /\ Len(z) = n /\ \A i \in 1..n : z[i] = x[i]
      BY <3>2, <3>6, <3>7, SubSeqProperties
    <3> HIDE DEF b
    <3>9. b = z
      BY <3>3, <3>5, <3>8, SeqEqual
    <3> QED
      BY <3>4, <3>6, <3>9
  <2> HIDE DEF n, b
  <2>3. /\ t.buf = s.buf /\ t.head = s.head /\ t.tail = nt /\ t.wire = nw
        /\ t.stopped = s.stopped /\ t.hw_stopped = s.hw_stopped
        /\ DOMAIN t = DOMAIN s
    <3> HIDE DEF nt, nw
    <3> QED BY DEF Port
  <2>4. DOMAIN s = {"buf", "head", "tail", "x_char", "stopped", "hw_stopped",
                    "thri", "txdis", "tlet", "wire"}
    BY DEF Port
  <2> HIDE DEF t
  <2>5. /\ u.buf = s.buf /\ u.head = s.head /\ u.tail = nt /\ u.wire = nw
        /\ u.stopped = s.stopped /\ u.hw_stopped = s.hw_stopped
        /\ DOMAIN u = DOMAIN s
    <3> HIDE DEF nt, nw
    <3> QED BY <2>3, <2>4 DEF uart_write_wakeup
  <2> HIDE DEF u, res
  <2>6. /\ res.buf = s.buf /\ res.head = s.head /\ res.tail = nt /\ res.wire = nw
        /\ res.stopped = s.stopped /\ res.hw_stopped = s.hw_stopped
    <3> HIDE DEF nt, nw
    <3> QED BY <1>3, <2>4, <2>5 DEF __stop_tx
  <2>7. Sent(s, res, n)
    BY <1>0, <2>1, <2>2, <2>6, Zenon DEF Sent, nt, nw
  <2>8. Sends(s, res)
    BY <1>3, <2>6, <2>7, Zenon DEF Sends
  <2> QED
    BY <2>8 DEF res
<1> QED
  BY <1>1, <1>2, <1>3

\* So does starting.
LEMMA StartSends ==
    ASSUME NEW s \in Port, NEW temt \in BOOLEAN
    PROVE  Sends(s, serial8250_start_tx(s, temt)) /\ Sends(s, __uart_start(s, temt))
<1> DEFINE a == [s EXCEPT !.thri = TRUE]
           b == IF ~s.thri /\ BugTxen /\ temt THEN transmit_chars(a) ELSE a
           o == serial8250_start_tx(s, temt)
<1>1. /\ a \in Port /\ a.buf = s.buf /\ a.head = s.head /\ a.tail = s.tail
      /\ a.wire = s.wire /\ a.stopped = s.stopped /\ a.hw_stopped = s.hw_stopped
  BY DEF Port
<1>2. b \in Port /\ Sends(s, b)
  <2> HIDE DEF a
  <2>1. Sends(s, a)
    BY <1>1, SameSends
  <2>2. transmit_chars(a) \in Port /\ Sends(s, transmit_chars(a))
    BY <1>1, <2>1, TransmitType, TransmitSends, SendsTwice
  <2>3. b = transmit_chars(a) \/ b = a
    BY Zenon
  <2> QED
    BY <1>1, <2>1, <2>2, <2>3, Zenon
<1>3. o = [b EXCEPT !.txdis = FALSE]
  BY DEF serial8250_start_tx
<1>4. o \in Port
  BY StartType
<1> HIDE DEF b, o
<1>5. /\ o.buf = b.buf /\ o.head = b.head /\ o.tail = b.tail /\ o.wire = b.wire
      /\ o.stopped = b.stopped /\ o.hw_stopped = b.hw_stopped
  BY <1>2, <1>3 DEF Port
<1>6. Sends(b, o)
  BY <1>2, <1>4, <1>5, SameSends
<1>7. Sends(s, o)
  BY <1>2, <1>6, SendsTwice
<1>8. Sends(s, s)
  BY SameSends
<1>9. __uart_start(s, temt) = o \/ __uart_start(s, temt) = s
  BY Zenon DEF __uart_start, o
<1> QED
  BY <1>7, <1>8, <1>9, Zenon DEF o

\* And an interrupt, which may also change hw_stopped before it sends.
LEMMA HandleSends ==
    ASSUME NEW s \in Port, NEW delta \in {"none", "cts", "nocts"},
           NEW thre \in BOOLEAN, NEW temt \in BOOLEAN, NEW o,
           o = serial8250_handle_port(s, delta, thre, temt)
    PROVE  /\ \E n : Sent(s, o, n)
           /\ uart_tx_stopped(s) /\ uart_tx_stopped(o) => o.wire = s.wire
<1> DEFINE up == [s EXCEPT !.hw_stopped = FALSE]
           down == [s EXCEPT !.hw_stopped = TRUE]
           st == serial8250_start_tx(up, temt)
           wk == uart_write_wakeup(st)
           sp == serial8250_stop_tx(down)
           t == check_modem_status(s, delta, temt)
<1>1. /\ up \in Port /\ up.buf = s.buf /\ up.head = s.head /\ up.tail = s.tail
      /\ up.wire = s.wire /\ up.stopped = s.stopped /\ up.hw_stopped = FALSE
      /\ down \in Port /\ down.buf = s.buf /\ down.head = s.head
      /\ down.tail = s.tail /\ down.wire = s.wire
  BY DEF Port
<1>2. t \in {s, wk, sp}
  BY Zenon DEF check_modem_status, uart_handle_cts_change
<1>3. o \in {transmit_chars(t), t}
  BY Zenon DEF serial8250_handle_port
<1> HIDE DEF up, down, t
<1>4. /\ st \in Port /\ Sends(up, st)
  BY <1>1, StartType, StartSends
<1> HIDE DEF st
<1>5. wk \in Port /\ sp \in Port
  BY <1>1, <1>4, StopType
<1>6. /\ wk.buf = st.buf /\ wk.head = st.head /\ wk.tail = st.tail
      /\ wk.wire = st.wire /\ wk.stopped = st.stopped
      /\ wk.hw_stopped = st.hw_stopped
  BY <1>4 DEF uart_write_wakeup, Port
<1>7. /\ sp.buf = s.buf /\ sp.head = s.head /\ sp.tail = s.tail
      /\ sp.wire = s.wire
  BY <1>1 DEF serial8250_stop_tx, __stop_tx, Port
<1> HIDE DEF wk, sp
<1>8. Sends(up, wk)
  <2>1. Sends(st, wk)
    BY <1>4, <1>5, <1>6, SameSends
  <2> QED
    BY <1>1, <1>4, <2>1, SendsTwice
<1>9. Sends(t, o) /\ t \in Port
  <2>1. t \in Port
    BY <1>2, <1>5
  <2> QED
    BY <1>3, <2>1, TransmitSends, SameSends
<1>10. CASE t = s
  BY <1>9, <1>10, Zenon DEF Sends
<1>11. CASE t = wk
  <2>1. Sends(up, o)
    BY <1>1, <1>8, <1>9, <1>11, SendsTwice
  <2>2. PICK n : Sent(up, o, n)
    BY <2>1 DEF Sends
  <2>3. Sent(s, o, n)
    <3>1. Held(up) = Held(s) /\ uart_circ_chars_pending(up) = uart_circ_chars_pending(s)
      BY <1>1 DEF Held, uart_circ_chars_pending
    <3> QED
      BY <1>1, <2>2, <3>1 DEF Sent
  <2>4. uart_tx_stopped(o) => o.wire = s.wire
    BY <1>1, <2>1 DEF Sends, uart_tx_stopped
  <2> QED
    BY <2>3, <2>4, Zenon
<1>12. CASE t = sp
  <2>1. PICK n : Sent(sp, o, n)
    BY <1>9, <1>12 DEF Sends
  <2>2. Sent(s, o, n)
    <3>1. Held(sp) = Held(s) /\ uart_circ_chars_pending(sp) = uart_circ_chars_pending(s)
      BY <1>7 DEF Held, uart_circ_chars_pending
    <3> QED
      BY <1>7, <2>1, <3>1 DEF Sent
  <2>3. sp.hw_stopped
    BY <1>1 DEF sp, serial8250_stop_tx, __stop_tx, Port, down
  <2>4. o.wire = s.wire
    BY <1>7, <1>9, <1>12, <2>3 DEF Sends, uart_tx_stopped
  <2> QED
    BY <2>2, <2>4, Zenon
<1> QED
  BY <1>2, <1>10, <1>11, <1>12

-----------------------------------------------------------------------------

\* What a step does to the buffer and the line: nothing, accept characters
\* behind the pending ones, discard them all, or send the oldest ones, and
\* send none if the port is stopped before and after.
Accepts == \E d \in Seq(Char) : Held(port') = Held(port) \o d /\ port'.wire = <<>>
Discards == Held(port') = <<>> /\ port'.wire = <<>>
SendsOldest ==
    /\ \E n : Sent(Quiet(port), port', n)
    /\ uart_tx_stopped(port) /\ uart_tx_stopped(port') => port'.wire = <<>>

\* Forgetting what was sent changes nothing else.
LEMMA QuietHeld ==
    ASSUME NEW s \in Port
    PROVE  /\ Held(Quiet(s)) = Held(s)
           /\ uart_circ_chars_pending(Quiet(s)) = uart_circ_chars_pending(s)
           /\ uart_circ_chars_free(Quiet(s)) = uart_circ_chars_free(s)
           /\ uart_tx_stopped(Quiet(s)) = uart_tx_stopped(s)
           /\ Quiet(s).wire = <<>>
           /\ Quiet(s).buf = s.buf /\ Quiet(s).head = s.head /\ Quiet(s).tail = s.tail
           /\ Quiet(s).stopped = s.stopped /\ Quiet(s).hw_stopped = s.hw_stopped
<1>1. PICK q : q = Quiet(s)
  OBVIOUS
<1>2. /\ q.wire = <<>> /\ q.buf = s.buf /\ q.head = s.head /\ q.tail = s.tail
      /\ q.stopped = s.stopped /\ q.hw_stopped = s.hw_stopped
  BY <1>1 DEF Quiet, Port
<1>3. /\ uart_circ_chars_pending(q) = uart_circ_chars_pending(s)
      /\ uart_circ_chars_free(q) = uart_circ_chars_free(s)
      /\ uart_tx_stopped(q) = uart_tx_stopped(s)
  BY <1>2, Zenon DEF uart_circ_chars_pending, uart_circ_chars_free, uart_tx_stopped
<1>4. Held(q) = Held(s)
  BY <1>2, <1>3, Zenon DEF Held
<1> QED
  BY <1>1, <1>2, <1>3, <1>4, Zenon

\* Sending from the quiet record is a step that sends the oldest.
LEMMA SendsStep ==
    ASSUME port \in Port, Sends(Quiet(port), port') PROVE SendsOldest
<1>1. /\ uart_tx_stopped(Quiet(port)) = uart_tx_stopped(port)
      /\ Quiet(port).wire = <<>>
  BY QuietHeld
<1> QED
  BY <1>1, Zenon DEF Sends, SendsOldest

\* Every step is of one of these kinds, one case per action.
LEMMA StepKinds ==
    TypeOK /\ [Next]_vars
        => port' = port \/ Accepts \/ Discards \/ SendsOldest
<1> SUFFICES ASSUME TypeOK, [Next]_vars, port' # port
             PROVE  Accepts \/ Discards \/ SendsOldest
  OBVIOUS
<1>0. port \in Port /\ Quiet(port) \in Port
  BY QuietType DEF TypeOK
<1>t. port' \in Port
  BY TypeStep DEF TypeOK
<1>q. /\ Held(Quiet(port)) = Held(port)
      /\ uart_circ_chars_free(Quiet(port)) = uart_circ_chars_free(port)
      /\ Quiet(port).wire = <<>>
      /\ Quiet(port).buf = port.buf /\ Quiet(port).head = port.head
      /\ Quiet(port).tail = port.tail
      /\ Quiet(port).stopped = port.stopped
      /\ Quiet(port).hw_stopped = port.hw_stopped
  BY <1>0, QuietHeld
<1>1. ASSUME NEW p \in Writers, NEW data \in Data, uart_write(p, data)
      PROVE  Accepts
  <2>1. data \in Seq(Char)
    BY DataType
  <2>2. port' = WriteLoop(Quiet(port), data)
    BY <1>1 DEF uart_write
  <2>3. PICK d \in Seq(Char) : Held(port') = Held(port) \o d
    BY <1>0, <1>q, <2>1, <2>2, WriteFill
  <2>4. port'.wire = <<>>
    <3>1. ASSUME NEW r \in Port, NEW x PROVE CopyToEnd(r, x).wire = r.wire
      BY DEF CopyToEnd, Port
    <3>2. CopyToEnd(Quiet(port), data) \in Port
      BY <1>0, <2>1, CopyRound
    <3> QED
      BY <1>0, <1>q, <2>2, <3>1, <3>2 DEF WriteLoop
  <2> QED
    BY <2>3, <2>4 DEF Accepts
<1>2. ASSUME NEW p \in Writers, NEW temt \in Temt, WriteStart(p, temt)
      PROVE  SendsOldest
  BY <1>0, <1>2, StartSends, TemtType, SendsStep DEF WriteStart
<1>3. ASSUME NEW p \in Writers PROVE ~WriterWakes(p)
  BY DEF WriterWakes
<1>4. ASSUME NEW e \in Echoers, NEW c \in Char, uart_put_char(e, c)
      PROVE  Accepts \/ SendsOldest
  <2>1. CASE uart_circ_chars_free(port) # 0
    <3>1. PICK q, nh, o : /\ q = Quiet(port) /\ o = port'
                          /\ nh = (port.head + 1) % UART_XMIT_SIZE
      OBVIOUS
    <3>2. q \in Port /\ o \in Port /\ q.buf = port.buf /\ q.head = port.head
          /\ q.tail = port.tail /\ q.wire = <<>>
      BY <1>0, <1>t, <1>q, <3>1
    <3>3. o = [q EXCEPT !.buf[port.head] = c, !.head = nh]
      BY <1>4, <2>1, <3>1 DEF uart_put_char
    <3>4. /\ o.tail = q.tail /\ o.head = nh /\ o.wire = q.wire
          /\ o.buf = [q.buf EXCEPT ![port.head] = c]
      BY <3>2, <3>3 DEF Port
    <3>5. o.buf = [port.buf EXCEPT ![port.head] = c] /\ o.tail = port.tail
      BY <3>2, <3>4
    <3>6. Held(o) = Held(port) \o <<c>>
      BY <1>0, <2>1, <3>1, <3>2, <3>4, <3>5, PutFill
    <3>7. <<c>> \in Seq(Char)
      OBVIOUS
    <3> QED
      BY <3>1, <3>2, <3>4, <3>6, <3>7, Zenon DEF Accepts
  <2>2. CASE ~(uart_circ_chars_free(port) # 0)
    <3>1. port' = Quiet(port)
      BY <1>4, <2>2 DEF uart_put_char
    <3>2. Sends(Quiet(port), port')
      BY <1>0, <3>1, SameSends
    <3> QED
      BY <1>0, <3>2, SendsStep
  <2> QED
    BY <2>1, <2>2
<1>5. ASSUME NEW e \in Echoers, NEW temt \in Temt, uart_flush_chars(e, temt)
      PROVE  SendsOldest
  BY <1>0, <1>5, StartSends, TemtType, SendsStep DEF uart_flush_chars
<1>6. ASSUME uart_flush_buffer PROVE Discards
  <2>1. port'.head = 0 /\ port'.tail = 0 /\ port'.wire = <<>>
    BY <1>0, <1>q, <1>6 DEF uart_flush_buffer, Port
  <2>2. PICK o : o = port'
    OBVIOUS
  <2>3. uart_circ_chars_pending(o) = 0
    BY <1>t, <2>1, <2>2, PendingValue DEF uart_circ_empty
  <2>4. Held(o) \in Seq(Char) /\ Len(Held(o)) = 0
    BY <1>t, <2>2, <2>3, HeldType
  <2>5. Held(o) = <<>>
    BY <2>4, EmptySeq
  <2> QED
    BY <2>1, <2>2, <2>5 DEF Discards
<1>7. ASSUME stop_tty \/ start_tty PROVE SendsOldest
  <2>1. /\ port'.buf = port.buf /\ port'.head = port.head
        /\ port'.tail = port.tail /\ port'.wire = <<>>
        /\ port'.hw_stopped = port.hw_stopped
    BY <1>0, <1>q, <1>7 DEF stop_tty, start_tty, Port
  <2>3. PICK o : o = [Quiet(port) EXCEPT !.stopped = port'.stopped]
    OBVIOUS
  <2>4. /\ o \in Port /\ o.buf = port.buf /\ o.head = port.head
        /\ o.tail = port.tail /\ o.wire = <<>> /\ o.stopped = port'.stopped
        /\ o.hw_stopped = port.hw_stopped
    <3>1. port'.stopped \in BOOLEAN
      BY <1>t DEF Port
    <3> HIDE DEF Quiet
    <3> QED
      BY <1>0, <1>q, <2>3, <3>1 DEF Port
  <2>5. Sends(o, port')
    BY <1>t, <2>1, <2>4, SameSends
  <2>6. PICK n : Sent(o, port', n)
    BY <2>5 DEF Sends
  <2>7. Sent(Quiet(port), port', n)
    <3>1. Held(o) = Held(Quiet(port))
          /\ uart_circ_chars_pending(o) = uart_circ_chars_pending(Quiet(port))
      BY <1>q, <2>4 DEF Held, uart_circ_chars_pending
    <3> QED
      BY <1>q, <2>4, <2>6, <3>1 DEF Sent
  <2> QED
    BY <2>1, <2>7 DEF SendsOldest
<1>8. ASSUME uart_stop PROVE SendsOldest
  <2>1. port' = serial8250_stop_tx(Quiet(port))
    BY <1>8 DEF uart_stop
  <2>2. /\ port'.buf = Quiet(port).buf /\ port'.head = Quiet(port).head
        /\ port'.tail = Quiet(port).tail /\ port'.wire = Quiet(port).wire
        /\ port'.stopped = Quiet(port).stopped
        /\ port'.hw_stopped = Quiet(port).hw_stopped
    BY <1>0, <2>1 DEF serial8250_stop_tx, __stop_tx, Port
  <2>3. Sends(Quiet(port), port')
    BY <1>0, <1>t, <2>2, SameSends
  <2> QED
    BY <1>0, <2>3, SendsStep
<1>9. ASSUME NEW temt \in Temt, uart_start(temt) \/ SendXcharStart(temt)
      PROVE  SendsOldest
  BY <1>0, <1>9, StartSends, TemtType, SendsStep DEF uart_start, SendXcharStart
<1>10. ASSUME uart_throttle \/ uart_unthrottle \/ UnthrottleClear
              \/ uart_tasklet_action
       PROVE  SendsOldest
  <2>1. /\ port'.buf = Quiet(port).buf /\ port'.head = Quiet(port).head
        /\ port'.tail = Quiet(port).tail /\ port'.wire = Quiet(port).wire
        /\ port'.stopped = Quiet(port).stopped
        /\ port'.hw_stopped = Quiet(port).hw_stopped
    BY <1>0, <1>10
       DEF uart_throttle, uart_unthrottle, UnthrottleClear,
           uart_tasklet_action, Port
  <2>2. Sends(Quiet(port), port')
    BY <1>0, <1>t, <2>1, SameSends
  <2> QED
    BY <1>0, <2>2, SendsStep
<1>11. ASSUME NEW delta \in {"none", "cts", "nocts"}, NEW thre \in BOOLEAN,
              NEW temt \in Temt, serial8250_interrupt(delta, thre, temt)
       PROVE  SendsOldest
  <2>1. PICK o : o = port' /\ o = serial8250_handle_port(Quiet(port), delta, thre, temt)
    BY <1>11 DEF serial8250_interrupt
  <2>2. temt \in BOOLEAN
    BY TemtType
  <2>3. /\ \E n : Sent(Quiet(port), o, n)
        /\ uart_tx_stopped(Quiet(port)) /\ uart_tx_stopped(o)
             => o.wire = Quiet(port).wire
    BY <1>0, <2>1, <2>2, HandleSends
  <2>4. uart_tx_stopped(Quiet(port)) = uart_tx_stopped(port)
    BY <1>0, QuietHeld
  <2> QED
    BY <1>q, <2>1, <2>3, <2>4, Zenon DEF SendsOldest
<1>12. ~UNCHANGED vars
  BY DEF vars
<1> QED
  BY <1>1, <1>2, <1>3, <1>4, <1>5, <1>6, <1>7, <1>8, <1>9, <1>10, <1>11, <1>12
     DEF Next

\* While the port is stopped nothing of the buffer goes out, whichever way
\* the handlers, the writers and flow control interleave.
THEOREM StoppedStaysSilent == Spec => StoppedIsSilent
<1>1. TypeOK /\ [Next]_vars
        => [uart_tx_stopped(port) /\ uart_tx_stopped(port)'
              => port'.wire \in {<<>>, port.wire}]_vars
  <2> SUFFICES ASSUME TypeOK, [Next]_vars, uart_tx_stopped(port),
                      uart_tx_stopped(port)'
               PROVE  port'.wire \in {<<>>, port.wire}
    OBVIOUS
  <2>1. uart_tx_stopped(port')
    BY DEF uart_tx_stopped
  <2> QED
    BY <2>1, StepKinds DEF Accepts, Discards, SendsOldest
<1> QED
  BY <1>1, TypeCorrect, PTL DEF Spec, StoppedIsSilent

\* Each kind of step is a step of the queue.
LEMMA QueueStep == TypeOK /\ [Next]_vars => [Fifo!Next]_(Fifo!qvars)
<1> SUFFICES ASSUME TypeOK, [Next]_vars PROVE [Fifo!Next]_(Fifo!qvars)
  OBVIOUS
<1>0. port \in Port /\ port' \in Port
  BY TypeStep DEF TypeOK
<1>1. Pending = Held(port) /\ Pending' = Held(port')
  BY DEF Pending, Held
<1>2. CASE port' = port
  <2>1. Pending' = Pending /\ port'.wire = port.wire
    BY <1>1, <1>2
  <2> QED
    BY <2>1 DEF Fifo!qvars
<1>3. CASE Accepts
  <2>1. PICK d \in Seq(Char) : Held(port') = Held(port) \o d /\ port'.wire = <<>>
    BY <1>3 DEF Accepts
  <2>2. PICK x, y, k : /\ x = Held(port) /\ y = Held(port') /\ y = x \o d
                       /\ k = UART_XMIT_SIZE - 1
    BY <2>1
  <2>3. x \in Seq(Char) /\ Len(y) = Len(x) + Len(d) /\ Len(x) \in Nat
    <3>1. x \in Seq(Char)
      BY <1>0, <2>2, HeldType
    <3> QED
      BY <2>2, <3>1, ConcatProperties
  <2>4. Len(y) \in 0..k
    BY <1>0, <2>2, HeldType, PendingValue
  <2>5. Len(d) \in 0..k /\ Len(x) + Len(d) <= k /\ Len(d) \in Nat /\ k \in Int
    BY <2>2, <2>3, <2>4, SizeAssumption
  <2>6. d \in [1..Len(d) -> Char]
    OBVIOUS
  <2>7. d \in UNION {[1..n -> Char] : n \in 0..k}
    BY <2>5, <2>6
  <2>8. /\ Pending = x /\ Pending' = x \o d /\ port'.wire = <<>>
    BY <1>1, <2>1, <2>2
  <2>9. Fifo!Put(d)
    BY <2>2, <2>5, <2>8 DEF Fifo!Put
  <2>10. Fifo!Next
    BY <2>2, <2>7, <2>9 DEF Fifo!Next
  <2> QED
    BY <2>10
<1>4. CASE Discards
  <2>1. Fifo!Clear
    BY <1>1, <1>4 DEF Discards, Fifo!Clear
  <2> QED
    BY <2>1 DEF Fifo!Next
<1>5. CASE SendsOldest
  <2>1. PICK n : Sent(Quiet(port), port', n)
    BY <1>5 DEF SendsOldest
  <2>2. PICK x : x = Held(port)
    OBVIOUS
  <2>3. /\ Held(Quiet(port)) = x
        /\ uart_circ_chars_pending(Quiet(port)) = Len(x)
        /\ Quiet(port) \in Port /\ Quiet(port).wire = <<>>
        /\ x \in Seq(Char)
    BY <1>0, <2>2, QuietHeld, QuietType, HeldType
  <2>4. Held(port') = SubSeq(x, n + 1, Len(x))
    BY <2>1, <2>3, SentRest
  <2>5. n \in 0..Len(x) /\ port'.wire = <<>> \o SubSeq(x, 1, n)
    BY <2>1, <2>3 DEF Sent
  <2>6. port'.wire = SubSeq(x, 1, n)
    <3>1. Len(x) \in Nat /\ \A i \in 1..n : x[i] \in Char
      BY <2>3, <2>5
    <3>2. SubSeq(x, 1, n) \in Seq(Char)
      BY <2>5, <3>1, SubSeqProperties
    <3> QED
      BY <2>5, <3>2, ConcatEmptySeq
  <2>7. Fifo!Take(n)
    BY <1>1, <2>2, <2>4, <2>6 DEF Fifo!Take
  <2> QED
    BY <1>1, <2>2, <2>5, <2>7 DEF Fifo!Next
<1> QED
  BY <1>2, <1>3, <1>4, <1>5, StepKinds

\* The transmit side implements the queue of UART_XMIT_SIZE - 1 characters:
\* what is accepted goes out in order, once, and none of it is overwritten.
THEOREM ImplementsQueue == Spec => FifoSpec
<1>1. Init => Fifo!Init
  <2> SUFFICES ASSUME Init PROVE Fifo!Init
    OBVIOUS
  <2>1. port \in Port
    BY InitIInv DEF IInv, TypeOK
  <2>2. uart_circ_chars_pending(port) = 0 /\ port.wire = <<>>
    BY <2>1, PendingValue DEF Init, uart_circ_empty
  <2>3. Held(port) \in Seq(Char) /\ Len(Held(port)) = 0
    BY <2>1, <2>2, HeldType
  <2>4. Held(port) = <<>>
    BY <2>3, EmptySeq
  <2> QED
    BY <2>2, <2>4 DEF Fifo!Init, Pending, Held
<1> QED
  BY <1>1, QueueStep, TypeCorrect, PTL DEF Spec, FifoSpec, Fifo!Spec

-----------------------------------------------------------------------------
(* SerialDaemon: its specification is DaemonSpec.                           *)

\* At boot the buffer is empty and nobody is attached.
LEMMA DaemonInitType == DaemonInit => DaemonTypeOK
<1> SUFFICES ASSUME DaemonInit PROVE DaemonTypeOK
  OBVIOUS
<1>1. /\ len \in [Loggers -> 0..MaxLen] /\ left \in [Loggers -> 0..MaxLen]
      /\ reg \in [Loggers -> Nat]
  BY LenAssumption DEF DaemonInit
<1>2. buf \in [Offsets -> Nat] /\ calls \in 0..MaxCalls
  BY LenAssumption DEF DaemonInit
<1> QED
  BY <1>1, <1>2 DEF DaemonInit, DaemonTypeOK

\* Every step of a writer, of the kernel thread and of a daemon keeps the
\* types.
LEMMA DaemonTypeStep == DaemonTypeOK /\ [DaemonNext]_daemon_vars => DaemonTypeOK'
<1> SUFFICES ASSUME DaemonTypeOK, [DaemonNext]_daemon_vars PROVE DaemonTypeOK'
  OBVIOUS
<1> USE DEF DaemonTypeOK
<1>0. MaxLen \in Nat /\ MaxLen >= 1 /\ MaxCalls \in Nat /\ PAGE_SIZE \in Nat
  BY LenAssumption, PageAssumption
<1>1. ASSUME NEW w \in Loggers, NEW n \in 1..MaxLen, Call(w, n) PROVE DaemonTypeOK'
  <2>1. calls' \in 0..MaxCalls
    BY <1>0, <1>1 DEF Call
  <2>2. len' \in [Loggers -> 0..MaxLen] /\ left' \in [Loggers -> 0..MaxLen]
    BY <1>0, <1>1 DEF Call
  <2> QED
    BY <1>1, <2>1, <2>2 DEF Call, kvars, hist
<1>2. ASSUME NEW w \in Loggers, Enter(w) PROVE DaemonTypeOK'
  <2>1. left' \in [Loggers -> 0..MaxLen]
    BY <1>0, <1>2 DEF Enter
  <2>2. overlap' \subseteq {"writers", "thread"}
    <3>1. Met(w) \subseteq {"writers", "thread"}
      BY Zenon DEF Met
    <3>2. overlap' \in {overlap, overlap \cup Met(w)}
      BY <1>2, Zenon DEF Enter
    <3> QED
      BY <3>1, <3>2
  <2> QED
    BY <1>2, <2>1, <2>2 DEF Enter, kvars
<1>3. ASSUME NEW w \in Loggers, Check(w) PROVE DaemonTypeOK'
  BY <1>3 DEF Check, kvars, hist
<1>4. ASSUME NEW w \in Loggers, Restart(w) PROVE DaemonTypeOK'
  BY <1>4 DEF Restart, kvars, hist
<1>5. ASSUME NEW w \in Loggers, Copy(w) PROVE DaemonTypeOK'
  <2>1. PICK off \in {reg[w], length} :
           buf' = [i \in Offsets |-> IF i \in off .. off + len[w] - 1
                                     THEN logged + 1 + i - off ELSE buf[i]]
    BY <1>5 DEF Copy
  <2>2. off \in Nat /\ len[w] \in Nat
    BY <1>0
  <2>3. ASSUME NEW i \in Offsets, i \in off .. off + len[w] - 1
        PROVE  logged + 1 + i - off \in Nat
    BY <1>0, <2>2, <2>3 DEF Offsets
  <2>4. buf' \in [Offsets -> Nat]
    BY <2>1, <2>3
  <2>5. logged' \in Nat
    BY <1>5, <2>2 DEF Copy
  <2> QED
    BY <1>5, <2>4, <2>5 DEF Copy, kvars
<1>6. ASSUME NEW w \in Loggers, Load(w) PROVE DaemonTypeOK'
  BY <1>6 DEF Load, kvars, hist
<1>7. ASSUME NEW w \in Loggers, Store(w) PROVE DaemonTypeOK'
  <2>1. length' \in Nat
    BY <1>0, <1>7 DEF Store
  <2> QED
    BY <1>7, <2>1 DEF Store, kvars, hist
<1>8. ASSUME NEW w \in Loggers, serial_daemon_complete(w) PROVE DaemonTypeOK'
  BY <1>8 DEF serial_daemon_complete, kvars, hist
<1>9. ASSUME KthreadStep PROVE DaemonTypeOK'
  <2>1. CASE KWait
    BY <2>1 DEF KWait, wvars, hist
  <2>2. CASE KPut \/ KCopy
    BY <2>2 DEF KPut, KCopy, wvars, hist
  <2>5. CASE KClear
    BY <2>5 DEF KClear, wvars, hist
  <2>3. CASE KSend
    BY <2>3 DEF KSend, wvars
  <2>4. CASE KTest
    <3>1. overlap' \in {overlap, overlap \cup {"thread"}}
      BY <2>4, Zenon DEF KTest
    <3>2. kpc' \in {"put", "oops", "wait"}
      BY <2>4 DEF KTest
    <3> QED
      BY <2>4, <3>1, <3>2 DEF KTest, wvars
  <2> QED
    BY <1>9, <2>1, <2>2, <2>3, <2>4, <2>5 DEF KthreadStep
<1>10. ASSUME NEW p \in Pids, Attach(p) \/ Exit(p) PROVE DaemonTypeOK'
  BY <1>10 DEF Attach, Exit, wvars, kvars, hist
<1>11. ASSUME Detach PROVE DaemonTypeOK'
  BY <1>11 DEF Detach, wvars, kvars, hist
<1>12. CASE UNCHANGED daemon_vars
  BY <1>12 DEF daemon_vars, wvars, kvars, hist
<1> QED
  BY <1>1, <1>2, <1>3, <1>4, <1>5, <1>6, <1>7, <1>8, <1>9, <1>10, <1>11, <1>12
     DEF DaemonNext, WriterStep

\* The variables keep their types.
THEOREM DaemonTypeCorrect == DaemonSpec => []DaemonTypeOK
BY DaemonInitType, DaemonTypeStep, PTL DEF DaemonSpec

Lone == \A v, w \in Loggers : Inside(v) /\ Inside(w) => v = w

Bounded == length <= PAGE_SIZE /\ WriterBound

LogInv == DaemonTypeOK /\ ("writers" \notin overlap => Bounded /\ Lone)

\* Those who have met never count as alone again.
LEMMA MetForGood == DaemonTypeOK /\ [DaemonNext]_daemon_vars => overlap \subseteq overlap'
<1> SUFFICES ASSUME DaemonTypeOK, [DaemonNext]_daemon_vars PROVE overlap \subseteq overlap'
  OBVIOUS
<1>1. ASSUME NEW w \in Loggers, Enter(w) PROVE overlap \subseteq overlap'
  BY <1>1 DEF Enter
<1>2. ASSUME NEW w \in Loggers,
             \/ \E n \in 1..MaxLen : Call(w, n)
             \/ Check(w) \/ Restart(w) \/ Copy(w) \/ Load(w) \/ Store(w)
             \/ serial_daemon_complete(w)
      PROVE  overlap' = overlap
  BY <1>2 DEF Call, Check, Restart, Copy, Load, Store, serial_daemon_complete,
              hist
<1>3. ASSUME KthreadStep PROVE overlap \subseteq overlap'
  BY <1>3 DEF KthreadStep, KWait, KTest, KPut, KCopy, KClear, KSend, hist
<1>4. ASSUME \/ \E p \in Pids : Attach(p) \/ Exit(p)
             \/ Detach \/ UNCHANGED daemon_vars
      PROVE  overlap' = overlap
  BY <1>4 DEF Attach, Exit, Detach, daemon_vars, hist
<1> QED
  BY <1>1, <1>2, <1>3, <1>4 DEF DaemonNext, WriterStep

\* A lone writer's check still holds when it copies and stores, for the
\* kernel thread can only have emptied the buffer in between; and a second
\* writer that begins an entry has met the first one.
LEMMA BoundStep == LogInv /\ [DaemonNext]_daemon_vars => LogInv'
<1> SUFFICES ASSUME LogInv, [DaemonNext]_daemon_vars, "writers" \notin overlap'
             PROVE  Bounded' /\ Lone'
  BY DaemonTypeStep DEF LogInv
<1>0. MaxLen \in Nat /\ MaxLen <= PAGE_SIZE /\ PAGE_SIZE \in Nat
  BY LenAssumption, PageAssumption
<1>1. Bounded /\ Lone
  BY MetForGood DEF LogInv
<1>2. /\ length \in Nat /\ length <= PAGE_SIZE
      /\ wpc \in [Loggers -> {"idle", "enter", "check", "reset", "copy", "load",
                             "store", "complete"}]
      /\ reg \in [Loggers -> Nat] /\ len \in [Loggers -> 0..MaxLen]
  BY <1>1 DEF LogInv, DaemonTypeOK, Bounded
<1>3. \A w \in Loggers : len[w] \in Nat /\ len[w] <= PAGE_SIZE /\ reg[w] \in Nat
  BY <1>0, <1>2
<1> HIDE DEF LogInv
<1> USE DEF Bounded, Lone, WriterBound, Inside
<1>4. ASSUME NEW w \in Loggers, NEW n \in 1..MaxLen, Call(w, n)
      PROVE  Bounded' /\ Lone'
  BY <1>1, <1>2, <1>4 DEF Call
<1>5. ASSUME NEW w \in Loggers, Enter(w) PROVE Bounded' /\ Lone'
  <2>1. Bounded'
    BY <1>1, <1>2, <1>5 DEF Enter
  <2>2. wpc'[w] = "check" => \A v \in Loggers \ {w} : ~Inside(v)
    BY <1>2, <1>5 DEF Enter, Met
  <2>3. \A v \in Loggers \ {w} : wpc'[v] = wpc[v]
    BY <1>2, <1>5 DEF Enter
  <2>4. wpc'[w] \in {"check", "enter", "complete", "idle"}
    BY <1>2, <1>5 DEF Enter
  <2> QED
    BY <1>1, <2>1, <2>2, <2>3, <2>4
<1>6. ASSUME NEW w \in Loggers, Check(w) PROVE Bounded' /\ Lone'
  BY <1>0, <1>1, <1>2, <1>3, <1>6 DEF Check
<1>7. ASSUME NEW w \in Loggers, Restart(w) PROVE Bounded' /\ Lone'
  BY <1>0, <1>1, <1>2, <1>3, <1>7 DEF Restart
<1>8. ASSUME NEW w \in Loggers, Copy(w) PROVE Bounded' /\ Lone'
  BY <1>1, <1>2, <1>8 DEF Copy
<1>9. ASSUME NEW w \in Loggers, Load(w) PROVE Bounded' /\ Lone'
  BY <1>1, <1>2, <1>9 DEF Load
<1>10. ASSUME NEW w \in Loggers, Store(w) PROVE Bounded' /\ Lone'
  <2>1. length' = reg[w] + len[w] /\ reg[w] + len[w] <= PAGE_SIZE
    BY <1>1, <1>10 DEF Store
  <2>2. \A v \in Loggers : wpc'[v] \notin {"copy", "load", "store", "check", "reset"}
    BY <1>1, <1>2, <1>10 DEF Store
  <2> QED
    BY <2>1, <2>2
<1>11. ASSUME NEW w \in Loggers, serial_daemon_complete(w)
       PROVE  Bounded' /\ Lone'
  BY <1>1, <1>2, <1>11 DEF serial_daemon_complete
<1>12. ASSUME KClear PROVE Bounded' /\ Lone'
  BY <1>0, <1>1, <1>2, <1>3, <1>12 DEF KClear, wvars
<1>13. ASSUME \/ KWait \/ KTest \/ KPut \/ KCopy \/ KSend
              \/ (\E p \in Pids : Attach(p) \/ Exit(p)) \/ Detach
              \/ UNCHANGED daemon_vars
       PROVE  Bounded' /\ Lone'
  <2>1. UNCHANGED <<length, wvars>>
    BY <1>13 DEF KWait, KTest, KPut, KCopy, KSend, Attach, Exit, Detach, daemon_vars
  <2> QED
    BY <1>1, <2>1 DEF wvars
<1> QED
  BY <1>4, <1>5, <1>6, <1>7, <1>8, <1>9, <1>10, <1>11, <1>12, <1>13
     DEF DaemonNext, WriterStep, KthreadStep

\* As long as no two contexts log at the same time, neither
\* serial_daemon_write nor serial_daemon_putchar writes behind the page, and
\* the kernel thread never reads behind it, wherever the thread and the
\* commands come between.
THEOREM StaysWithinBuffer == DaemonSpec => []AloneWithinBuffer
<1>1. DaemonInit => LogInv
  BY DaemonInitType, PageAssumption DEF LogInv, DaemonInit, WriterBound, Bounded, Lone, Inside
<1>2. LogInv => AloneWithinBuffer
  BY DEF LogInv, Bounded, WriterBound, WithinBuffer, AloneWithinBuffer
<1> QED
  BY <1>1, <1>2, BoundStep, PTL DEF DaemonSpec

-----------------------------------------------------------------------------
(* What was sent and what is in the buffer.                                 *)

\* Nobody meets anybody.
Apart == Lone /\ \A w \in Loggers : Inside(w) => ~KInside

\* The thread's copies of length agree, and so does a writer's register.
Handover ==
    /\ out \in Seq(Nat) /\ msg \in Seq(Nat)
    /\ kpc \notin {"clear", "send"} => msg = <<>>
    /\ kpc \in {"memcpy", "clear"} => declared = length
    /\ kpc = "clear" => Len(msg) = length
    /\ kpc = "send" => declared = Len(msg)
    /\ \A w \in Loggers : wpc[w] \in {"copy", "store"} => reg[w] = length

\* The bytes that have left the buffer, sent or in the thread's skb; a writer
\* that has copied its bytes and not yet stored the new length.
Taken == IF kpc = "send" THEN Len(out) + Len(msg) ELSE Len(out)
LogCopied(w) == wpc[w] \in {"load", "store"}

Numbered(s, n) == \A i \in 1..Len(s) : s[i] = n + i
Filled(b, t, n) == \A i \in Int : 0 <= i /\ i < n => b[i] = t + i + 1

Order ==
    ~wrapped =>
        /\ Numbered(out, 0) /\ Numbered(msg, Len(out))
        /\ Filled(buf, Taken, length)
        /\ (\A w \in Loggers : ~LogCopied(w)) => logged = Taken + length
        /\ \A w \in Loggers : LogCopied(w) =>
              /\ logged = Taken + length + len[w]
              /\ Filled(buf, Taken, length + len[w])

OInv == LogInv /\ (overlap = {} => Apart /\ Handover /\ Order)

\* Steps that touch neither the buffer nor the messages, nor a writer that
\* has copied.
LEMMA OrderKept ==
    ASSUME Order, UNCHANGED <<buf, length, logged, wrapped>>,
           Numbered(out', 0), Numbered(msg', Len(out')), Taken' = Taken,
           \A w \in Loggers : (LogCopied(w)' <=> LogCopied(w)) /\ (LogCopied(w) => len'[w] = len[w])
    PROVE  Order'
<1> SUFFICES ASSUME ~wrapped' PROVE
        /\ Numbered(out', 0) /\ Numbered(msg', Len(out'))
        /\ Filled(buf', Taken', length')
        /\ (\A w \in Loggers : ~LogCopied(w)') => logged' = Taken' + length'
        /\ \A w \in Loggers : LogCopied(w)' =>
              /\ logged' = Taken' + length' + len'[w]
              /\ Filled(buf', Taken', length' + len'[w])
  BY DEF Order, Numbered, Filled
<1>1. Filled(buf', Taken', length')
  BY Zenon DEF Order
<1>2. (\A w \in Loggers : ~LogCopied(w)') => logged' = Taken' + length'
  BY DEF Order
<1>3. ASSUME NEW w \in Loggers, LogCopied(w)'
      PROVE  /\ logged' = Taken' + length' + len'[w]
             /\ Filled(buf', Taken', length' + len'[w])
  <2>1. /\ logged = Taken + length + len[w]
        /\ Filled(buf, Taken, length + len[w])
        /\ len'[w] = len[w]
    BY <1>3 DEF Order
  <2> QED
    BY <2>1, Zenon
<1> QED
  BY <1>1, <1>2, <1>3

\* Nobody who has met is forgotten, and a writer or the thread that begins is
\* alone: otherwise the overlap is recorded.
LEMMA ApartStep ==
    ASSUME DaemonTypeOK, Apart, Lone', [DaemonNext]_daemon_vars, overlap' = {}
    PROVE  Apart'
<1>0. wpc \in [Loggers -> {"idle", "enter", "check", "reset", "copy", "load",
                          "store", "complete"}]
  BY DEF DaemonTypeOK
<1>x. Apart' <=> Lone' /\ \A w \in Loggers : Inside(w)' => ~KInside'
  BY DEF Apart
<1>k. ASSUME KInside' => KInside, \A w \in Loggers : Inside(w)' => Inside(w)
      PROVE  Apart'
  BY <1>k, <1>x DEF Apart
<1> USE DEF Inside
<1>1. ASSUME NEW w \in Loggers, Enter(w) PROVE Apart'
  <2>0. kpc' = kpc
    BY <1>1 DEF Enter, kvars
  <2>1. \A v \in Loggers \ {w} : wpc'[v] = wpc[v]
    BY <1>0, <1>1 DEF Enter
  <2>2. wpc'[w] \in {"check", "enter", "complete", "idle"}
    BY <1>0, <1>1 DEF Enter
  <2>3. wpc'[w] = "check" => ~KInside
    <3>1. wpc'[w] = "check" => overlap' = overlap \cup Met(w)
      BY <1>0, <1>1 DEF Enter
    <3>2. KInside => "thread" \in Met(w)
      BY DEF Met
    <3> QED
      BY <3>1, <3>2
  <2> QED
    BY <2>0, <2>1, <2>2, <2>3, <1>x DEF Apart, KInside
<1>2. ASSUME NEW w \in Loggers,
             \/ \E n \in 1..MaxLen : Call(w, n)
             \/ Check(w) \/ Restart(w) \/ Copy(w) \/ Load(w) \/ Store(w)
             \/ serial_daemon_complete(w)
      PROVE  Apart'
  <2>1. kpc' = kpc
    BY <1>2 DEF Call, Check, Restart, Copy, Load, Store, serial_daemon_complete, kvars
  <2>2. \A v \in Loggers : Inside(v)' => Inside(v)
    BY <1>0, <1>2 DEF Call, Check, Restart, Copy, Load, Store, serial_daemon_complete
  <2> QED
    BY <2>1, <2>2, <1>k DEF KInside
<1>3. ASSUME KWait \/ KPut \/ KCopy \/ KClear \/ KSend PROVE Apart'
  <2>1. wpc' = wpc
    BY <1>3 DEF KWait, KPut, KCopy, KClear, KSend, wvars
  <2>2. KInside' => KInside
    BY <1>3 DEF KWait, KPut, KCopy, KClear, KSend, KInside
  <2> QED
    BY <2>1, <2>2, <1>k
<1>4. ASSUME KTest PROVE Apart'
  <2>1. wpc' = wpc
    BY <1>4 DEF KTest, wvars
  <2>2. kpc' = "put" /\ (\E w \in Loggers : Inside(w)) => "thread" \in overlap'
    BY <1>4, Zenon DEF KTest
  <2>3. KInside' => kpc' = "put"
    BY <1>4 DEF KTest, KInside
  <2> QED
    BY <2>1, <2>2, <2>3, <1>x
<1>5. ASSUME \/ \E p \in Pids : Attach(p) \/ Exit(p)
             \/ Detach \/ UNCHANGED daemon_vars
      PROVE  Apart'
  BY <1>5, <1>k DEF Attach, Exit, Detach, daemon_vars, wvars, kvars, KInside
<1> QED
  BY <1>1, <1>2, <1>3, <1>4, <1>5 DEF DaemonNext, WriterStep, KthreadStep

\* The thread and the writer hand the buffer over as they should.
LEMMA HandoverStep ==
    ASSUME DaemonTypeOK, Apart, Bounded, Handover, [DaemonNext]_daemon_vars
    PROVE  Handover'
<1>0. /\ wpc \in [Loggers -> {"idle", "enter", "check", "reset", "copy", "load",
                             "store", "complete"}]
      /\ reg \in [Loggers -> Nat] /\ length \in Nat /\ buf \in [Offsets -> Nat]
      /\ length <= PAGE_SIZE /\ PAGE_SIZE \in Nat
  BY PageAssumption DEF DaemonTypeOK, Bounded
<1>x. Handover' <=>
      /\ out' \in Seq(Nat) /\ msg' \in Seq(Nat)
      /\ kpc' \notin {"clear", "send"} => msg' = <<>>
      /\ kpc' \in {"memcpy", "clear"} => declared' = length'
      /\ kpc' = "clear" => Len(msg') = length'
      /\ kpc' = "send" => declared' = Len(msg')
      /\ \A w \in Loggers : wpc'[w] \in {"copy", "store"} => reg'[w] = length'
  BY DEF Handover
<1>1. ASSUME NEW w \in Loggers, UNCHANGED <<out, kvars, length>>,
             \A v \in Loggers \ {w} : wpc'[v] = wpc[v] /\ reg'[v] = reg[v],
             wpc'[w] \in {"copy", "store"} => reg'[w] = length
      PROVE  Handover'
  BY <1>1 DEF Handover, kvars
<1>2. ASSUME NEW w \in Loggers,
             \/ \E n \in 1..MaxLen : Call(w, n)
             \/ Enter(w) \/ Copy(w) \/ serial_daemon_complete(w)
      PROVE  Handover'
  <2>1. /\ UNCHANGED <<out, kvars, length, reg>>
        /\ \A v \in Loggers \ {w} : wpc'[v] = wpc[v]
        /\ wpc'[w] \notin {"copy", "store"}
    BY <1>0, <1>2 DEF Call, Enter, Copy, serial_daemon_complete, hist
  <2> QED
    BY <2>1, <1>1
<1>3. ASSUME NEW w \in Loggers, Check(w) \/ Load(w)
      PROVE  Handover'
  <2>1. /\ UNCHANGED <<out, kvars, length>>
        /\ \A v \in Loggers \ {w} : wpc'[v] = wpc[v] /\ reg'[v] = reg[v]
        /\ reg'[w] = length
    BY <1>0, <1>3 DEF Check, Load, hist
  <2> QED
    BY <2>1, <1>1
<1>4. ASSUME NEW w \in Loggers, Restart(w) \/ Store(w)
      PROVE  Handover'
  <2>1. Inside(w) /\ ~KInside
    BY <1>4 DEF Restart, Store, Inside, Apart
  <2>2. \A v \in Loggers \ {w} : wpc[v] \notin {"copy", "store"}
    BY <2>1 DEF Apart, Lone, Inside
  <2>3. /\ UNCHANGED <<out, kvars>>
        /\ \A v \in Loggers \ {w} : wpc'[v] = wpc[v]
        /\ wpc'[w] \in {"copy", "store"} => reg'[w] = length'
    BY <1>0, <1>4 DEF Restart, Store, hist
  <2> QED
    BY <1>x, <2>1, <2>2, <2>3 DEF Handover, KInside, kvars
<1>5. ASSUME KWait \/ KTest PROVE Handover'
  BY <1>5 DEF KWait, KTest, Handover, wvars, hist
<1>6. ASSUME KPut PROVE Handover'
  BY <1>6 DEF KPut, Handover, wvars, hist
<1>7. ASSUME KCopy PROVE Handover'
  <2>1. msg' = [i \in 1..length |-> buf[i - 1]] /\ kpc = "memcpy" /\ kpc' = "clear"
        /\ UNCHANGED <<out, declared, length, wpc, reg>>
    BY <1>7 DEF KCopy, wvars, hist
  <2>2. \A i \in 1..length : buf[i - 1] \in Nat
    BY <1>0 DEF Offsets
  <2>3. msg' \in [1..length -> Nat]
    BY <2>1, <2>2
  <2>4. msg' \in Seq(Nat) /\ Len(msg') = length
    BY <1>0, <2>3
  <2> QED
    BY <1>x, <2>1, <2>4 DEF Handover
<1>8. ASSUME KClear PROVE Handover'
  <2>1. \A w \in Loggers : wpc[w] \notin {"copy", "store"}
    BY <1>8 DEF KClear, Apart, Inside, KInside
  <2> QED
    BY <1>8, <1>x, <2>1 DEF KClear, Handover, wvars, hist
<1>9. ASSUME KSend PROVE Handover'
  <2>1. out' \in Seq(Nat)
    BY <1>9 DEF KSend, Handover
  <2> QED
    BY <1>9, <1>x, <2>1 DEF KSend, Handover, wvars
<1>10. ASSUME \/ \E p \in Pids : Attach(p) \/ Exit(p)
              \/ Detach \/ UNCHANGED daemon_vars
       PROVE  Handover'
  BY <1>10 DEF Attach, Exit, Detach, daemon_vars, wvars, kvars, hist, Handover
<1> QED
  BY <1>2, <1>3, <1>4, <1>5, <1>6, <1>7, <1>8, <1>9, <1>10
     DEF DaemonNext, WriterStep, KthreadStep

\* No byte is lost, repeated or reordered on its way through the buffer.
LEMMA OrderStep ==
    ASSUME DaemonTypeOK, Apart, Bounded, Handover, Order, [DaemonNext]_daemon_vars
    PROVE  Order'
<1>0. /\ wpc \in [Loggers -> {"idle", "enter", "check", "reset", "copy", "load",
                             "store", "complete"}]
      /\ reg \in [Loggers -> Nat] /\ length \in Nat /\ buf \in [Offsets -> Nat]
      /\ len \in [Loggers -> 0..MaxLen] /\ MaxLen \in Nat
      /\ length <= PAGE_SIZE /\ PAGE_SIZE \in Nat /\ logged \in Nat
      /\ out \in Seq(Nat) /\ msg \in Seq(Nat)
  BY PageAssumption, LenAssumption DEF DaemonTypeOK, Bounded, Handover
<1>t. Len(out) \in Nat /\ Len(msg) \in Nat /\ Taken \in Nat
  <2>1. Len(out) \in Nat /\ Len(msg) \in Nat
    BY <1>0
  <2> QED
    BY <2>1 DEF Taken
<1>x. Order' <=>
      (~wrapped' =>
        /\ Numbered(out', 0) /\ Numbered(msg', Len(out'))
        /\ Filled(buf', Taken', length')
        /\ (\A w \in Loggers : ~LogCopied(w)') => logged' = Taken' + length'
        /\ \A w \in Loggers : LogCopied(w)' =>
              /\ logged' = Taken' + length' + len'[w]
              /\ Filled(buf', Taken', length' + len'[w]))
  BY DEF Order, Numbered, Filled
<1>k. ASSUME UNCHANGED <<buf, length, logged, wrapped, out, msg>>, Taken' = Taken,
             \A w \in Loggers : /\ LogCopied(w)' <=> LogCopied(w)
                                /\ LogCopied(w) => len'[w] = len[w]
      PROVE  Order'
  <2>1. CASE wrapped
    BY <1>k, <1>x, <2>1
  <2>2. CASE ~wrapped
    <3>1. Numbered(out', 0) /\ Numbered(msg', Len(out'))
      <4>1. Numbered(out, 0) /\ Numbered(msg, Len(out))
        BY <2>2 DEF Order
      <4> QED
        BY <4>1, <1>k, Zenon
    <3> QED
      BY <1>k, <3>1, OrderKept
  <2> QED
    BY <2>1, <2>2
<1>1. ASSUME NEW w \in Loggers,
             \/ \E n \in 1..MaxLen : Call(w, n)
             \/ Enter(w) \/ Check(w) \/ Load(w) \/ serial_daemon_complete(w)
      PROVE  Order'
  <2>1. UNCHANGED <<buf, length, logged, wrapped, out, msg, kpc>>
    BY <1>1 DEF Call, Enter, Check, Load, serial_daemon_complete, kvars, hist
  <2>2. Taken' = Taken
    BY <2>1 DEF Taken
  <2>3. \A v \in Loggers : /\ LogCopied(v)' <=> LogCopied(v)
                           /\ LogCopied(v) => len'[v] = len[v]
    BY <1>0, <1>1 DEF Call, Enter, Check, Load, serial_daemon_complete, LogCopied
  <2> QED
    BY <2>1, <2>2, <2>3, <1>k
<1>2. ASSUME NEW w \in Loggers, Restart(w) PROVE Order'
  BY <1>2, <1>x DEF Restart
<1>3. ASSUME NEW w \in Loggers, Copy(w), ~wrapped' PROVE Order'
  <2>1. /\ wpc[w] = "copy" /\ wpc' = [wpc EXCEPT ![w] = "load"]
        /\ logged' = logged + len[w]
        /\ UNCHANGED <<length, len, out, msg, kpc, wrapped>>
    BY <1>3 DEF Copy, kvars
  <2>2. reg[w] = length
    BY <2>1 DEF Handover
  <2>3. \A i \in Offsets : buf'[i] = IF i \in length .. length + len[w] - 1
                                     THEN logged + 1 + i - length ELSE buf[i]
    BY <1>3, <2>2 DEF Copy
  <2>4. \A v \in Loggers : (LogCopied(v)' <=> v = w) /\ ~LogCopied(v)
    BY <1>0, <2>1 DEF LogCopied, Apart, Lone, Inside
  <2>5. PICK n \in Nat : n = len[w]
    BY <1>0
  <2>6. length + n <= PAGE_SIZE
    BY <2>1, <2>5 DEF Bounded, WriterBound
  <2>7. PICK t \in Nat : t = Taken
    BY <1>t
  <2>8. Taken' = t
    BY <2>1, <2>7 DEF Taken
  <2>9. /\ Numbered(out, 0) /\ Numbered(msg, Len(out))
        /\ Filled(buf, t, length) /\ logged = t + length
    BY <1>3, <2>1, <2>4, <2>7 DEF Order
  <2>10. \A i \in Int : 0 <= i /\ i < length => buf'[i] = buf[i]
    BY <1>0, <2>3 DEF Offsets
  <2>11. \A i \in Int : length <= i /\ i < length + n => buf'[i] = t + length + 1 + i - length
    <3> SUFFICES ASSUME NEW i \in Int, length <= i, i < length + n
                 PROVE  buf'[i] = t + length + 1 + i - length
      OBVIOUS
    <3>1. i \in Offsets /\ i \in length .. length + len[w] - 1
      BY <1>0, <2>5, <2>6 DEF Offsets
    <3>2. buf'[i] = logged + 1 + i - length
      BY <2>3, <3>1
    <3>3. logged + 1 + i - length = t + length + 1 + i - length
      BY <1>0, <2>9
    <3> QED
      BY <3>2, <3>3, Zenon
  <2>12. PICK b : b = buf'
    OBVIOUS
  <2>13. PICK l \in Nat : l = length
    BY <1>0
  <2>14. Filled(b, t, l + n)
    <3>1. l \in Int /\ n \in Int /\ l + n \in Int /\ t \in Int
      OBVIOUS
    <3>2. Filled(buf, t, l)
      BY <2>9, <2>13, Zenon
    <3>3. \A i \in Int : 0 <= i /\ i < l => b[i] = buf[i]
      BY <2>10, <2>12, <2>13
    <3>4. \A i \in Int : l <= i /\ i < l + n => b[i] = t + l + 1 + i - l
      BY <2>11, <2>12, <2>13
    <3> QED
      BY <3>1, <3>2, <3>3, <3>4 DEF Filled
  <2>15. Filled(b, t, l)
    BY <2>14 DEF Filled
  <2>16. Filled(buf', Taken', length') /\ Filled(buf', Taken', length' + len'[w])
    BY <2>14, <2>15, <2>12, <2>13, <2>8, <2>5, <2>1, Zenon
  <2>17. logged' = Taken' + length' + len'[w]
    BY <1>0, <2>1, <2>5, <2>8, <2>9
  <2>18. Numbered(out', 0) /\ Numbered(msg', Len(out'))
    BY <2>1, <2>9, Zenon
  <2> QED
    BY <1>x, <2>4, <2>16, <2>17, <2>18
<1>4. ASSUME NEW w \in Loggers, Store(w), ~wrapped' PROVE Order'
  <2>1. /\ wpc[w] = "store" /\ wpc' = [wpc EXCEPT ![w] = "enter"]
        /\ length' = reg[w] + len[w]
        /\ UNCHANGED <<buf, len, logged, out, msg, kpc, wrapped>>
    BY <1>4 DEF Store, kvars, hist
  <2>2. reg[w] = length /\ LogCopied(w)
    BY <2>1 DEF Handover, LogCopied
  <2>3. \A v \in Loggers : ~LogCopied(v)'
    BY <1>0, <2>1 DEF LogCopied, Apart, Lone, Inside
  <2>4. PICK t \in Nat : t = Taken
    BY <1>t
  <2>5. Taken' = t
    BY <2>1, <2>4 DEF Taken
  <2>6. /\ Numbered(out, 0) /\ Numbered(msg, Len(out))
        /\ logged = t + length + len[w]
        /\ Filled(buf, t, length + len[w])
    BY <1>4, <2>1, <2>2, <2>4 DEF Order
  <2>7. length' = length + len[w] /\ len[w] \in Nat
    BY <1>0, <2>1, <2>2
  <2>8. Filled(buf', Taken', length')
    BY <2>1, <2>5, <2>6, <2>7, Zenon
  <2>9. logged' = Taken' + length'
    <3>1. logged = t + (length + len[w])
      BY <1>0, <2>6, <2>7
    <3> QED
      BY <2>1, <2>5, <2>7, <3>1, Zenon
  <2>10. Numbered(out', 0) /\ Numbered(msg', Len(out'))
    BY <2>1, <2>6, Zenon
  <2> QED
    BY <1>x, <2>3, <2>8, <2>9, <2>10
<1>5. ASSUME \/ KWait \/ KTest \/ KPut
             \/ (\E p \in Pids : Attach(p) \/ Exit(p)) \/ Detach \/ UNCHANGED daemon_vars
      PROVE  Order'
  <2>1. UNCHANGED <<buf, length, logged, wrapped, out, msg, wpc, len>>
    BY <1>5 DEF KWait, KTest, KPut, Attach, Exit, Detach, daemon_vars, wvars, kvars, hist
  <2>2. kpc' = "send" <=> kpc = "send"
    BY <1>5 DEF KWait, KTest, KPut, Attach, Exit, Detach, daemon_vars, kvars
  <2>3. Taken' = Taken
    BY <2>1, <2>2 DEF Taken
  <2>4. \A v \in Loggers : /\ LogCopied(v)' <=> LogCopied(v)
                           /\ LogCopied(v) => len'[v] = len[v]
    BY <2>1 DEF LogCopied
  <2> QED
    BY <2>1, <2>3, <2>4, <1>k
<1>6. ASSUME KCopy, ~wrapped' PROVE Order'
  <2>1. /\ msg' = [i \in 1..length |-> buf[i - 1]] /\ kpc = "memcpy" /\ kpc' = "clear"
        /\ UNCHANGED <<buf, length, logged, wrapped, out, wpc, len>>
    BY <1>6 DEF KCopy, wvars, hist
  <2>2. Taken = Len(out) /\ Taken' = Taken
    BY <2>1 DEF Taken
  <2>3. Numbered(out, 0) /\ Filled(buf, Len(out), length)
    BY <1>6, <2>1, <2>2 DEF Order
  <2>4. Len(msg') = length
    <3>1. \A i \in 1..length : buf[i - 1] \in Nat
      BY <1>0 DEF Offsets
    <3>2. msg' \in [1..length -> Nat]
      BY <2>1, <3>1
    <3> QED
      BY <1>0, <3>2
  <2>5. \A i \in 1..length : msg'[i] = Len(out) + i
    BY <1>0, <1>t, <2>1, <2>3 DEF Filled
  <2>6. Numbered(out', 0) /\ Numbered(msg', Len(out'))
    <3>1. Numbered(msg', Len(out))
      BY <2>4, <2>5 DEF Numbered
    <3> QED
      BY <2>1, <2>3, <3>1, Zenon
  <2>7. \A v \in Loggers : /\ LogCopied(v)' <=> LogCopied(v)
                           /\ LogCopied(v) => len'[v] = len[v]
    BY <2>1 DEF LogCopied
  <2> QED
    BY <2>1, <2>2, <2>6, <2>7, OrderKept
<1>7. ASSUME KClear, ~wrapped' PROVE Order'
  <2>1. /\ length' = 0 /\ kpc = "clear" /\ kpc' = "send"
        /\ UNCHANGED <<buf, logged, wrapped, out, msg, wpc, len>>
    BY <1>7 DEF KClear, wvars, hist
  <2>2. \A w \in Loggers : ~LogCopied(w) /\ ~LogCopied(w)'
    BY <2>1 DEF Apart, Inside, KInside, LogCopied
  <2>3. Taken = Len(out) /\ Taken' = Len(out) + Len(msg) /\ Len(msg) = length
    BY <2>1 DEF Taken, Handover
  <2>4. Numbered(out, 0) /\ Numbered(msg, Len(out)) /\ logged = Len(out) + length
    BY <1>7, <2>1, <2>2, <2>3 DEF Order
  <2>5. logged' = Taken' + length'
    BY <1>0, <1>t, <2>1, <2>3, <2>4
  <2>6. Filled(buf', Taken', length')
    BY <2>1 DEF Filled
  <2>7. Numbered(out', 0) /\ Numbered(msg', Len(out'))
    BY <2>1, <2>4, Zenon
  <2> QED
    BY <1>x, <2>2, <2>5, <2>6, <2>7
<1>8. ASSUME KSend, ~wrapped' PROVE Order'
  <2>1. /\ out' = out \o msg /\ msg' = <<>> /\ kpc = "send" /\ kpc' = "wait"
        /\ UNCHANGED <<buf, length, logged, wrapped, wpc, len>>
    BY <1>8 DEF KSend, wvars
  <2>2. Len(out') = Len(out) + Len(msg)
    BY <1>0, <2>1
  <2>3. Taken' = Taken
    BY <2>1, <2>2 DEF Taken
  <2>4. Numbered(out, 0) /\ Numbered(msg, Len(out))
    BY <1>8, <2>1 DEF Order
  <2>5. \A i \in 1..Len(out') : out'[i] = i
    <3> SUFFICES ASSUME NEW i \in 1..Len(out') PROVE out'[i] = i
      OBVIOUS
    <3>1. i \in 1 .. Len(out) + Len(msg)
      BY <2>2
    <3>2. (out \o msg)[i] = IF i <= Len(out) THEN out[i] ELSE msg[i - Len(out)]
      BY <1>0, <3>1
    <3>3. CASE i <= Len(out)
      BY <1>t, <2>1, <2>4, <3>1, <3>2, <3>3 DEF Numbered
    <3>4. CASE ~(i <= Len(out))
      <4>1. i - Len(out) \in 1..Len(msg)
        BY <1>t, <3>1, <3>4
      <4>2. msg[i - Len(out)] = Len(out) + (i - Len(out))
        BY <2>4, <4>1 DEF Numbered
      <4> QED
        BY <1>t, <2>1, <3>1, <3>2, <3>4, <4>2
    <3> QED
      BY <3>3, <3>4
  <2>6. Numbered(out', 0) /\ Numbered(msg', Len(out'))
    BY <1>0, <1>t, <2>1, <2>2, <2>5 DEF Numbered
  <2>7. \A v \in Loggers : /\ LogCopied(v)' <=> LogCopied(v)
                           /\ LogCopied(v) => len'[v] = len[v]
    BY <2>1 DEF LogCopied
  <2> QED
    BY <2>1, <2>3, <2>6, <2>7, OrderKept
<1>9. wrapped' => Order'
  BY <1>x
<1> QED
  BY <1>1, <1>2, <1>3, <1>4, <1>5, <1>6, <1>7, <1>8, <1>9
     DEF DaemonNext, WriterStep, KthreadStep

\* While nobody meets anybody and the buffer was never restarted, the bytes
\* sent and those in the buffer are the bytes logged, once each and in order.
THEOREM SendsOnceInOrder == DaemonSpec => []SentOnceInOrder
<1>1. DaemonInit => OInv
  <2> SUFFICES ASSUME DaemonInit PROVE OInv
    OBVIOUS
  <2>1. LogInv
    BY DaemonInitType, PageAssumption DEF LogInv, DaemonInit, WriterBound, Bounded, Lone, Inside
  <2>2. Apart
    BY DEF DaemonInit, Apart, Lone, Inside
  <2>3. Handover
    BY DEF DaemonInit, Handover
  <2>4. Order
    BY DEF DaemonInit, Order, Numbered, Filled, LogCopied, Taken
  <2> QED
    BY <2>1, <2>2, <2>3, <2>4 DEF OInv
<1>2. OInv /\ [DaemonNext]_daemon_vars => OInv'
  <2> SUFFICES ASSUME OInv, [DaemonNext]_daemon_vars PROVE OInv'
    OBVIOUS
  <2>1. LogInv'
    BY BoundStep DEF OInv
  <2>2. ASSUME overlap' = {} PROVE Apart' /\ Handover' /\ Order'
    <3>1. overlap = {}
      BY <2>2, MetForGood DEF OInv, LogInv
    <3>2. DaemonTypeOK /\ Bounded /\ Apart /\ Handover /\ Order
      BY <3>1 DEF OInv, LogInv
    <3>3. Lone'
      BY <2>1, <2>2 DEF LogInv
    <3> QED
      BY <2>2, <3>2, <3>3, ApartStep, HandoverStep, OrderStep
  <2> QED
    BY <2>1, <2>2 DEF OInv
<1>3. OInv => SentOnceInOrder
  <2> SUFFICES ASSUME OInv, overlap = {}
               PROVE  /\ kpc = "send" => declared = Len(msg)
                      /\ ~wrapped /\ kpc \in {"wait", "test"} /\ ~(\E w \in Loggers : Inside(w))
                         => out \o [i \in 1..length |-> buf[i - 1]] = [i \in 1..logged |-> i]
    BY DEF SentOnceInOrder
  <2>1. DaemonTypeOK /\ Bounded /\ Handover /\ Order
    BY DEF OInv, LogInv
  <2>2. ASSUME ~wrapped, kpc \in {"wait", "test"}, ~(\E w \in Loggers : Inside(w))
        PROVE  out \o [i \in 1..length |-> buf[i - 1]] = [i \in 1..logged |-> i]
    <3> DEFINE page == [i \in 1..length |-> buf[i - 1]]
               all == [i \in 1..logged |-> i]
               s == out \o page
    <3>1. /\ length \in Nat /\ logged \in Nat /\ PAGE_SIZE \in Nat /\ length <= PAGE_SIZE
          /\ buf \in [Offsets -> Nat] /\ out \in Seq(Nat) /\ Len(out) \in Nat
      BY <2>1, PageAssumption DEF DaemonTypeOK, Bounded, Handover
    <3>2. /\ Numbered(out, 0) /\ Filled(buf, Len(out), length)
          /\ logged = Len(out) + length
      BY <2>1, <2>2 DEF Order, Taken, LogCopied, Inside
    <3>3. page \in Seq(Nat) /\ Len(page) = length
      <4>1. \A i \in 1..length : buf[i - 1] \in Nat
        BY <3>1 DEF Offsets
      <4>2. page \in [1..length -> Nat]
        BY <4>1
      <4> HIDE DEF page
      <4> QED
        BY <3>1, <4>2
    <3>4. all \in Seq(Nat) /\ Len(all) = logged
      <4>1. all \in [1..logged -> Nat]
        OBVIOUS
      <4> HIDE DEF all
      <4> QED
        BY <3>1, <4>1
    <3>5. \A i \in 1..length : page[i] = Len(out) + i
      BY <3>1, <3>2 DEF Filled
    <3>6. \A i \in 1..logged : all[i] = i
      OBVIOUS
    <3> HIDE DEF page, all
    <3>7. s \in Seq(Nat) /\ Len(s) = logged
      <4>1. s \in Seq(Nat) /\ Len(s) = Len(out) + Len(page)
        BY <3>1, <3>3, ConcatProperties, Zenon DEF s
      <4> QED
        BY <3>2, <3>3, <4>1
    <3>8. ASSUME NEW i \in 1..logged PROVE s[i] = i
      <4>1. s[i] = IF i <= Len(out) THEN out[i] ELSE page[i - Len(out)]
        BY <3>1, <3>2, <3>3
      <4>2. CASE i <= Len(out)
        BY <3>1, <3>2, <4>1, <4>2 DEF Numbered
      <4>3. CASE ~(i <= Len(out))
        <5>1. i - Len(out) \in 1..length
          BY <3>1, <3>2, <4>3
        <5>2. page[i - Len(out)] = Len(out) + (i - Len(out))
          BY <3>5, <5>1
        <5> QED
          BY <3>1, <4>1, <4>3, <5>2
      <4> QED
        BY <4>2, <4>3
    <3> HIDE DEF s
    <3>9. s = all
      BY <3>4, <3>6, <3>7, <3>8, SeqEqual
    <3> QED
      BY <3>9 DEF s, page, all
  <2> QED
    BY <2>1, <2>2 DEF Handover
<1> QED
  BY <1>1, <1>2, <1>3, PTL DEF DaemonSpec
=============================================================================
