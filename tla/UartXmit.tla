------------------------------ MODULE UartXmit ------------------------------
(* The transmit side of a serial port: the circular buffer state->xmit that *)
(* serial_core.c fills under port->lock, the interrupt handler of 8250.c    *)
(* that empties it, software and hardware flow control, and the writers of  *)
(* the line discipline that sleep until there is room.                      *)
(*                                                                          *)
(* port is what port->lock protects, plus x_char and the two tty flags that *)
(* are written outside the lock.  A critical section is one step; what the  *)
(* code does between two critical sections is a step of its own.            *)
EXTENDS Integers, Sequences, FiniteSets

CONSTANTS
    Char,             \* the characters
    UART_XMIT_SIZE,   \* slots of the circular buffer (a power of two in C)
    tx_loadsz,        \* characters loaded into the FIFO per interrupt
    WAKEUP_CHARS,     \* writers are woken below this many pending ones
    Writers,          \* threads inside n_tty_write
    Echoers,          \* threads that echo: put_char, then flush_chars
    MaxWrite,         \* longest write submitted by a writer
    BugTxen,          \* up->bugs & UART_BUG_TXEN
    Is16C950          \* port.type == PORT_16C950

ASSUME SizeAssumption == UART_XMIT_SIZE \in Nat /\ UART_XMIT_SIZE >= 2
ASSUME LoadAssumption == tx_loadsz \in Nat \ {0}
ASSUME WakeAssumption == WAKEUP_CHARS \in Nat \ {0}
ASSUME CharAssumption == "none" \notin Char /\ Char # {}
ASSUME FlagAssumption == BugTxen \in BOOLEAN /\ Is16C950 \in BOOLEAN
ASSUME WriteAssumption == MaxWrite \in Nat \ {0}
ASSUME ProcAssumption == Writers \cap Echoers = {}

VARIABLES
    port,     \* the record described above
    pc,       \* where each writer and echoer is
    rest,     \* characters each writer has still to submit
    again,    \* did the writer's last call accept a character
    woken,    \* writers woken since they last slept
    flow,     \* where the thread in stop_tty / start_tty is
    xpc,      \* where the thread in throttle / unthrottle is
    throttled \* is the line discipline's input throttled

vars == <<port, pc, rest, again, woken, flow, xpc, throttled>>

Slot == 0 .. UART_XMIT_SIZE - 1
Procs == Writers \cup Echoers
Xchar == {"none", "XON", "XOFF"}

Port == [buf : [Slot -> Char], head : Slot, tail : Slot, x_char : Xchar,
         stopped : BOOLEAN, hw_stopped : BOOLEAN, thri : BOOLEAN,
         txdis : BOOLEAN, tlet : BOOLEAN, wire : Seq(Char)]

\* The port once opened: uart_startup cleared the circular buffer.
Init ==
    /\ \E c \in Char :
         port = [buf |-> [i \in Slot |-> c], head |-> 0, tail |-> 0,
                 x_char |-> "none", stopped |-> FALSE, hw_stopped |-> FALSE,
                 thri |-> FALSE, txdis |-> FALSE, tlet |-> FALSE,
                 wire |-> <<>>]
    /\ pc = [p \in Procs |-> "idle"]
    /\ rest = [p \in Writers |-> 0]
    /\ again = [p \in Writers |-> FALSE]
    /\ woken = [p \in Writers |-> FALSE]
    /\ flow = "idle"
    /\ xpc = "idle"
    /\ throttled = FALSE

-----------------------------------------------------------------------------
(* linux/circ_buf.h, as the macros of serial_core.h use it.                 *)

uart_circ_chars_pending(s) == (s.head - s.tail) % UART_XMIT_SIZE
uart_circ_chars_free(s) == (s.tail - (s.head + 1)) % UART_XMIT_SIZE
uart_circ_empty(s) == s.head = s.tail

\* Free slots from head that can be filled without wrapping round.
SpaceToEnd(s) ==
    LET end == UART_XMIT_SIZE - 1 - s.head
        n == (end + s.tail) % UART_XMIT_SIZE
    IN IF n <= end THEN n ELSE end + 1

uart_tx_stopped(s) == s.stopped \/ s.hw_stopped

Least(a, b) == IF a < b THEN a ELSE b

-----------------------------------------------------------------------------
(* 8250.c: the operations called with port->lock held, on the record.       *)

__stop_tx(s) == [s EXCEPT !.thri = FALSE]

serial8250_stop_tx(s) ==
    [__stop_tx(s) EXCEPT !.txdis = s.txdis \/ Is16C950]

\* In the mutant the tasklet is not scheduled.
WakeupLost(s) == s

uart_write_wakeup(s) == [s EXCEPT !.tlet = TRUE]

\* The pending x_char goes first; a stopped port or an empty buffer turns
\* the interrupt off; otherwise up to tx_loadsz characters are sent.  The
\* mutant does not look whether the port is stopped.
TransmitAlways(s) ==
    LET n == Least(tx_loadsz, uart_circ_chars_pending(s))
        t == [s EXCEPT !.tail = (s.tail + n) % UART_XMIT_SIZE,
                       !.wire = s.wire \o [i \in 1..n |->
                           s.buf[(s.tail + i - 1) % UART_XMIT_SIZE]]]
    IN IF s.x_char # "none" THEN [s EXCEPT !.x_char = "none"]
       ELSE IF uart_circ_empty(t) THEN __stop_tx(t) ELSE t

transmit_chars(s) ==
    LET n == Least(tx_loadsz, uart_circ_chars_pending(s))
        t == [s EXCEPT !.tail = (s.tail + n) % UART_XMIT_SIZE,
                       !.wire = s.wire \o [i \in 1..n |->
                           s.buf[(s.tail + i - 1) % UART_XMIT_SIZE]]]
        u == IF uart_circ_chars_pending(t) < WAKEUP_CHARS
             THEN uart_write_wakeup(t) ELSE t
    IN IF s.x_char # "none"
       THEN [s EXCEPT !.x_char = "none"]
       ELSE IF uart_tx_stopped(s) THEN serial8250_stop_tx(s)
       ELSE IF uart_circ_empty(s) THEN __stop_tx(s)
       ELSE IF uart_circ_empty(u) THEN __stop_tx(u) ELSE u

\* temt: with UART_BUG_TXEN, did the line status say transmitter empty.
\* In the mutant UART_ACR_TXDIS stays set.
StartDisabled(s, temt) == [s EXCEPT !.thri = TRUE]

serial8250_start_tx(s, temt) ==
    LET a == [s EXCEPT !.thri = TRUE]
        b == IF ~s.thri /\ BugTxen /\ temt THEN transmit_chars(a) ELSE a
    IN [b EXCEPT !.txdis = FALSE]

\* uart_handle_cts_change of serial_core.h, on a port with CRTSCTS set.
uart_handle_cts_change(s, cts, temt) ==
    IF s.hw_stopped /\ cts
    THEN uart_write_wakeup(
             serial8250_start_tx([s EXCEPT !.hw_stopped = FALSE], temt))
    ELSE IF ~s.hw_stopped /\ ~cts
    THEN serial8250_stop_tx([s EXCEPT !.hw_stopped = TRUE])
    ELSE s

\* delta is "none" when the modem status shows no change of CTS.
check_modem_status(s, delta, temt) ==
    IF delta = "none" THEN s
    ELSE uart_handle_cts_change(s, delta = "cts", temt)

serial8250_handle_port(s, delta, thre, temt) ==
    LET t == check_modem_status(s, delta, temt)
    IN IF thre THEN transmit_chars(t) ELSE t

-----------------------------------------------------------------------------
(* serial_core.c.                                                           *)

__uart_start(s, temt) ==
    IF ~uart_circ_empty(s) /\ ~uart_tx_stopped(s)
    THEN serial8250_start_tx(s, temt) ELSE s

\* One round of uart_write's loop: as much of data as fits before the end.
CopyToEnd(s, data) ==
    LET c == Least(Len(data), SpaceToEnd(s))
    IN [s EXCEPT !.buf = [i \in Slot |->
                             IF i \in s.head .. s.head + c - 1
                             THEN data[i - s.head + 1] ELSE s.buf[i]],
                 !.head = (s.head + c) % UART_XMIT_SIZE]

Copied(s, data) == Least(Len(data), SpaceToEnd(s))

\* The buffer wraps once, so the loop ends in its third round at the latest
\* (lemma TwoRoundsArithmetic).
WriteLoop(s, data) ==
    CopyToEnd(CopyToEnd(s, data),
              SubSeq(data, Copied(s, data) + 1, Len(data)))

\* wire is what the current step puts on the line.
Quiet(s) == [s EXCEPT !.wire = <<>>]

Temt == IF BugTxen THEN BOOLEAN ELSE {FALSE}

Data == UNION {[1..n -> Char] : n \in 1..MaxWrite}

\* n_tty_write: a new write, or the rest of one that was accepted in part.
uart_write(p, data) ==
    LET s == WriteLoop(Quiet(port), data)
        ret == (s.head - port.head) % UART_XMIT_SIZE
    IN /\ pc[p] = "idle" \/ (pc[p] = "ready" /\ Len(data) = rest[p])
       /\ port' = s
       /\ rest' = [rest EXCEPT ![p] = Len(data) - ret]
       /\ again' = [again EXCEPT ![p] = ret > 0]
       /\ pc' = [pc EXCEPT ![p] = "starting"]
       /\ UNCHANGED <<woken, flow, xpc, throttled>>

\* uart_write's call of uart_start, and what n_tty_write does next.
WriteStart(p, temt) ==
    /\ pc[p] = "starting"
    /\ port' = __uart_start(Quiet(port), temt)
    /\ pc' = [pc EXCEPT ![p] = IF rest[p] = 0 THEN "idle"
                               ELSE IF again[p] THEN "ready" ELSE "sleeping"]
    /\ again' = [again EXCEPT ![p] = FALSE]
    /\ woken' = [woken EXCEPT ![p] = woken[p] /\ rest[p] # 0]
    /\ UNCHANGED <<rest, flow, xpc, throttled>>

\* schedule() returns once the writer has been woken since it last slept.
WriterWakes(p) ==
    /\ pc[p] = "sleeping"
    /\ woken[p]
    /\ pc' = [pc EXCEPT ![p] = "ready"]
    /\ woken' = [woken EXCEPT ![p] = FALSE]
    /\ UNCHANGED <<port, rest, again, flow, xpc, throttled>>

tty_wakeup == woken' = [p \in Writers |-> pc[p] # "idle"]

uart_put_char(e, c) ==
    /\ pc[e] \in {"idle", "putting"}
    /\ port' = IF uart_circ_chars_free(port) # 0
               THEN [Quiet(port) EXCEPT
                       !.buf[port.head] = c,
                       !.head = (port.head + 1) % UART_XMIT_SIZE]
               ELSE Quiet(port)
    /\ pc' = [pc EXCEPT ![e] = "putting"]
    /\ UNCHANGED <<rest, again, woken, flow, xpc, throttled>>

uart_flush_chars(e, temt) ==
    /\ pc[e] = "putting"
    /\ port' = __uart_start(Quiet(port), temt)
    /\ pc' = [pc EXCEPT ![e] = "idle"]
    /\ UNCHANGED <<rest, again, woken, flow, xpc, throttled>>

\* In the mutant the tail stays.
FlushHead ==
    /\ port' = [Quiet(port) EXCEPT !.head = 0]
    /\ tty_wakeup
    /\ UNCHANGED <<pc, rest, again, flow, xpc, throttled>>

uart_flush_buffer ==
    /\ port' = [Quiet(port) EXCEPT !.head = 0, !.tail = 0]
    /\ tty_wakeup
    /\ UNCHANGED <<pc, rest, again, flow, xpc, throttled>>

\* stop_tty and start_tty set the flag and then call the driver; the tty
\* layer lets one of them run at a time.
stop_tty ==
    /\ flow = "idle"
    /\ ~port.stopped
    /\ port' = [Quiet(port) EXCEPT !.stopped = TRUE]
    /\ flow' = "stopping"
    /\ UNCHANGED <<pc, rest, again, woken, xpc, throttled>>

uart_stop ==
    /\ flow = "stopping"
    /\ port' = serial8250_stop_tx(Quiet(port))
    /\ flow' = "idle"
    /\ UNCHANGED <<pc, rest, again, woken, xpc, throttled>>

start_tty ==
    /\ flow = "idle"
    /\ port.stopped
    /\ port' = [Quiet(port) EXCEPT !.stopped = FALSE]
    /\ flow' = "starting"
    /\ UNCHANGED <<pc, rest, again, woken, xpc, throttled>>

uart_start(temt) ==
    /\ flow = "starting"
    /\ port' = __uart_start(Quiet(port), temt)
    /\ flow' = "idle"
    /\ tty_wakeup
    /\ UNCHANGED <<pc, rest, again, xpc, throttled>>

\* uart_send_xchar stores x_char outside the lock; its start_tx follows.
uart_throttle ==
    /\ xpc = "idle"
    /\ ~throttled
    /\ port' = [Quiet(port) EXCEPT !.x_char = "XOFF"]
    /\ xpc' = "xstart"
    /\ throttled' = TRUE
    /\ UNCHANGED <<pc, rest, again, woken, flow>>

SendXcharStart(temt) ==
    /\ xpc = "xstart"
    /\ port' = serial8250_start_tx(Quiet(port), temt)
    /\ xpc' = "idle"
    /\ UNCHANGED <<pc, rest, again, woken, flow, throttled>>

\* x_char is tested, and later cleared, without the lock.
uart_unthrottle ==
    /\ xpc = "idle"
    /\ throttled
    /\ throttled' = FALSE
    /\ \/ port.x_char # "none" /\ xpc' = "xclear" /\ UNCHANGED port
       \/ /\ port.x_char = "none"
          /\ xpc' = "xstart"
          /\ port' = [Quiet(port) EXCEPT !.x_char = "XON"]
    /\ UNCHANGED <<pc, rest, again, woken, flow>>

UnthrottleClear ==
    /\ xpc = "xclear"
    /\ port' = [Quiet(port) EXCEPT !.x_char = "none"]
    /\ xpc' = "idle"
    /\ UNCHANGED <<pc, rest, again, woken, flow, throttled>>

\* Any interrupt of the port: thre is raised when thri asks for it, and may
\* be seen set by an interrupt taken for another reason.
serial8250_interrupt(delta, thre, temt) ==
    /\ port' = serial8250_handle_port(Quiet(port), delta, thre, temt)
    /\ UNCHANGED <<pc, rest, again, woken, flow, xpc, throttled>>

uart_tasklet_action ==
    /\ port.tlet
    /\ port' = [Quiet(port) EXCEPT !.tlet = FALSE]
    /\ tty_wakeup
    /\ UNCHANGED <<pc, rest, again, flow, xpc, throttled>>

-----------------------------------------------------------------------------

Next ==
    \/ \E p \in Writers : \/ \E data \in Data : uart_write(p, data)
                          \/ \E temt \in Temt : WriteStart(p, temt)
                          \/ WriterWakes(p)
    \/ \E e \in Echoers : \/ \E c \in Char : uart_put_char(e, c)
                          \/ \E temt \in Temt : uart_flush_chars(e, temt)
    \/ uart_flush_buffer
    \/ stop_tty
    \/ uart_stop
    \/ start_tty
    \/ \E temt \in Temt : uart_start(temt) \/ SendXcharStart(temt)
    \/ uart_throttle
    \/ uart_unthrottle
    \/ UnthrottleClear
    \/ \E delta \in {"none", "cts", "nocts"}, thre \in BOOLEAN, temt \in Temt :
          serial8250_interrupt(delta, thre, temt)
    \/ uart_tasklet_action

Spec == Init /\ [][Next]_vars

\* The kernel finishes what it is in the middle of, the chip raises an
\* enabled transmit interrupt, tasklets run, and woken threads get the CPU.
\* Nothing is said about who writes, flushes, stops or throttles.
Fairness ==
    /\ \A p \in Writers :
         /\ WF_vars(\E temt \in Temt : WriteStart(p, temt))
         /\ WF_vars(WriterWakes(p))
    /\ \A e \in Echoers : WF_vars(\E temt \in Temt : uart_flush_chars(e, temt))
    /\ WF_vars(uart_stop \/ \E temt \in Temt : uart_start(temt))
    /\ WF_vars(UnthrottleClear \/ \E temt \in Temt : SendXcharStart(temt))
    /\ WF_vars(/\ port.thri
               /\ \E temt \in Temt : serial8250_interrupt("none", TRUE, temt))
    /\ WF_vars(uart_tasklet_action)

FairSpec == Spec /\ Fairness

-----------------------------------------------------------------------------

\* The record and the threads' control state are of the declared kind; head
\* and tail stay inside the buffer.
TypeOK ==
    /\ port \in Port
    /\ pc \in [Procs -> {"idle", "starting", "ready", "sleeping", "putting"}]
    /\ rest \in [Writers -> 0..MaxWrite]
    /\ again \in [Writers -> BOOLEAN]
    /\ woken \in [Writers -> BOOLEAN]
    /\ flow \in {"idle", "stopping", "starting"}
    /\ xpc \in {"idle", "xstart", "xclear"}
    /\ throttled \in BOOLEAN

\* A thread or the tty layer is on its way to start_tx.
StartPending ==
    \/ flow = "starting"
    \/ \E p \in Procs : pc[p] \in {"starting", "putting"}

\* Characters never get stuck in the circular buffer: while some are pending
\* and neither software nor hardware flow control holds the port, either
\* somebody is between filling the buffer and uart_start, or the transmit
\* interrupt is enabled and the transmitter is on.
NoStall ==
    ~uart_circ_empty(port) /\ ~uart_tx_stopped(port) /\ ~StartPending
        => port.thri /\ ~port.txdis

\* What is in the circular buffer, oldest first.
Pending == [i \in 1..uart_circ_chars_pending(port) |->
               port.buf[(port.tail + i - 1) % UART_XMIT_SIZE]]

\* uart_write, uart_put_char, uart_flush_buffer and transmit_chars together
\* implement a FIFO of UART_XMIT_SIZE - 1 characters: nothing is lost,
\* duplicated, overwritten or reordered, however they interleave.
Fifo == INSTANCE CharQueue WITH Capacity <- UART_XMIT_SIZE - 1,
                                queue <- Pending, out <- port.wire

FifoSpec == Fifo!Spec

\* While the port is stopped before and after a step, that step puts no
\* character of the buffer on the line (an x_char may go out).
StoppedIsSilent ==
    [][uart_tx_stopped(port) /\ uart_tx_stopped(port)'
         => port'.wire \in {<<>>, port.wire}]_vars

\* If flow control in both directions comes to rest with the port free to
\* send, every writer that sleeps for room wakes up.
WritersWoken ==
    <>[](~uart_tx_stopped(port) /\ port.x_char = "none")
        => \A p \in Writers : pc[p] = "sleeping" ~> pc[p] # "sleeping"

\* "This function is used to send a high-priority XON/XOFF character": an
\* x_char waiting on a port that is not stopped is sent by the next transmit
\* interrupt, enabled unless somebody is about to enable it.  Not so after a
\* stop and a start of a port with an empty buffer: __uart_start does not
\* look at x_char.
XcharArmed ==
    port.x_char # "none" /\ ~uart_tx_stopped(port) /\ ~StartPending
        /\ xpc # "xstart"
        => port.thri
=============================================================================
