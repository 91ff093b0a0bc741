----------------------------- MODULE Serial8250 -----------------------------
(* drivers/serial/8250.c: several UARTs on one edge-triggered interrupt     *)
(* line.  Ports are opened and closed (serial8250_startup, _shutdown) while *)
(* the interrupt handler walks the chain of the open ones, the backup timer *)
(* kicks a port whose chip forgets its transmit interrupt, the console      *)
(* writes to a port behind the driver's back, and characters arrive with    *)
(* errors that every read of the LSR takes out of the chip.                 *)
(*                                                                          *)
(* A step is what is done under port->lock, or between two accesses to      *)
(* what others share.  An interrupt line is gated by OUT2, as on a PC.      *)
EXTENDS Naturals, SequencesExt

CONSTANTS
    Ports,       \* all on one line
    Console,     \* the port that serial8250_console may write to
    MaxCount,    \* max_count of receive_chars
    PASS_LIMIT,  \* of serial8250_interrupt
    FIFO,        \* characters that a receive FIFO holds
    Events,      \* of "absent", "nomem", "irqfail"
    Machines     \* what to look at: the ports that are used, those whose chip
                 \* does not reassert THRE, bounds on the opens and on the
                 \* events, and which events: characters with and without
                 \* an error, writes, console prints

ASSUME PortsAssumption ==
    /\ Console \in Ports /\ "none" \notin Ports
    /\ \A m \in Machines : m.ports \subseteq Ports /\ m.forgetful \subseteq Ports
                          /\ m.inputs \subseteq {"ok", "error", "write", "print"}
                          /\ m.opens \in Nat /\ m.events \in Nat
ASSUME LimitAssumption ==
    /\ MaxCount \in Nat /\ PASS_LIMIT \in Nat /\ FIFO \in Nat \ {0}

VARIABLES
    machine,     \* the machine; it does not change
    pc,          \* where the open or the close of a port is
    ier,         \* up->ier
    bugs,        \* up->bugs
    saved,       \* up->lsr_saved_flags holds an error
    lock,        \* who holds port->lock across steps
    IER,         \* the chip: its interrupt enable register
    out2,        \* ... whether MCR has OUT2
    rx,          \* ... its receive FIFO
    busy,        \* ... its transmitter is not empty
    txint,       \* ... its transmit interrupt is latched
    xmit,        \* characters in the ring
    timer,       \* where the backup timer of a port is
    tsave,       \* the timer's ier, and what it has read of the LSR
    chain,       \* the ports of the irq_info, from i->head on
    info,        \* which irq_info is in the hash table, 0 for none
    ptr,         \* the irq_info that a startup has found
    registered,  \* the handler is requested
    edge,        \* the line has gone up since the handler was last called
    irq,         \* where the handler is
    con,         \* where the console write is
    opens,       \* opens so far
    left,        \* events that may still happen
    heard, told, \* history: the characters since the open; those for the tty
    cut,         \* history: receive_chars has stopped at max_count
    failed,      \* history: the last open has failed to link
    overlap,     \* history: two ports were linked or unlinked at once
    toomuch,     \* history: the handler has given up
    withdrawn,   \* history: a port fell silent unserved while the handler was at work
    overrun,     \* history: a character was written to a full transmitter
    crashed      \* a freed irq_info has been used

chip == <<IER, out2, rx, busy, txint>>
port == <<pc, ier, bugs, saved, lock, xmit>>
timers == <<timer, tsave>>
links == <<chain, info, ptr, registered>>
history == <<heard, told, cut, failed, overlap, toomuch, overrun, crashed>>
vars == <<machine, chip, port, timers, links, edge, irq, con, opens, left, history, withdrawn>>

-----------------------------------------------------------------------------
(* The chip.                                                                *)

RX == "RX"   \* UART_IER_RDI | UART_IER_RLSI
TX == "TX"   \* UART_IER_THRI

\* What the IIR shows, and what the line carries.
Interrupting(p) == (RX \in IER[p] /\ rx[p] # <<>>) \/ (TX \in IER[p] /\ txint[p])
Drives(p) == out2[p] /\ Interrupting(p)
LineHigh == \E p \in Ports : Drives(p)

\* The line is watched for edges in every step.
Latch == edge' = (edge \/ (~ LineHigh /\ LineHigh'))

\* Reading the IIR takes the transmit interrupt back if it is the one shown.
IirRead(p) == [txint EXCEPT ![p] = @ /\ (TX \notin IER[p] \/ (RX \in IER[p] /\ rx[p] # <<>>))]

\* Writing the IER: an idle transmitter interrupts when it is enabled,
\* unless the chip is one of those that forget.
Enabled(p, old, new, t) == t \/ (TX \in new \ old /\ ~ busy[p] /\ p \notin machine.forgetful)
WriteIER(p, new) ==
    /\ IER' = [IER EXCEPT ![p] = new]
    /\ txint' = [txint EXCEPT ![p] = Enabled(p, IER[p], new, @)]

\* Reading the LSR takes the error of the first character out of the chip.
Error(p) == rx[p] # <<>> /\ Head(rx[p]) = "error"
LsrRead(p) == IF Error(p) THEN [rx EXCEPT ![p] = <<"ok">> \o Tail(@)] ELSE rx

\* Mutant: a reader of the LSR that forgets what it took.
SaveNothing(p) == rx' = LsrRead(p) /\ UNCHANGED saved

\* ... and it must be kept for the receive path.
SaveFlags(p) ==
    /\ rx' = LsrRead(p)
    /\ saved' = [saved EXCEPT ![p] = @ \/ Error(p)]

Free(p) == lock[p] = "none"

\* (What comes earlier in an open is cleared as well, and is left out.)
Receiving == {"clear", "termios", "open", "lower"}
CharArrives(p, c) ==
    /\ pc[p] \in Receiving /\ left > 0 /\ c \in machine.inputs /\ Len(rx[p]) < FIFO
    /\ rx' = [rx EXCEPT ![p] = Append(@, c)]
    /\ heard' = [heard EXCEPT ![p] = Append(@, c)]
    /\ left' = left - 1
    /\ UNCHANGED <<IER, out2, busy, txint, port, timers, links, irq, con, opens, told, cut, failed,
                   overlap, toomuch, overrun, crashed>>
    /\ Latch

TransmitterEmpties(p) ==
    /\ busy[p]
    /\ busy' = [busy EXCEPT ![p] = FALSE]
    /\ txint' = [txint EXCEPT ![p] = TRUE]
    /\ UNCHANGED <<IER, out2, rx, port, timers, links, irq, con, opens, left, history>>
    /\ Latch

-----------------------------------------------------------------------------
(* serial8250_handle_port, from the handler and from the timer.             *)

\* Mutant: an empty ring is not noticed.
TransmitAlways(p, thre) ==
    LET stop == thre /\ xmit[p] <= 1 /\ TX \in ier[p] IN
    /\ xmit' = [xmit EXCEPT ![p] = IF thre THEN @ - 1 ELSE @]
    /\ busy' = [busy EXCEPT ![p] = @ \/ thre]
    /\ txint' = [txint EXCEPT ![p] = @ /\ ~ thre]
    /\ ier' = [ier EXCEPT ![p] = IF stop THEN @ \ {TX} ELSE @]
    /\ IER' = [IER EXCEPT ![p] = IF stop THEN ier[p] \ {TX} ELSE @]
    /\ UNCHANGED overrun

\* transmit_chars, if the LSR had THRE when it was read; one character at a
\* time.  __stop_tx when the ring is empty.
transmit_chars(p, thre) ==
    LET send == thre /\ xmit[p] > 0
        stop == thre /\ xmit[p] <= 1 /\ TX \in ier[p]
    IN
    /\ xmit' = [xmit EXCEPT ![p] = IF send THEN @ - 1 ELSE @]
    /\ busy' = [busy EXCEPT ![p] = @ \/ send]
    /\ txint' = [txint EXCEPT ![p] = @ /\ ~ send]
    /\ ier' = [ier EXCEPT ![p] = IF stop THEN @ \ {TX} ELSE @]
    /\ IER' = [IER EXCEPT ![p] = IF stop THEN ier[p] \ {TX} ELSE @]
    /\ overrun' = (overrun \/ (send /\ busy[p] /\ bugs[p] = {}))

\* receive_chars: the first character gets the saved flags as well; the LSR
\* is read again after each one, once too often if max_count ends the loop.
receive_chars(p) ==
    LET n    == IF Len(rx[p]) > MaxCount + 1 THEN MaxCount + 1 ELSE Len(rx[p])
        rest == SubSeq(rx[p], n + 1, Len(rx[p]))
        head == IF saved[p] THEN "error" ELSE Head(rx[p])
    IN
    /\ told' = [told EXCEPT ![p] = @ \o <<head>> \o SubSeq(rx[p], 2, n)]
    /\ rx' = [rx EXCEPT ![p] = IF rest = <<>> THEN rest ELSE <<"ok">> \o Tail(rest)]
    /\ saved' = [saved EXCEPT ![p] = FALSE]
    /\ cut' = [cut EXCEPT ![p] = @ \/ rest # <<>>]

\* Up to the unlock around tty_flip_buffer_push, if there is something to
\* push; to the end if not.
HandleFirst(p) ==
    /\ Free(p)
    /\ IF rx[p] # <<>>
       THEN receive_chars(p) /\ UNCHANGED <<xmit, busy, txint, ier, IER, overrun>>
       ELSE transmit_chars(p, ~ busy[p]) /\ UNCHANGED <<told, rx, saved, cut>>

\* The rest, with the status from before the unlock.
HandleRest(p, thre) ==
    /\ Free(p)
    /\ transmit_chars(p, thre)
    /\ UNCHANGED <<told, rx, saved, cut>>

Handling == UNCHANGED <<out2, pc, bugs, lock, links, con, opens, left, heard, failed, overlap, crashed>>

-----------------------------------------------------------------------------
(* serial8250_interrupt.  It holds i->lock: the chain stands still.         *)

Quiet == [pc |-> "idle", l |-> Console, end |-> "none", pass |-> 0, thre |-> FALSE]

Enter ==
    /\ edge /\ registered /\ irq.pc = "idle" /\ chain # <<>>
    /\ edge' = FALSE
    /\ irq' = [Quiet EXCEPT !.pc = "scan", !.l = Head(chain)]
    /\ UNCHANGED <<chip, port, timers, links, con, opens, left, history>>

NextInChain(p) ==
    LET i == CHOOSE j \in DOMAIN chain : chain[j] = p
    IN  chain[(i % Len(chain)) + 1]

\* On to the next port, or out: at end, or after too many rounds.
Advance(end) ==
    LET next == NextInChain(irq.l)
        wrap == next = Head(chain)
        dead == wrap /\ irq.pass > PASS_LIMIT
    IN
    /\ irq' = IF dead \/ next = end THEN Quiet
              ELSE [pc |-> "scan", l |-> next, end |-> end, thre |-> FALSE,
                    pass |-> IF wrap THEN irq.pass + 1 ELSE irq.pass]
    /\ toomuch' = (toomuch \/ dead)

\* Mutant: a port that was served does not start the round again.
EndStays(end) == irq.end

\* After a port that had something to do, every port is looked at again.
EndAfterService(end) == "none"

Scan ==
    /\ irq.pc = "scan"
    /\ txint' = IirRead(irq.l)
    /\ IF Interrupting(irq.l)
       THEN irq' = [irq EXCEPT !.pc = "handle"] /\ UNCHANGED toomuch
       ELSE Advance(IF irq.end = "none" THEN irq.l ELSE irq.end)
    /\ UNCHANGED <<IER, out2, rx, busy, port, timers, links, con, opens, left, heard, told, cut, failed,
                   overlap, overrun, crashed>>
    /\ Latch

HandleInterrupt ==
    /\ irq.pc = "handle"
    /\ HandleFirst(irq.l)
    /\ IF rx[irq.l] # <<>>
       THEN irq' = [irq EXCEPT !.pc = "push", !.thre = ~ busy[irq.l]] /\ UNCHANGED toomuch
       ELSE Advance(EndAfterService(irq.end))
    /\ Handling /\ UNCHANGED timers /\ Latch

AfterPush ==
    /\ irq.pc = "push"
    /\ HandleRest(irq.l, irq.thre)
    /\ Advance(EndAfterService(irq.end))
    /\ Handling /\ UNCHANGED timers /\ Latch

-----------------------------------------------------------------------------
(* serial8250_backup_timeout.                                               *)

\* The IER is saved and cleared, without the lock.
TimerFires(p) ==
    /\ timer[p] = "armed"
    /\ tsave' = [tsave EXCEPT ![p] = [ier |-> IER[p], thre |-> FALSE]]
    /\ WriteIER(p, {})
    /\ timer' = [timer EXCEPT ![p] = "look"]
    /\ UNCHANGED <<out2, rx, busy, port, links, irq, con, opens, left, history>>
    /\ Latch

\* The IIR is read without the lock as well.
TimerLooks(p) ==
    /\ timer[p] = "look"
    /\ txint' = IirRead(p)
    /\ timer' = [timer EXCEPT ![p] = IF Interrupting(p) THEN "pending" ELSE "noint"]
    /\ UNCHANGED <<IER, out2, rx, busy, port, tsave, links, irq, con, opens, left, history>>
    /\ Latch

\* The port is handled if the IIR said so, or if the transmitter sits idle
\* with something to send.
TimerDecides(p) ==
    LET kick == TX \in ier[p] /\ xmit[p] > 0 /\ ~ busy[p] IN
    /\ timer[p] \in {"pending", "noint"} /\ Free(p)
    /\ SaveFlags(p)
    /\ timer' = [timer EXCEPT ![p] = IF @ = "pending" \/ kick THEN "handle" ELSE "restore"]
    /\ UNCHANGED <<IER, out2, busy, txint, pc, ier, bugs, lock, xmit, tsave, links, irq, con, opens, left, history>>
    /\ Latch

TimerHandles(p) ==
    /\ timer[p] = "handle"
    /\ HandleFirst(p)
    /\ timer' = [timer EXCEPT ![p] = IF rx[p] # <<>> THEN "push" ELSE "restore"]
    /\ tsave' = [tsave EXCEPT ![p].thre = ~ busy[p]]
    /\ Handling /\ UNCHANGED <<irq, toomuch>> /\ Latch

TimerPushed(p) ==
    /\ timer[p] = "push"
    /\ HandleRest(p, tsave[p].thre)
    /\ timer' = [timer EXCEPT ![p] = "restore"]
    /\ Handling /\ UNCHANGED <<tsave, irq, toomuch>> /\ Latch

TimerRestores(p) ==
    /\ timer[p] = "restore"
    /\ WriteIER(p, tsave[p].ier)
    /\ timer' = [timer EXCEPT ![p] = "armed"]
    /\ tsave' = [tsave EXCEPT ![p] = [ier |-> {}, thre |-> FALSE]]
    /\ UNCHANGED <<out2, rx, busy, port, links, irq, con, opens, left, history>>
    /\ Latch

-----------------------------------------------------------------------------
(* Calls from the serial core and the console.                              *)

\* uart_write puts n characters into the ring, and serial8250_start_tx.
serial8250_start_tx(p, n) ==
    LET on     == TX \notin ier[p]
        txen   == on /\ "TXEN" \in bugs[p]
        direct == txen /\ ~ busy[p]
        total  == xmit[p] + n
    IN
    /\ pc[p] = "open" /\ Free(p) /\ left >= n /\ "write" \in machine.inputs
    /\ xmit' = [xmit EXCEPT ![p] = IF direct THEN total - 1 ELSE total]
    /\ ier' = [ier EXCEPT ![p] = IF direct /\ total = 1 THEN @ ELSE @ \cup {TX}]
    /\ IER' = [IER EXCEPT ![p] = IF on THEN ier'[p] ELSE @]
    /\ txint' = [txint EXCEPT ![p] = ~ direct /\ Enabled(p, IER[p], IER'[p], @)]
    /\ busy' = [busy EXCEPT ![p] = @ \/ direct]
    /\ IF txen THEN SaveFlags(p) ELSE UNCHANGED <<rx, saved>>
    /\ left' = left - n
    /\ UNCHANGED <<out2, pc, bugs, lock, timers, links, irq, con, opens, history>>
    /\ Latch

serial8250_tx_empty(p) ==
    /\ pc[p] = "open" /\ Free(p)
    /\ SaveFlags(p)
    /\ UNCHANGED <<IER, out2, busy, txint, pc, ier, bugs, lock, xmit, timers, links, irq, con, opens, left,
                   history>>
    /\ Latch

NoPrint == [pc |-> "idle", ier |-> {}]

\* serial8250_console_write saves the IER and clears it, under the lock.
ConsoleBegins ==
    /\ con.pc = "idle" /\ left > 0 /\ "print" \in machine.inputs /\ Free(Console)
    /\ con' = [pc |-> "put", ier |-> IER[Console]]
    /\ lock' = [lock EXCEPT ![Console] = "console"]
    /\ WriteIER(Console, {})
    /\ left' = left - 1
    /\ UNCHANGED <<out2, rx, busy, pc, ier, bugs, saved, xmit, timers, links, irq, opens, history>>
    /\ Latch

\* wait_for_xmitr: it reads the LSR over and over.
wait_for_xmitr ==
    /\ con.pc # "idle" /\ busy[Console] /\ Error(Console)
    /\ SaveFlags(Console)
    /\ UNCHANGED <<IER, out2, busy, txint, pc, ier, bugs, lock, xmit, timers, links, irq, con, opens, left,
                   history>>
    /\ Latch

serial8250_console_putchar ==
    /\ con.pc = "put" /\ ~ busy[Console]
    /\ SaveFlags(Console)
    /\ busy' = [busy EXCEPT ![Console] = TRUE]
    /\ txint' = [txint EXCEPT ![Console] = FALSE]
    /\ con' = [con EXCEPT !.pc = "restore"]
    /\ UNCHANGED <<IER, out2, pc, ier, bugs, lock, xmit, timers, links, irq, opens, left, history>>
    /\ Latch

\* Mutant: the console does not wait for its last character.
RestoreEarly ==
    /\ con.pc = "restore"
    /\ SaveFlags(Console)
    /\ WriteIER(Console, con.ier)
    /\ lock' = [lock EXCEPT ![Console] = "none"]
    /\ con' = NoPrint
    /\ UNCHANGED <<out2, busy, pc, ier, bugs, xmit, timers, links, irq, opens, left, history>>
    /\ Latch

\* The transmitter is empty again, and the IER is what it was.
ConsoleRestores ==
    /\ con.pc = "restore" /\ ~ busy[Console]
    /\ SaveFlags(Console)
    /\ WriteIER(Console, con.ier)
    /\ lock' = [lock EXCEPT ![Console] = "none"]
    /\ con' = NoPrint
    /\ UNCHANGED <<out2, busy, pc, ier, bugs, xmit, timers, links, irq, opens, left, history>>
    /\ Latch

-----------------------------------------------------------------------------
(* serial8250_startup.                                                      *)

Step(p, from, to) == pc[p] = from /\ pc' = [pc EXCEPT ![p] = to]
Forget(p) ==
    /\ heard' = [heard EXCEPT ![p] = <<>>] /\ told' = [told EXCEPT ![p] = <<>>]
    /\ cut' = [cut EXCEPT ![p] = FALSE]

\* The FIFOs are cleared, and the registers that hold interrupts are read.
StartupBegins(p) ==
    /\ Step(p, "closed", "test") /\ opens < machine.opens /\ p \in machine.ports
    /\ opens' = opens + 1
    /\ rx' = [rx EXCEPT ![p] = <<>>] /\ Forget(p)
    /\ txint' = IirRead(p)
    /\ UNCHANGED <<IER, out2, busy, ier, bugs, saved, lock, xmit, timers, links, irq, con, left, failed,
                   overlap, toomuch, overrun, crashed>>
    /\ Latch

\* There is no chip: the LSR reads as 0xff.
SafetyCheckEngaged(p) ==
    /\ "absent" \in Events
    /\ Step(p, "test", "closed")
    /\ UNCHANGED <<chip, ier, bugs, saved, lock, xmit, timers, links, irq, con, opens, left, history>>
    /\ Latch

\* Does the chip interrupt again when THRI is enabled once more?  If not,
\* the backup timer is armed.
TestThre(p) ==
    LET first == Enabled(p, IER[p], {TX}, txint[p])
        found == first /\ p \in machine.forgetful
    IN
    /\ Step(p, "test", "lookup") /\ Free(p) /\ ~ busy[p]
    /\ SaveFlags(p)
    /\ IER' = [IER EXCEPT ![p] = {}] /\ txint' = [txint EXCEPT ![p] = FALSE]
    /\ bugs' = [bugs EXCEPT ![p] = IF found THEN @ \cup {"THRE"} ELSE @]
    /\ timer' = [timer EXCEPT ![p] = IF "THRE" \in bugs'[p] /\ @ = "off" THEN "armed" ELSE @]
    /\ UNCHANGED <<out2, busy, ier, lock, xmit, tsave, links, irq, con, opens, left, history>>
    /\ Latch

Linking == {"link", "request", "unlinking"}
Overlapping(p) == overlap' = (overlap \/ (\E q \in Ports \ {p} : pc[q] \in Linking))
HashFree == \A q \in Ports : pc[q] # "unlinking"

\* serial_link_irq_chain: the irq_info is found or made under hash_mutex.
LinkLookup(p) ==
    /\ Step(p, "lookup", "link") /\ HashFree
    /\ info' = IF info = 0 THEN opens ELSE info
    /\ ptr' = [ptr EXCEPT ![p] = info']
    /\ Overlapping(p)
    /\ UNCHANGED <<chip, ier, bugs, saved, lock, xmit, timers, chain, registered, irq, con, opens, left,
                   heard, told, cut, failed, toomuch, overrun, crashed>>
    /\ Latch

LinkNoMemory(p) ==
    /\ "nomem" \in Events
    /\ Step(p, "lookup", "closed") /\ HashFree /\ info = 0
    /\ failed' = [failed EXCEPT ![p] = TRUE]
    /\ UNCHANGED <<chip, ier, bugs, saved, lock, xmit, timers, links, irq, con, opens, left, heard, told,
                   cut, overlap, toomuch, overrun, crashed>>
    /\ Latch

\* Under i->lock only: an irq_info that was freed meanwhile is used.
LinkAdd(p) ==
    /\ pc[p] = "link" /\ irq.pc = "idle" /\ ptr[p] = info
    /\ chain' = IF chain = <<>> THEN <<p>> ELSE <<Head(chain), p>> \o Tail(chain)
    /\ pc' = [pc EXCEPT ![p] = IF chain = <<>> THEN "request" ELSE "init"]
    /\ UNCHANGED <<chip, ier, bugs, saved, lock, xmit, timers, info, ptr, registered, irq, con, opens, left,
                   history>>
    /\ Latch

LinkFreed(p) ==
    /\ pc[p] = "link" /\ ptr[p] # info
    /\ crashed' = TRUE
    /\ UNCHANGED <<chip, port, timers, links, edge, irq, con, opens, left, heard, told, cut, failed, overlap,
                   toomuch, overrun>>

RequestIrq(p) ==
    /\ Step(p, "request", "init")
    /\ registered' = TRUE
    /\ edge' = FALSE
    /\ UNCHANGED <<chip, ier, bugs, saved, lock, xmit, timers, chain, info, ptr, irq, con, opens, left,
                   history>>

\* serial_do_unlink
Unlink(p) ==
    /\ irq.pc = "idle"
    /\ \E i \in 1 .. Len(chain) : chain[i] = p /\ chain' = RemoveAt(chain, i)
    /\ info' = IF chain' = <<>> THEN 0 ELSE info
    /\ ptr' = [ptr EXCEPT ![p] = 0]

RequestFails(p) ==
    /\ "irqfail" \in Events
    /\ Step(p, "request", "closed") /\ Unlink(p)
    /\ failed' = [failed EXCEPT ![p] = TRUE]
    /\ UNCHANGED <<chip, ier, bugs, saved, lock, xmit, timers, registered, irq, con, opens, left, heard,
                   told, cut, overlap, toomuch, overrun, crashed>>
    /\ Latch

\* OUT2 is raised, and THRI enabled for a moment: does it interrupt at all?
TestTxenBegins(p) ==
    /\ Step(p, "init", "txen") /\ Free(p)
    /\ lock' = [lock EXCEPT ![p] = "startup"]
    /\ out2' = [out2 EXCEPT ![p] = TRUE]
    /\ WriteIER(p, {TX})
    /\ UNCHANGED <<rx, busy, ier, bugs, saved, xmit, timers, links, irq, con, opens, left, history>>
    /\ Latch

TestTxenEnds(p) ==
    LET silent == ~ busy[p] /\ ~ Interrupting(p) IN
    /\ Step(p, "txen", "clear")
    /\ lock' = [lock EXCEPT ![p] = "none"]
    /\ bugs' = [bugs EXCEPT ![p] = IF silent THEN @ \cup {"TXEN"} ELSE @ \ {"TXEN"}]
    /\ rx' = LsrRead(p) /\ txint' = IirRead(p) /\ IER' = [IER EXCEPT ![p] = {}]
    /\ UNCHANGED <<out2, busy, ier, saved, xmit, timers, links, irq, con, opens, left, history>>
    /\ Latch

\* "Clear the interrupt registers again for luck, and clear the saved flags";
\* "Finally, enable interrupts": all this without the lock.
EnableInterrupts(p) ==
    /\ Step(p, "clear", "termios")
    /\ rx' = [rx EXCEPT ![p] = <<>>] /\ Forget(p)
    /\ saved' = [saved EXCEPT ![p] = FALSE]
    /\ ier' = [ier EXCEPT ![p] = {RX}]
    /\ IER' = [IER EXCEPT ![p] = {RX}] /\ txint' = IirRead(p)
    /\ UNCHANGED <<out2, busy, bugs, lock, xmit, timers, links, irq, con, opens, left, failed,
                   overlap, toomuch, overrun, crashed>>
    /\ Latch

\* Mutant: the IER is written without the lock.
TermiosUnlocked(p) ==
    /\ pc[p] \in {"termios", "open"}
    /\ pc' = [pc EXCEPT ![p] = "open"]
    /\ failed' = [failed EXCEPT ![p] = FALSE]
    /\ WriteIER(p, ier[p])
    /\ UNCHANGED <<out2, rx, busy, ier, bugs, saved, lock, xmit, timers, links, irq, con, opens, left, heard,
                   told, cut, overlap, toomuch, overrun, crashed>>
    /\ Latch

\* serial8250_set_termios, which uart_startup calls next and others later,
\* writes the IER under the lock.
serial8250_set_termios(p) ==
    /\ pc[p] \in {"termios", "open"} /\ Free(p)
    /\ pc' = [pc EXCEPT ![p] = "open"]
    /\ failed' = [failed EXCEPT ![p] = FALSE]
    /\ WriteIER(p, ier[p])
    /\ UNCHANGED <<out2, rx, busy, ier, bugs, saved, lock, xmit, timers, links, irq, con, opens, left, heard,
                   told, cut, overlap, toomuch, overrun, crashed>>
    /\ Latch

-----------------------------------------------------------------------------
(* serial8250_shutdown.                                                     *)

\* Interrupts are disabled, without the lock.
ShutdownBegins(p) ==
    /\ Step(p, "open", "lower")
    /\ ier' = [ier EXCEPT ![p] = {}]
    /\ WriteIER(p, {})
    /\ UNCHANGED <<out2, rx, busy, bugs, saved, lock, xmit, timers, links, irq, con, opens, left, history>>
    /\ Latch

\* OUT2 is lowered and the FIFOs are cleared.
LowerOut2(p) ==
    /\ Step(p, "lower", "timer") /\ Free(p)
    /\ out2' = [out2 EXCEPT ![p] = FALSE]
    /\ rx' = [rx EXCEPT ![p] = <<>>] /\ Forget(p)
    /\ UNCHANGED <<IER, busy, txint, ier, bugs, saved, lock, xmit, timers, links, irq, con, opens, left, failed,
                   overlap, toomuch, overrun, crashed>>
    /\ Latch

\* Mutant: del_timer, which does not wait for a timer that is running.
DelTimer(p) ==
    /\ Step(p, "timer", "unlink")
    /\ timer' = [timer EXCEPT ![p] = IF @ = "armed" THEN "off" ELSE @]
    /\ UNCHANGED <<chip, ier, bugs, saved, lock, xmit, tsave, links, irq, con, opens, left, history>>
    /\ Latch

DelTimerSync(p) ==
    /\ Step(p, "timer", "unlink") /\ timer[p] \in {"off", "armed"}
    /\ timer' = [timer EXCEPT ![p] = "off"]
    /\ UNCHANGED <<chip, ier, bugs, saved, lock, xmit, tsave, links, irq, con, opens, left, history>>
    /\ Latch

\* serial_unlink_irq_chain: the last port releases the handler, which waits
\* for it to return.
UnlinkBegins(p) ==
    /\ Step(p, "unlink", "unlinking") /\ HashFree
    /\ Len(chain) = 1 => irq.pc = "idle"
    /\ registered' = (registered /\ Len(chain) # 1)
    /\ edge' = (edge /\ Len(chain) # 1)
    /\ Overlapping(p)
    /\ UNCHANGED <<chip, ier, bugs, saved, lock, xmit, timers, chain, info, ptr, irq, con, opens, left, heard,
                   told, cut, failed, toomuch, overrun, crashed>>

\* The core empties the ring.
UnlinkEnds(p) ==
    /\ Step(p, "unlinking", "closed") /\ Unlink(p)
    /\ xmit' = [xmit EXCEPT ![p] = 0]
    /\ UNCHANGED <<chip, ier, bugs, saved, lock, timers, registered, irq, con, opens, left, history>>
    /\ Latch

-----------------------------------------------------------------------------

Init ==
    /\ machine \in Machines
    /\ pc = [p \in Ports |-> "closed"] /\ ier = [p \in Ports |-> {}]
    /\ bugs = [p \in Ports |-> {}] /\ saved = [p \in Ports |-> FALSE]
    /\ lock = [p \in Ports |-> "none"] /\ xmit = [p \in Ports |-> 0]
    /\ IER = [p \in Ports |-> {}] /\ out2 = [p \in Ports |-> FALSE]
    /\ rx = [p \in Ports |-> <<>>]
    /\ busy = [p \in Ports |-> FALSE] /\ txint = [p \in Ports |-> TRUE]
    /\ timer = [p \in Ports |-> "off"]
    /\ tsave = [p \in Ports |-> [ier |-> {}, thre |-> FALSE]]
    /\ chain = <<>> /\ info = 0 /\ ptr = [p \in Ports |-> 0] /\ registered = FALSE
    /\ edge = FALSE /\ irq = Quiet /\ con = NoPrint /\ opens = 0 /\ left = machine.events
    /\ heard = [p \in Ports |-> <<>>] /\ told = [p \in Ports |-> <<>>]
    /\ cut = [p \in Ports |-> FALSE] /\ failed = [p \in Ports |-> FALSE]
    /\ overlap = FALSE /\ toomuch = FALSE /\ withdrawn = FALSE
    /\ overrun = FALSE /\ crashed = FALSE

Startup(p) ==
    \/ StartupBegins(p) \/ SafetyCheckEngaged(p) \/ TestThre(p)
    \/ LinkLookup(p) \/ LinkNoMemory(p) \/ LinkAdd(p) \/ LinkFreed(p)
    \/ RequestIrq(p) \/ RequestFails(p)
    \/ TestTxenBegins(p) \/ TestTxenEnds(p) \/ EnableInterrupts(p)

Shutdown(p) ==
    \/ ShutdownBegins(p) \/ LowerOut2(p) \/ DelTimerSync(p) \/ UnlinkBegins(p) \/ UnlinkEnds(p)

BackupTimer(p) ==
    \/ TimerFires(p) \/ TimerLooks(p) \/ TimerDecides(p) \/ TimerHandles(p) \/ TimerPushed(p) \/ TimerRestores(p)

ConsoleWrite == ConsoleBegins \/ wait_for_xmitr \/ serial8250_console_putchar \/ ConsoleRestores

Next ==
    /\ ~ crashed /\ UNCHANGED machine
    /\ \/ \E p \in Ports :
             \/ \E c \in {"ok", "error"} : CharArrives(p, c)
             \/ TransmitterEmpties(p)
             \/ Startup(p) \/ Shutdown(p) \/ BackupTimer(p)
             \/ \E n \in 1 .. 2 : serial8250_start_tx(p, n)
             \/ serial8250_tx_empty(p) \/ serial8250_set_termios(p)
       \/ Enter \/ Scan \/ HandleInterrupt \/ AfterPush
       \/ ConsoleWrite
    /\ withdrawn' = (withdrawn \/ (irq.pc # "idle" /\ irq' = irq /\
                       \E p \in Ports : Drives(p) /\ ~ Drives(p)'))

Spec == Init /\ [][Next]_vars

-----------------------------------------------------------------------------
(* Properties.                                                              *)

Chars == Seq({"ok", "error"})

\* The variables are of the declared kind: no transmit count below zero, no
\* character but those that came.
TypeOK ==
    /\ pc \in [Ports -> {"closed", "test", "lookup", "link", "request", "init", "txen", "clear",
                         "termios", "open", "lower", "timer", "unlink", "unlinking"}]
    /\ ier \in [Ports -> SUBSET {RX, TX}] /\ IER \in [Ports -> SUBSET {RX, TX}]
    /\ bugs \in [Ports -> SUBSET {"THRE", "TXEN"}] /\ saved \in [Ports -> BOOLEAN]
    /\ lock \in [Ports -> {"none", "console", "startup"}] /\ xmit \in [Ports -> Nat]
    /\ out2 \in [Ports -> BOOLEAN] /\ rx \in [Ports -> Chars]
    /\ busy \in [Ports -> BOOLEAN] /\ txint \in [Ports -> BOOLEAN]
    /\ timer \in [Ports -> {"off", "armed", "look", "pending", "noint", "handle", "push", "restore"}]
    /\ tsave \in [Ports -> [ier : SUBSET {RX, TX}, thre : BOOLEAN]]
    /\ chain \in Seq(Ports) /\ info \in Nat /\ ptr \in [Ports -> Nat]
    /\ registered \in BOOLEAN /\ edge \in BOOLEAN
    /\ irq \in [pc : {"idle", "scan", "handle", "push"}, l : Ports, end : Ports \cup {"none"},
                pass : Nat, thre : BOOLEAN]
    /\ con \in [pc : {"idle", "put", "restore"}, ier : SUBSET {RX, TX}]
    /\ machine \in Machines /\ opens \in 0 .. machine.opens /\ left \in 0 .. machine.events
    /\ heard \in [Ports -> Chars] /\ told \in [Ports -> Chars]
    /\ cut \in [Ports -> BOOLEAN] /\ failed \in [Ports -> BOOLEAN]
    /\ overlap \in BOOLEAN /\ toomuch \in BOOLEAN /\ withdrawn \in BOOLEAN /\ overrun \in BOOLEAN /\ crashed \in BOOLEAN

\* serial8250_interrupt returns only after it has seen every port of the chain
\* silent in one round, so the line has been low and its next edge will be
\* seen: a line that is up while nobody handles it has an edge to show for it.
\* (Not if it gave up after PASS_LIMIT rounds, if the chain was changed by two
\* at once, or if a port fell silent before the handler came to it: its IER
\* was cleared by the console, the backup timer or a close.)
LineNotStuck ==
    LineHigh /\ irq.pc = "idle" /\ ~ overlap /\ ~ toomuch /\ ~ withdrawn => edge

\* What an LSR read takes out of the chip outside the receive path is kept in
\* lsr_saved_flags, and goes to the character it belongs to, whoever reads:
\* tx_empty, the console, the backup timer, the tests of startup.  (Not if
\* receive_chars has stopped at max_count, which drops what it read last.)
ErrorsReported ==
    \A p \in Ports : pc[p] = "open" /\ ~ cut[p] =>
        LET coming == IF saved[p] /\ rx[p] # <<>> THEN <<"error">> \o Tail(rx[p]) ELSE rx[p]
        IN  told[p] \o coming = heard[p] /\ (saved[p] => rx[p] # <<>>)

\* An open port interrupts for what the driver believes it does, whenever the
\* console is not at work: also after an open that the console overlapped.
\* (Not with the backup timer, which saves and restores the IER unlocked.)
InterruptsAsEnabled ==
    \A p \in Ports : pc[p] = "open" /\ Free(p) /\ "THRE" \notin bugs[p] => IER[p] = ier[p]

\* An open port is in the chain, once, and the handler is there for it,
\* whichever opens fail; the irq_info lives as long as there is a chain.
OpenIsLinked ==
    /\ ~ overlap => \A p \in Ports : pc[p] \in {"txen", "clear", "termios", "open"} =>
                        Cardinality({i \in DOMAIN chain : chain[i] = p}) = 1 /\ registered
    /\ chain # <<>> => info # 0

\* A port that has been closed neither drives the line, nor is in the chain,
\* nor has a timer running, whatever the console, the timer and the handler
\* were doing when it was closed.  (A failed open leaves the timer behind.)
ClosedIsQuiet ==
    \A p \in Ports : pc[p] = "closed" =>
        /\ ~ out2[p] /\ p \notin ToSet(chain)
        /\ timer[p] # "off" => failed[p]

\* A port takes part in the line exactly while it is open: linked and handled
\* from serial8250_startup on, silent once serial8250_shutdown has returned.
OpenTakesPart == TypeOK /\ OpenIsLinked /\ ClosedIsQuiet

\* transmit_chars loads a transmitter only when it is empty, although it uses
\* a status from before receive_chars dropped the lock: whoever sends
\* meanwhile waits until it is empty again.  (Not with the workarounds, whose
\* senders do not wait.)
NoTransmitOverrun == ~ overrun

\* "Must disable interrupts or else we risk racing with the interrupt based
\* handler."  The code does not keep this: see the README.
TimerAlone ==
    \A p \in Ports : ~ (timer[p] \in {"handle", "push"} /\ irq.pc \in {"handle", "push"} /\ irq.l = p)

\* No freed irq_info is used.  The code does not keep this: see the README.
NoUseAfterFree == ~ crashed
=============================================================================
