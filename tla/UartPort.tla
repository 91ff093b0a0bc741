------------------------------ MODULE UartPort ------------------------------
(* The life of one serial port in serial_core.c: open, close, hangup, the   *)
(* wait for carrier, suspend and resume, reconfiguration by ioctl, and the  *)
(* driver removing the port under its users.                                *)
(*                                                                          *)
(* What runs under port->mutex is one step.  The tty layer, which is not    *)
(* part of the repository, is modelled by what it does around the calls:    *)
(* tty_open counts the file before uart_open takes the mutex, tty_release   *)
(* uncounts it after uart_close, do_tty_hangup switches the files to        *)
(* hung_up_tty_fops before it calls uart_hangup.  The low-level driver is   *)
(* the number of times it was started.                                      *)
EXTENDS Integers, FiniteSets

CONSTANTS
    Files,    \* open file descriptions of the device node
    Mixes,    \* sets of what the environment does besides open and close
    MaxCount  \* bound on port->count, which a hangup can leave too high

\* "race": an open gets in between do_tty_hangup's loop over the files and
\* the driver's hangup.  Both run under the BKL, which is given up only where
\* do_tty_hangup sleeps (for the line discipline, or for port->mutex).
Event == {"hangup", "suspend", "hangup_suspended", "ioctl", "termios",
          "signal", "miwait", "remove", "race"}

ASSUME EventsAssumption ==
    /\ IsFiniteSet(Files)
    /\ Mixes \subseteq SUBSET Event
    /\ MaxCount \in Nat /\ MaxCount >= Cardinality(Files)

VARIABLES
    port,     \* struct tty_port, the driver's view of it, and its tty_struct
    pc,       \* what each file is doing
    hung,     \* does the file point at hung_up_tty_fops
    nonblock, \* O_NONBLOCK
    woken,    \* has the sleeper been woken since it last looked
    hpc,      \* do_tty_hangup between its loop over the files and uart_hangup
    rpc,      \* uart_remove_one_port
    carrier,  \* TIOCM_CAR
    events    \* the mix of this behaviour: never changes

vars == <<port, pc, hung, nonblock, woken, hpc, rpc, carrier, events>>

PortType ==
    [count : 0 .. MaxCount, blocked : 0 .. Cardinality(Files),
     init : BOOLEAN,         \* ASYNC_INITIALIZED
     active : BOOLEAN,       \* ASYNC_NORMAL_ACTIVE
     susp : BOOLEAN,         \* ASYNC_SUSPENDED
     check_cd : BOOLEAN,     \* ASYNC_CHECK_CD
     tty : BOOLEAN,          \* port->tty is not NULL
     buf : BOOLEAN,          \* xmit.buf is not NULL
     known : BOOLEAN,        \* type # PORT_UNKNOWN
     suspended : BOOLEAN,    \* uport->suspended
     dead : BOOLEAN,         \* UPF_DEAD
     present : BOOLEAN,      \* state->uart_port is not NULL
     tlet : BOOLEAN,         \* the tasklet is scheduled
     hw : -1 .. 2,           \* ops->startup calls without ops->shutdown
     users : 0 .. Cardinality(Files),   \* tty->count
     ioerr : BOOLEAN,        \* TTY_IO_ERROR
     data : BOOLEAN,         \* tty->driver_data is not NULL
     clocal : BOOLEAN,       \* CLOCAL
     oops : BOOLEAN]         \* port->tty was dereferenced while NULL

\* A port that uart_add_one_port has found, not open; its termios of an
\* earlier open ask for carrier.
Init ==
    /\ port = [count |-> 0, blocked |-> 0, init |-> FALSE, active |-> FALSE,
               susp |-> FALSE, check_cd |-> TRUE, tty |-> FALSE, buf |-> FALSE,
               known |-> TRUE, suspended |-> FALSE, dead |-> FALSE,
               present |-> TRUE, tlet |-> FALSE, hw |-> 0, users |-> 0,
               ioerr |-> FALSE, data |-> FALSE, clocal |-> FALSE, oops |-> FALSE]
    /\ pc = [f \in Files |-> "closed"]
    /\ hung = [f \in Files |-> FALSE]
    /\ nonblock = [f \in Files |-> FALSE]
    /\ woken = [f \in Files |-> FALSE]
    /\ hpc = "idle"
    /\ rpc = "idle"
    /\ carrier = FALSE
    /\ events \in Mixes

-----------------------------------------------------------------------------
(* Operations on the port, with the mutex held.                             *)

\* Only the flag that open and carrier changes look at later.
uart_change_speed(s) ==
    IF s.tty /\ s.known THEN [s EXCEPT !.check_cd = ~s.clocal] ELSE s

\* page, hwok: did get_zeroed_page and ops->startup succeed.  The result is
\* the new state and whether an error is returned; CAP_SYS_ADMIN hides the
\* failure of ops->startup.
uart_startup(s, init_hw, page, hwok, admin) ==
    LET a == [s EXCEPT !.ioerr = TRUE, !.oops = @ \/ ~s.tty]
        b == [a EXCEPT !.buf = TRUE]
        c == [b EXCEPT !.hw = @ + 1]
        d == IF init_hw THEN uart_change_speed(c) ELSE c
    IN IF s.init THEN [s |-> s, err |-> FALSE]
       ELSE IF ~s.known THEN [s |-> a, err |-> FALSE]
       ELSE IF ~s.buf /\ ~page THEN [s |-> a, err |-> TRUE]
       ELSE IF hwok
       THEN [s |-> [d EXCEPT !.init = TRUE, !.ioerr = FALSE], err |-> FALSE]
       ELSE [s |-> b, err |-> ~admin]

\* Mutant: the tasklet is not killed.
ShutdownNoKill(s) ==
    [s EXCEPT !.ioerr = @ \/ s.tty,
              !.hw = IF s.init THEN @ - 1 ELSE @,
              !.init = FALSE, !.buf = FALSE]

uart_shutdown(s) ==
    [s EXCEPT !.ioerr = @ \/ s.tty,
              !.hw = IF s.init THEN @ - 1 ELSE @,
              !.init = FALSE, !.tlet = FALSE, !.buf = FALSE]

\* The loop of uart_block_til_ready ends without a look at a signal.  The
\* mutant does not ask for the carrier.
ReadyNoCarrier(f, s) ==
    \/ hung[f] \/ ~s.tty \/ ~s.init
    \/ nonblock[f] \/ s.clocal \/ s.ioerr

Ready(f, s) ==
    \/ hung[f] \/ ~s.tty \/ ~s.init
    \/ nonblock[f] \/ s.clocal \/ s.ioerr
    \/ carrier

\* The first open to succeed marks the port active and applies the termios.
uart_update_termios(s) == IF s.ioerr THEN s ELSE uart_change_speed(s)

FinishOpen(f, s) ==
    IF ~s.tty \/ hung[f]
    THEN port' = s /\ pc' = [pc EXCEPT ![f] = "failed"]
    ELSE /\ port' = IF s.active THEN s
                  ELSE uart_update_termios([s EXCEPT !.active = TRUE])
         /\ pc' = [pc EXCEPT ![f] = "open"]

Sleepers(state) == {f \in Files : pc[f] = state}
wake_up(fs) == woken' = [f \in Files |-> woken[f] \/ f \in fs]

Thawed == ~port.suspended

-----------------------------------------------------------------------------
(* open and close.                                                          *)

\* tty_open: a new tty structure, or one more user of the existing one.
tty_open(f, nb) ==
    /\ pc[f] = "closed" /\ Thawed
    /\ hpc = "idle" \/ "race" \in events
    /\ port' = [port EXCEPT !.users = @ + 1,
                            !.ioerr = IF port.users = 0 THEN FALSE ELSE @]
    /\ pc' = [pc EXCEPT ![f] = "opening"]
    /\ hung' = [hung EXCEPT ![f] = FALSE]
    /\ nonblock' = [nonblock EXCEPT ![f] = nb]
    /\ UNCHANGED <<woken, hpc, rpc, carrier, events>>

\* uart_get fails: a signal while waiting for the mutex, or no port.
OpenFails(f) ==
    /\ pc[f] = "opening" /\ Thawed
    /\ "signal" \in events \/ ~port.present \/ port.dead
    /\ pc' = [pc EXCEPT ![f] = "failed"]
    /\ UNCHANGED <<port, hung, nonblock, woken, hpc, rpc, carrier, events>>

\* uart_open with the mutex, up to its return or to the first schedule().
uart_open(f, page, hwok, admin) ==
    LET a == [port EXCEPT !.data = TRUE, !.tty = TRUE]
        up == uart_startup([a EXCEPT !.count = @ + 1], FALSE, page, hwok, admin)
    IN /\ pc[f] = "opening" /\ Thawed
       /\ port.present /\ ~port.dead
       /\ port.count + port.blocked < MaxCount
       /\ \/ hung[f] /\ port' = a /\ pc' = [pc EXCEPT ![f] = "failed"]
          \/ ~hung[f] /\ up.err /\ port' = up.s
                      /\ pc' = [pc EXCEPT ![f] = "failed"]
          \/ ~hung[f] /\ ~up.err /\ Ready(f, up.s) /\ FinishOpen(f, up.s)
          \/ /\ ~hung[f] /\ ~up.err /\ ~Ready(f, up.s)
             /\ port' = [up.s EXCEPT !.count = @ - 1, !.blocked = @ + 1]
             /\ pc' = [pc EXCEPT ![f] = "waiting"]
       /\ woken' = [woken EXCEPT ![f] = FALSE]
       /\ UNCHANGED <<hung, nonblock, hpc, rpc, carrier, events>>

\* One more round of uart_block_til_ready's loop after schedule().
uart_block_til_ready(f, signal) ==
    LET s == [port EXCEPT !.count = @ + 1, !.blocked = @ - 1]
    IN /\ pc[f] = "waiting" /\ Thawed
       /\ \/ signal /\ "signal" \in events
             /\ port' = s /\ pc' = [pc EXCEPT ![f] = "failed"]
          \/ ~signal /\ woken[f] /\ Ready(f, port) /\ FinishOpen(f, s)
          \/ ~signal /\ woken[f] /\ ~Ready(f, port)
             /\ UNCHANGED <<port, pc>>
       /\ woken' = [woken EXCEPT ![f] = FALSE]
       /\ UNCHANGED <<hung, nonblock, hpc, rpc, carrier, events>>

\* port->count after a close, with both of its corrections.  In the mutant
\* every close is taken for the last one.
CloseCountLast == 0

CloseCount ==
    LET n == IF port.users = 1 /\ port.count # 1 THEN 1 ELSE port.count
    IN IF n = 0 THEN 0 ELSE n - 1

\* uart_close, called for a failed open too.
uart_close(f) ==
    LET c == CloseCount
        s == uart_shutdown([port EXCEPT !.count = 0])
    IN /\ pc[f] \in {"open", "failed"} /\ Thawed
       /\ pc' = [pc EXCEPT ![f] = "closing"]
       /\ \/ /\ ~port.data \/ hung[f]
             /\ UNCHANGED <<port, woken>>
          \/ /\ port.data /\ ~hung[f] /\ c > 0
             /\ port' = [port EXCEPT !.count = c]
             /\ UNCHANGED woken
          \/ /\ port.data /\ ~hung[f] /\ c = 0
             /\ port' = [s EXCEPT !.tty = FALSE, !.active = FALSE]
             /\ wake_up(Sleepers("waiting")
                        \cup IF port.init THEN Sleepers("miwait") ELSE {})
       /\ UNCHANGED <<hung, nonblock, hpc, rpc, carrier, events>>

\* The rest of tty_release: the last user frees the tty structure.
tty_release(f) ==
    /\ pc[f] = "closing" /\ Thawed
    /\ port' = [port EXCEPT !.users = @ - 1,
                            !.data = IF port.users = 1 THEN FALSE ELSE @]
    /\ pc' = [pc EXCEPT ![f] = "closed"]
    /\ UNCHANGED <<hung, nonblock, woken, hpc, rpc, carrier, events>>

-----------------------------------------------------------------------------
(* Hangup.                                                                  *)

HangFiles ==
    /\ hung' = [f \in Files |-> hung[f] \/ pc[f] # "closed"]
    /\ hpc' = "hangup"

do_tty_hangup ==
    /\ "hangup" \in events
    /\ hpc = "idle" /\ port.users > 0 /\ port.data
    /\ Thawed \/ "hangup_suspended" \in events
    /\ HangFiles
    /\ UNCHANGED <<port, pc, nonblock, woken, rpc, carrier, events>>

uart_hangup ==
    LET s == uart_shutdown(port)
    IN /\ hpc = "hangup"
       /\ Thawed \/ "hangup_suspended" \in events
       /\ hpc' = "idle"
       /\ \/ ~port.active /\ UNCHANGED <<port, woken>>
          \/ /\ port.active
             /\ port' = [s EXCEPT !.count = 0, !.active = FALSE,
                                !.tty = FALSE]
             /\ wake_up(Sleepers("waiting") \cup Sleepers("miwait"))
       /\ UNCHANGED <<pc, hung, nonblock, rpc, carrier, events>>

-----------------------------------------------------------------------------
(* Power management.                                                        *)

\* By the time a driver is suspended the freezer has stopped every task at
\* its return to user space, sleeping calls having been interrupted.
Frozen == \A f \in Files : pc[f] \in {"closed", "open"}

\* Mutant: the flag is left set.
SuspendStillInit ==
    /\ "suspend" \in events /\ Frozen
    /\ port.present /\ ~port.dead /\ ~port.suspended
    /\ port' = [port EXCEPT !.suspended = TRUE,
                            !.susp = @ \/ port.init,
                            !.hw = IF port.init THEN @ - 1 ELSE @]
    /\ UNCHANGED <<pc, hung, nonblock, woken, hpc, rpc, carrier, events>>

uart_suspend_port ==
    /\ "suspend" \in events /\ Frozen
    /\ port.present /\ ~port.dead /\ ~port.suspended
    /\ port' = [port EXCEPT !.suspended = TRUE,
                            !.susp = @ \/ port.init,
                            !.hw = IF port.init THEN @ - 1 ELSE @,
                            !.init = FALSE]
    /\ UNCHANGED <<pc, hung, nonblock, woken, hpc, rpc, carrier, events>>

uart_resume_port(hwok) ==
    LET s == [port EXCEPT !.suspended = FALSE, !.susp = FALSE]
        up == uart_change_speed([s EXCEPT !.hw = @ + 1, !.init = TRUE])
    IN /\ port.suspended
       /\ port' = IF ~port.susp THEN s
                ELSE IF hwok THEN up ELSE uart_shutdown(s)
       /\ UNCHANGED <<pc, hung, nonblock, woken, hpc, rpc, carrier, events>>

-----------------------------------------------------------------------------
(* ioctls.  The tty layer looked at hung_up_tty_fops when the call began.   *)

BeginIoctl(f) ==
    /\ "ioctl" \in events
    /\ pc[f] = "open" /\ ~hung[f] /\ Thawed
    /\ pc' = [pc EXCEPT ![f] = "ioctl"]
    /\ UNCHANGED <<port, hung, nonblock, woken, hpc, rpc, carrier, events>>

tty_port_users == port.count + port.blocked

Change == {"keep", "speed", "irq", "port", "restored", "lost", "unknown"}

\* TIOCSSERIAL.  what: change nothing that matters here, or the speed; a new
\* irq; a new port or type, whose resources the driver gets, or does not and
\* the old ones are restored or lost; or a new type PORT_UNKNOWN.
uart_set_info(f, what, page, hwok) ==
    LET change == what \notin {"keep", "speed"}
        down == uart_shutdown(port)
        s == CASE what = "keep" -> port
               [] what = "speed" -> IF port.init THEN uart_change_speed(port) ELSE port
               [] what \in {"irq", "restored"} -> down
               [] what = "port" -> [down EXCEPT !.known = TRUE]
               [] what \in {"unknown", "lost"} -> [down EXCEPT !.known = FALSE]
        up == uart_startup(s, TRUE, page, hwok, TRUE)
    IN /\ pc[f] = "ioctl" /\ Thawed /\ port.present
       /\ pc' = [pc EXCEPT ![f] = "open"]
       /\ what \in {"restored", "lost"} => port.known
       /\ \/ /\ change /\ tty_port_users > 1
             /\ UNCHANGED <<port, woken>>
          \/ /\ ~(change /\ tty_port_users > 1)
             /\ port' = IF s.known /\ what # "restored" THEN up.s ELSE s
             /\ wake_up(IF change /\ port.init THEN Sleepers("miwait") ELSE {})
       /\ UNCHANGED <<hung, nonblock, hpc, rpc, carrier, events>>

\* TIOCSERCONFIG.  found: does config_port find a port.
uart_do_autoconfig(f, found, page, hwok) ==
    LET s == [uart_shutdown(port) EXCEPT !.known = found]
    IN /\ pc[f] = "ioctl" /\ Thawed /\ port.present
       /\ pc' = [pc EXCEPT ![f] = "open"]
       /\ \/ tty_port_users # 1 /\ UNCHANGED <<port, woken>>
          \/ /\ tty_port_users = 1
             /\ port' = uart_startup(s, TRUE, page, hwok, TRUE).s
             /\ wake_up(IF port.init THEN Sleepers("miwait") ELSE {})
       /\ UNCHANGED <<hung, nonblock, hpc, rpc, carrier, events>>

\* TCSETS with another CLOCAL.
uart_set_termios(f) ==
    /\ "termios" \in events
    /\ pc[f] = "open" /\ ~hung[f] /\ Thawed /\ port.present
    /\ port' = uart_change_speed([port EXCEPT !.clocal = ~@])
    /\ UNCHANGED <<pc, hung, nonblock, woken, hpc, rpc, carrier, events>>

\* TIOCMIWAIT: sleep until a modem line changes.
BeginMiwait(f) ==
    /\ "miwait" \in events
    /\ pc[f] = "open" /\ ~hung[f] /\ ~port.ioerr /\ Thawed
    /\ pc' = [pc EXCEPT ![f] = "miwait"]
    /\ woken' = [woken EXCEPT ![f] = FALSE]
    /\ UNCHANGED <<port, hung, nonblock, hpc, rpc, carrier, events>>

\* Woken: a line of the caller's mask has changed (or a signal is pending),
\* or none has and the loop sleeps again.
uart_wait_modem_status(f, changed) ==
    /\ pc[f] = "miwait" /\ woken[f] /\ Thawed
    /\ woken' = [woken EXCEPT ![f] = FALSE]
    /\ pc' = [pc EXCEPT ![f] = IF changed THEN "open" ELSE "miwait"]
    /\ UNCHANGED <<port, hung, nonblock, hpc, rpc, carrier, events>>

-----------------------------------------------------------------------------
(* Interrupts.                                                              *)

\* uart_handle_dcd_change: openers are woken if CHECK_CD is set.  A loss of
\* carrier hangs the tty up, which do_tty_hangup may do at any time.
CarrierChange ==
    /\ carrier' = ~carrier
    /\ wake_up(IF port.hw > 0
               THEN Sleepers("miwait")
                    \cup (IF port.check_cd /\ ~carrier THEN Sleepers("waiting")
                          ELSE {})
               ELSE {})
    /\ UNCHANGED <<port, pc, hung, nonblock, hpc, rpc, events>>

\* uart_write_wakeup from the transmit interrupt, and the tasklet.
TransmitIrq ==
    /\ port.hw > 0
    /\ port' = [port EXCEPT !.tlet = TRUE]
    /\ UNCHANGED <<pc, hung, nonblock, woken, hpc, rpc, carrier, events>>

uart_tasklet_action ==
    /\ port.tlet
    /\ port' = [port EXCEPT !.tlet = FALSE]
    /\ UNCHANGED <<pc, hung, nonblock, woken, hpc, rpc, carrier, events>>

-----------------------------------------------------------------------------
(* uart_remove_one_port and uart_add_one_port.                              *)

RemoveMark ==
    /\ "remove" \in events
    /\ rpc = "idle" /\ port.present /\ Thawed
    /\ port' = [port EXCEPT !.dead = TRUE]
    /\ rpc' = "marked"
    /\ UNCHANGED <<pc, hung, nonblock, woken, hpc, carrier, events>>

\* if (port->tty) tty_vhangup(port->tty)
RemoveHangup ==
    /\ rpc = "marked" /\ hpc = "idle"
    /\ \/ port.tty /\ HangFiles
       \/ ~port.tty /\ UNCHANGED <<hung, hpc>>
    /\ rpc' = "hung"
    /\ UNCHANGED <<port, pc, nonblock, woken, carrier, events>>

uart_remove_one_port ==
    /\ rpc = "hung" /\ hpc = "idle"
    /\ port' = [port EXCEPT !.known = FALSE, !.tlet = FALSE, !.present = FALSE]
    /\ rpc' = "idle"
    /\ UNCHANGED <<pc, hung, nonblock, woken, hpc, carrier, events>>

\* found: does config_port find a port.
uart_add_one_port(found) ==
    /\ ~port.present /\ rpc = "idle"
    /\ port' = [port EXCEPT !.present = TRUE, !.dead = FALSE, !.known = found]
    /\ UNCHANGED <<pc, hung, nonblock, woken, hpc, rpc, carrier, events>>

-----------------------------------------------------------------------------

Next ==
    \/ \E f \in Files :
         \/ \E nb \in BOOLEAN : tty_open(f, nb)
         \/ OpenFails(f)
         \/ \E page, hwok, admin \in BOOLEAN : uart_open(f, page, hwok, admin)
         \/ \E signal \in BOOLEAN : uart_block_til_ready(f, signal)
         \/ uart_close(f)
         \/ tty_release(f)
         \/ BeginIoctl(f)
         \/ \E what \in Change, page, hwok \in BOOLEAN :
               uart_set_info(f, what, page, hwok)
         \/ \E found, page, hwok \in BOOLEAN :
               uart_do_autoconfig(f, found, page, hwok)
         \/ uart_set_termios(f)
         \/ BeginMiwait(f)
         \/ \E changed \in BOOLEAN : uart_wait_modem_status(f, changed)
    \/ do_tty_hangup
    \/ uart_hangup
    \/ uart_suspend_port
    \/ \E hwok \in BOOLEAN : uart_resume_port(hwok)
    \/ CarrierChange
    \/ TransmitIrq
    \/ uart_tasklet_action
    \/ RemoveMark
    \/ RemoveHangup
    \/ uart_remove_one_port
    \/ \E found \in BOOLEAN : uart_add_one_port(found)

Spec == Init /\ [][Next]_vars

\* A woken opener runs, a close that has begun ends, and a hangup under way
\* reaches the driver: the scheduler runs runnable tasks.  No fairness for
\* signals, for the modem or for what users call.
FairSpec ==
    /\ Spec
    /\ \A f \in Files :
         /\ WF_vars(uart_block_til_ready(f, FALSE))
         /\ WF_vars(tty_release(f))
    /\ WF_vars(uart_hangup)

-----------------------------------------------------------------------------

\* The variables are of the declared kind; hw = 2 or -1 would be a second
\* startup or a shutdown too many.
TypeOK ==
    /\ port \in PortType
    /\ pc \in [Files -> {"closed", "opening", "waiting", "open", "failed",
                         "closing", "ioctl", "miwait"}]
    /\ hung \in [Files -> BOOLEAN]
    /\ nonblock \in [Files -> BOOLEAN]
    /\ woken \in [Files -> BOOLEAN]
    /\ hpc \in {"idle", "hangup"}
    /\ rpc \in {"idle", "marked", "hung"}
    /\ carrier \in BOOLEAN
    /\ events \in Mixes

\* The low-level driver's startup and shutdown alternate whatever open,
\* close, hangup, ioctl, suspend and resume do in between, and the flag
\* ASYNC_INITIALIZED says which of them was called last.
StartedOnce == port.hw = IF port.init THEN 1 ELSE 0

Using(f) == pc[f] \in {"open", "ioctl", "miwait"} /\ ~hung[f]

\* What leaves port->count wrong: an open that is interrupted or that finds
\* the port removed is closed without having been counted, and one that gets
\* in between the two halves of a hangup has its count reset.
Miscounts == {"signal", "remove", "race"} \cap events # {}

\* What starts the port up without a tty: the resume after a hangup, and an
\* ioctl that began before one.
StartsLate == {"hangup_suspended", "ioctl"} \cap events # {}

\* Nobody's port is shut down under them: a file that is open and not hung
\* up has a running port, a suspended one, or one whose I/O fails with
\* TTY_IO_ERROR.  It holds until the kernel oopses in uart_startup, on a port
\* whose tty a hangup has taken away, which takes an ioctl that began before
\* the hangup.
OpenIsBacked ==
    /\ port.oops => "ioctl" \in events
    /\ ~port.oops =>
          \A f \in Files : Using(f) => port.init \/ port.susp \/ port.ioerr

\* Every such file is counted, so that the last close, and no other one,
\* shuts the port down.
UsersCounted ==
    ~Miscounts => Cardinality({f \in Files : Using(f)}) <= port.count

\* What an open file may count on: a running port behind it, and a count that
\* keeps other closes, hangups and TIOCSSERIAL from shutting it down.
UsersServed == TypeOK /\ OpenIsBacked /\ UsersCounted

\* While the port is started, and while the tasklet is scheduled, there is a
\* tty for the interrupt handler and the tasklet to use; a started port has
\* a transmit buffer.
StartedHasTty ==
    ~StartsLate =>
        /\ port.init => port.tty /\ port.buf
        /\ port.tlet => port.tty

\* A blocked opener gets away from the wait: once the carrier is there to
\* stay, it returns to user space.  Two things are excepted.  If another user
\* sets CLOCAL nobody is woken for it, and CHECK_CD is off when the carrier
\* comes.  And TIOCSSERIAL of a file that was hung up in the meantime shuts
\* the port down under the opener without waking it.
OpenersProceed ==
    "ioctl" \notin events /\ []~port.clocal =>
        \A f \in Files :
            [](pc[f] = "waiting" /\ []carrier => <>(pc[f] # "waiting"))

\* "No further calls will be made to the low-level code for this port": a
\* removed port has been shut down.
RemovedIsDown == ~port.present => port.hw = 0

-----------------------------------------------------------------------------
(* Statements of other comments that the code does not keep either.         *)

\* "port->count should always be one in these conditions": the last user of
\* the tty structure finds itself counted once.
CountIsOne ==
    \A f \in Files :
        pc[f] \in {"open", "failed"} /\ ~hung[f] /\ port.data /\ port.users = 1
            => port.count = 1

\* "we won't end up waiting on delta_msr_wait again": whoever sleeps for a
\* modem line without a wake-up under way sleeps on a started port.
NoWaitAfterShutdown ==
    \A f \in Files : pc[f] = "miwait" /\ ~woken[f] => port.init \/ port.susp

\* "we can guarantee that state->port.tty will always contain something
\* reasonable": nobody starts a port up without a tty.
TtyIsReasonable == ~port.oops

\* "If we have been hung up, tell userspace/restart open": an opener whose
\* file was hung up does not go on waiting for the carrier.
HungOpenersLeave ==
    \A f \in Files :
        pc[f] = "waiting" /\ hung[f] ~> pc[f] # "waiting"
=============================================================================
