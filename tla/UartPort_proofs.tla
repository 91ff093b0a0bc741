--------------------------- MODULE UartPort_proofs ---------------------------
(* For any number of files and any set of events: the low-level driver's    *)
(* startup and shutdown alternate, a started port has its tty and buffer,   *)
(* and no port is shut down under its users.                                *)
EXTENDS UartPort, FiniteSetTheorems, TLAPS

\* The shape of port; its counts are bounded by TypeOK of the runs.
PortShape ==
    [count : Int, blocked : Int, init : BOOLEAN, active : BOOLEAN,
     susp : BOOLEAN, check_cd : BOOLEAN, tty : BOOLEAN, buf : BOOLEAN,
     known : BOOLEAN, suspended : BOOLEAN, dead : BOOLEAN, present : BOOLEAN,
     tlet : BOOLEAN, hw : Int, users : Int, ioerr : BOOLEAN, data : BOOLEAN,
     clocal : BOOLEAN, oops : BOOLEAN]

\* StartedOnce of a port s, and what makes it inductive: a suspended port is
\* not initialised, so that a resume may start it, and only a suspended port
\* is marked ASYNC_SUSPENDED.
Started(s) ==
    /\ s \in PortShape
    /\ s.hw = IF s.init THEN 1 ELSE 0
    /\ s.suspended => ~s.init
    /\ s.susp => s.suspended

-----------------------------------------------------------------------------

\* The counters say nothing about the driver.
LEMMA Counters ==
    ASSUME NEW s, Started(s), NEW n \in Int
    PROVE  /\ Started([s EXCEPT !.count = n])
           /\ Started([s EXCEPT !.blocked = n])
           /\ Started([s EXCEPT !.users = n])
  <1>1. Started([s EXCEPT !.count = n])
    BY DEF Started, PortShape
  <1>2. Started([s EXCEPT !.blocked = n])
    BY DEF Started, PortShape
  <1>3. Started([s EXCEPT !.users = n])
    BY DEF Started, PortShape
  <1> QED BY <1>1, <1>2, <1>3

\* uart_change_speed touches one flag.
LEMMA ChangeSpeedStarted ==
    ASSUME NEW s, Started(s)
    PROVE  /\ Started(uart_change_speed(s))
           /\ uart_change_speed(s).suspended = s.suspended
  BY DEF Started, uart_change_speed, PortShape

\* uart_shutdown leaves a port that is not started.
LEMMA ShutdownStarted ==
    ASSUME NEW s, Started(s)
    PROVE  /\ Started(uart_shutdown(s))
           /\ ~uart_shutdown(s).init
           /\ uart_shutdown(s).suspended = s.suspended
  <1> DEFINE h == IF s.init THEN s.hw - 1 ELSE s.hw
             i == s.ioerr \/ s.tty
             r == [s EXCEPT !.ioerr = i, !.hw = h,
                            !.init = FALSE, !.tlet = FALSE, !.buf = FALSE]
  <1>1. h = 0
    BY DEF Started, PortShape
  <1>2. uart_shutdown(s) = r
    BY DEF uart_shutdown, Started, PortShape
  <1>a. i \in BOOLEAN
    OBVIOUS
  <1> HIDE DEF h, i
  <1>3. r \in PortShape
    <2>1. s \in PortShape /\ h \in Int
      BY <1>1 DEF Started
    <2>2. [s EXCEPT !.ioerr = i, !.hw = h] \in PortShape
      BY <2>1, <1>a DEF PortShape
    <2> QED BY <2>2 DEF PortShape
  <1>4. r.init = FALSE /\ r.hw = 0 /\ r.susp = s.susp /\ r.suspended = s.suspended
    BY <1>1 DEF Started, PortShape
  <1> HIDE DEF r
  <1> QED BY <1>2, <1>3, <1>4 DEF Started

\* uart_startup, on a port that is not suspended, starts it at most once.
LEMMA StartupStarted ==
    ASSUME NEW s, Started(s), ~s.suspended,
           NEW init_hw \in BOOLEAN, NEW page \in BOOLEAN,
           NEW hwok \in BOOLEAN, NEW admin \in BOOLEAN
    PROVE  LET r == uart_startup(s, init_hw, page, hwok, admin)
           IN /\ Started(r.s)
              /\ r.err \in BOOLEAN
              /\ ~r.s.suspended
  <1> DEFINE a == [s EXCEPT !.ioerr = TRUE, !.oops = @ \/ ~s.tty]
             b == [a EXCEPT !.buf = TRUE]
             c == [b EXCEPT !.hw = @ + 1]
             d == IF init_hw THEN uart_change_speed(c) ELSE c
             e == [d EXCEPT !.init = TRUE, !.ioerr = FALSE]
             r == uart_startup(s, init_hw, page, hwok, admin)
  <1>1. Started(a) /\ ~a.suspended
    BY DEF Started, PortShape
  <1>2. Started(b) /\ b.init = s.init /\ ~b.suspended
    BY DEF Started, PortShape
  <1>3. /\ c \in PortShape /\ c.hw = b.hw + 1 /\ c.susp = b.susp
        /\ ~c.suspended
    <2> HIDE DEF b
    <2> QED BY <1>2 DEF Started, PortShape
  <1>4. d \in PortShape /\ d.hw = c.hw /\ d.susp = c.susp /\ ~d.suspended
    <2> HIDE DEF c
    <2> QED BY <1>3 DEF uart_change_speed, PortShape
  <1>5. ~s.init => Started(e) /\ ~e.suspended
    <2> HIDE DEF b, c, d
    <2>1. ~s.init => d.hw = 1 /\ ~d.susp
      BY <1>2, <1>3, <1>4 DEF Started, PortShape
    <2>2. e \in PortShape /\ e.init = TRUE /\ e.hw = d.hw /\ e.susp = d.susp
          /\ e.suspended = d.suspended
      BY <1>4 DEF PortShape
    <2> HIDE DEF e
    <2> QED BY <1>4, <2>1, <2>2 DEF Started
  <1>6. r = IF s.init THEN [s |-> s, err |-> FALSE]
            ELSE IF ~s.known THEN [s |-> a, err |-> FALSE]
            ELSE IF ~s.buf /\ ~page THEN [s |-> a, err |-> TRUE]
            ELSE IF hwok THEN [s |-> e, err |-> FALSE]
            ELSE [s |-> b, err |-> ~admin]
    BY DEF uart_startup
  <1> HIDE DEF a, b, c, d, e
  <1>7. CASE s.init
    BY <1>6, <1>7 DEF r
  <1>8. CASE ~s.init /\ ~s.known
    BY <1>1, <1>6, <1>8 DEF r
  <1>11. CASE ~s.init /\ s.known /\ ~s.buf /\ ~page
    BY <1>1, <1>6, <1>11 DEF r
  <1>9. CASE ~s.init /\ s.known /\ (s.buf \/ page) /\ hwok
    BY <1>5, <1>6, <1>9 DEF r
  <1>10. CASE ~s.init /\ s.known /\ (s.buf \/ page) /\ ~hwok
    <2>1. r = [s |-> b, err |-> ~admin]
      BY <1>6, <1>10
    <2>2. r.s = b /\ r.err = ~admin
      BY <2>1
    <2> QED BY <1>2, <2>2 DEF r
  <1> QED BY <1>7, <1>8, <1>9, <1>10, <1>11 DEF r

\* What the end of an open makes of a started port.
LEMMA FinishStarted ==
    ASSUME NEW f, NEW s, Started(s), ~s.suspended, FinishOpen(f, s)
    PROVE  Started(port') /\ ~port'.suspended
  <1> DEFINE t == [s EXCEPT !.active = TRUE]
  <1>1. Started(t) /\ ~t.suspended
    BY DEF Started, PortShape
  <1> HIDE DEF t
  <1>2. Started(uart_update_termios(t)) /\ ~uart_update_termios(t).suspended
    BY <1>1, ChangeSpeedStarted DEF uart_update_termios
  <1> QED BY <1>2 DEF FinishOpen, t

-----------------------------------------------------------------------------

\* Each operation keeps the port started at most once.
LEMMA OpenStarted ==
    ASSUME Started(port), NEW f \in Files, NEW page \in BOOLEAN,
           NEW hwok \in BOOLEAN, NEW admin \in BOOLEAN,
           uart_open(f, page, hwok, admin)
    PROVE  Started(port')
  <1> DEFINE a == [port EXCEPT !.data = TRUE, !.tty = TRUE]
             b == [a EXCEPT !.count = @ + 1]
             up == uart_startup(b, FALSE, page, hwok, admin)
  <1>0. port \in PortShape /\ ~port.suspended
    BY DEF uart_open, Thawed, Started
  <1>1. Started(a) /\ Started(b) /\ ~b.suspended
    <2>2. Started(a)
      BY DEF Started, PortShape
    <2>3. a.count + 1 \in Int /\ ~a.suspended
      BY <1>0 DEF PortShape
    <2> HIDE DEF a
    <2>4. Started(b)
      BY <2>2, <2>3, Counters
    <2> QED BY <2>2, <2>3, <2>4 DEF Started, PortShape
  <1> HIDE DEF b
  <1>2. Started(up.s) /\ ~up.s.suspended
    BY <1>1, StartupStarted
  <1> HIDE DEF up
  <1>3. Started([up.s EXCEPT !.count = @ - 1, !.blocked = @ + 1])
    <2> DEFINE t == [up.s EXCEPT !.count = up.s.count - 1]
    <2>1. up.s.count - 1 \in Int /\ up.s.blocked + 1 \in Int
      BY <1>2 DEF Started, PortShape
    <2>2. Started(t)
      BY <1>2, <2>1, Counters
    <2>3. Started([t EXCEPT !.blocked = up.s.blocked + 1])
      <3> HIDE DEF t
      <3> QED BY <2>1, <2>2, Counters
    <2>4. [up.s EXCEPT !.count = @ - 1, !.blocked = @ + 1]
            = [t EXCEPT !.blocked = up.s.blocked + 1]
      BY <1>2 DEF Started, PortShape
    <2> QED BY <2>3, <2>4
  <1>4. \/ port' = a \/ port' = up.s \/ FinishOpen(f, up.s)
        \/ port' = [up.s EXCEPT !.count = @ - 1, !.blocked = @ + 1]
    BY DEF uart_open, a, b, up
  <1> QED BY <1>1, <1>2, <1>3, <1>4, FinishStarted

\* Waiting for the carrier starts and stops nothing.
LEMMA BlockStarted ==
    ASSUME Started(port), NEW f \in Files, NEW signal \in BOOLEAN,
           uart_block_til_ready(f, signal)
    PROVE  Started(port')
  <1> DEFINE s == [port EXCEPT !.count = @ + 1, !.blocked = @ - 1]
  <1>0. port \in PortShape /\ ~port.suspended
    BY DEF uart_block_til_ready, Thawed, Started
  <1>1. Started(s) /\ ~s.suspended
    <2> DEFINE t == [port EXCEPT !.count = port.count + 1]
    <2>1. port.count + 1 \in Int /\ port.blocked - 1 \in Int
      BY <1>0 DEF PortShape
    <2>2. Started(t)
      BY <2>1, Counters
    <2>3. Started([t EXCEPT !.blocked = port.blocked - 1])
      <3> HIDE DEF t
      <3> QED BY <2>1, <2>2, Counters
    <2>4. s = [t EXCEPT !.blocked = port.blocked - 1]
      BY <1>0 DEF PortShape
    <2>5. ~s.suspended
      BY <1>0 DEF PortShape
    <2> QED BY <2>3, <2>4, <2>5
  <1>2. port' = s \/ FinishOpen(f, s) \/ port' = port
    BY DEF uart_block_til_ready
  <1> HIDE DEF s
  <1> QED BY <1>1, <1>2, FinishStarted

\* A close shuts the port down once, or not at all.
LEMMA CloseStarted ==
    ASSUME Started(port), NEW f \in Files, uart_close(f)
    PROVE  Started(port')
  <1> DEFINE b == [port EXCEPT !.count = 0]
             s == uart_shutdown(b)
  <1>1. CloseCount \in Int /\ Started(b) /\ Started([port EXCEPT !.count = CloseCount])
    BY DEF Started, PortShape, CloseCount
  <1> HIDE DEF b
  <1>2. Started(s)
    BY <1>1, ShutdownStarted
  <1> HIDE DEF s
  <1>3. Started([s EXCEPT !.tty = FALSE, !.active = FALSE])
    BY <1>2 DEF Started, PortShape
  <1>4. \/ port' = port \/ port' = [port EXCEPT !.count = CloseCount]
        \/ port' = [s EXCEPT !.tty = FALSE, !.active = FALSE]
    BY DEF uart_close, s, b
  <1> QED BY <1>1, <1>3, <1>4

\* A hangup shuts the port down once, or not at all.
LEMMA HangupStarted ==
    ASSUME Started(port), uart_hangup
    PROVE  Started(port')
  <1> DEFINE s == uart_shutdown(port)
  <1>1. Started(s)
    BY ShutdownStarted
  <1> HIDE DEF s
  <1>2. Started([s EXCEPT !.count = 0, !.active = FALSE, !.tty = FALSE])
    <2> DEFINE t == [s EXCEPT !.count = 0]
    <2>1. Started(t)
      BY <1>1 DEF Started, PortShape
    <2> HIDE DEF t
    <2>2. Started([t EXCEPT !.active = FALSE, !.tty = FALSE])
      BY <2>1 DEF Started, PortShape
    <2> QED BY <2>2 DEF t
  <1> QED BY <1>2 DEF uart_hangup, s

\* A resume starts a port that its suspend has shut down.
LEMMA ResumeStarted ==
    ASSUME Started(port), NEW hwok \in BOOLEAN, uart_resume_port(hwok)
    PROVE  Started(port')
  <1> DEFINE s == [port EXCEPT !.suspended = FALSE, !.susp = FALSE]
             u == [s EXCEPT !.hw = @ + 1, !.init = TRUE]
  <1>1. Started(s) /\ s.init = port.init /\ s.hw = port.hw
    BY DEF Started, PortShape
  <1>2. port.hw = 0
    BY DEF uart_resume_port, Started, PortShape
  <1>3. Started(u)
    <2> HIDE DEF s
    <2>1. u \in PortShape /\ u.hw = 1 /\ u.init = TRUE /\ u.susp = s.susp
          /\ u.suspended = s.suspended
      <3>1. s \in PortShape /\ s.hw = 0
        BY <1>1, <1>2 DEF Started
      <3>2. u = [s EXCEPT !.hw = 1, !.init = TRUE]
        BY <3>1
      <3> HIDE DEF u
      <3>3. [s EXCEPT !.hw = 1] \in PortShape
        BY <3>1 DEF PortShape
      <3>4. u \in PortShape
        BY <3>2, <3>3 DEF PortShape
      <3> QED BY <3>1, <3>2, <3>4 DEF PortShape
    <2>2. ~s.suspended /\ ~s.susp
      BY DEF s, Started, PortShape
    <2> HIDE DEF u
    <2> QED BY <2>1, <2>2 DEF Started
  <1>4. \/ port' = s \/ port' = uart_change_speed(u)
        \/ port' = uart_shutdown(s)
    BY DEF uart_resume_port
  <1> HIDE DEF s, u
  <1> QED BY <1>1, <1>3, <1>4, ChangeSpeedStarted, ShutdownStarted

\* TIOCSSERIAL shuts the port down before it starts it again.
LEMMA SetInfoStarted ==
    ASSUME Started(port), NEW f \in Files, NEW what \in Change,
           NEW page \in BOOLEAN, NEW hwok \in BOOLEAN,
           uart_set_info(f, what, page, hwok)
    PROVE  Started(port')
  <1> DEFINE down == uart_shutdown(port)
             s == CASE what = "keep" -> port
                    [] what = "speed" ->
                         IF port.init THEN uart_change_speed(port) ELSE port
                    [] what \in {"irq", "restored"} -> down
                    [] what = "port" -> [down EXCEPT !.known = TRUE]
                    [] what \in {"unknown", "lost"} ->
                         [down EXCEPT !.known = FALSE]
             up == uart_startup(s, TRUE, page, hwok, TRUE)
  <1>1. ~port.suspended
    BY DEF uart_set_info, Thawed
  <1>2. /\ Started(down) /\ ~down.suspended
        /\ Started(uart_change_speed(port)) /\ ~uart_change_speed(port).suspended
    BY <1>1, ShutdownStarted, ChangeSpeedStarted
  <1>3. \A k \in BOOLEAN : /\ Started([down EXCEPT !.known = k])
                           /\ ~[down EXCEPT !.known = k].suspended
    <2> HIDE DEF down
    <2> QED BY <1>2 DEF Started, PortShape
  <1>4. Started(s) /\ ~s.suspended
    <2> HIDE DEF down
    <2> QED BY <1>1, <1>2, <1>3 DEF Change
  <1>5. port' = port \/ port' = up.s \/ port' = s
    BY DEF uart_set_info
  <1> HIDE DEF s
  <1>6. Started(up.s)
    BY <1>4, StartupStarted
  <1> HIDE DEF up
  <1> QED BY <1>4, <1>5, <1>6

\* So does TIOCSERCONFIG.
LEMMA AutoconfigStarted ==
    ASSUME Started(port), NEW f \in Files, NEW found \in BOOLEAN,
           NEW page \in BOOLEAN, NEW hwok \in BOOLEAN,
           uart_do_autoconfig(f, found, page, hwok)
    PROVE  Started(port')
  <1> DEFINE down == uart_shutdown(port)
             s == [down EXCEPT !.known = found]
             up == uart_startup(s, TRUE, page, hwok, TRUE)
  <1>1. Started(down) /\ ~down.suspended
    BY ShutdownStarted DEF uart_do_autoconfig, Thawed
  <1>2. port' = port \/ port' = up.s
    BY DEF uart_do_autoconfig
  <1> HIDE DEF down
  <1>3. Started(s) /\ ~s.suspended
    BY <1>1 DEF Started, PortShape
  <1> HIDE DEF s
  <1>4. Started(up.s)
    BY <1>3, StartupStarted
  <1> HIDE DEF up
  <1> QED BY <1>2, <1>4

\* New termios start and stop nothing.
LEMMA TermiosStarted ==
    ASSUME Started(port), NEW f \in Files, uart_set_termios(f)
    PROVE  Started(port')
  <1> DEFINE s == [port EXCEPT !.clocal = ~port.clocal]
  <1>1. Started(s)
    BY DEF Started, PortShape
  <1>2. port' = uart_change_speed(s)
    BY DEF uart_set_termios, Started, PortShape
  <1> HIDE DEF s
  <1> QED BY <1>1, <1>2, ChangeSpeedStarted

-----------------------------------------------------------------------------

\* Every step keeps the inductive invariant.
LEMMA StartedStep ==
    ASSUME Started(port), [Next]_vars
    PROVE  Started(port')
  <1>1. CASE UNCHANGED vars
    BY <1>1 DEF vars
  <1>2. ASSUME NEW f \in Files, NEW nb \in BOOLEAN, tty_open(f, nb)
        PROVE  Started(port')
    <2> DEFINE n == port.users + 1
               e == IF port.users = 0 THEN FALSE ELSE port.ioerr
    <2>1. port' = [port EXCEPT !.users = n, !.ioerr = e]
      BY <1>2 DEF tty_open, Started, PortShape
    <2>2. n \in Int /\ port.ioerr \in BOOLEAN
      BY DEF Started, PortShape
    <2>a. e \in BOOLEAN
      BY <2>2, Zenon
    <2> HIDE DEF n, e
    <2>3. Started([port EXCEPT !.users = n])
      BY <2>2, Counters
    <2> DEFINE t == [port EXCEPT !.users = n]
    <2>4. port' = [t EXCEPT !.ioerr = e]
      BY <2>1
    <2>5. Started(t)
      BY <2>3
    <2> HIDE DEF t
    <2> QED BY <2>a, <2>5, <2>4 DEF Started, PortShape
  <1>3. ASSUME NEW f \in Files,
               \/ OpenFails(f) \/ BeginIoctl(f) \/ BeginMiwait(f)
               \/ \E changed \in BOOLEAN : uart_wait_modem_status(f, changed)
        PROVE  Started(port')
    BY <1>3 DEF OpenFails, BeginIoctl, BeginMiwait, uart_wait_modem_status
  <1>4. ASSUME NEW f \in Files, tty_release(f)
        PROVE  Started(port')
    <2> DEFINE n == port.users - 1
               e == IF port.users = 1 THEN FALSE ELSE port.data
    <2>1. port' = [port EXCEPT !.users = n, !.data = e]
      BY <1>4 DEF tty_release, Started, PortShape
    <2>2. n \in Int /\ port.data \in BOOLEAN
      BY DEF Started, PortShape
    <2>a. e \in BOOLEAN
      BY <2>2, Zenon
    <2> HIDE DEF n, e
    <2>3. Started([port EXCEPT !.users = n])
      BY <2>2, Counters
    <2> DEFINE t == [port EXCEPT !.users = n]
    <2>4. port' = [t EXCEPT !.data = e]
      BY <2>1
    <2>5. Started(t)
      BY <2>3
    <2> HIDE DEF t
    <2> QED BY <2>a, <2>5, <2>4 DEF Started, PortShape
  <1>5. CASE do_tty_hangup \/ CarrierChange \/ RemoveHangup
    BY <1>5 DEF do_tty_hangup, CarrierChange, RemoveHangup
  <1>6. CASE uart_suspend_port
    <2> DEFINE h == IF port.init THEN port.hw - 1 ELSE port.hw
               u == port.susp \/ port.init
               s == [port EXCEPT !.suspended = TRUE, !.susp = u, !.hw = h,
                                 !.init = FALSE]
    <2>1. port' = s
      BY <1>6 DEF uart_suspend_port, Started, PortShape
    <2>2. h = 0 /\ u \in BOOLEAN
      BY DEF Started, PortShape
    <2> HIDE DEF h, u
    <2>3. s \in PortShape
      <3>1. port \in PortShape /\ h \in Int
        BY <2>2 DEF Started
      <3>2. [port EXCEPT !.suspended = TRUE, !.susp = u] \in PortShape
        BY <2>2, <3>1 DEF PortShape
      <3> QED BY <3>1, <3>2 DEF PortShape
    <2>4. s.hw = 0 /\ s.init = FALSE /\ s.suspended = TRUE
      BY <2>2 DEF Started, PortShape
    <2> HIDE DEF s
    <2> QED BY <2>1, <2>3, <2>4 DEF Started
  <1>7. CASE TransmitIrq \/ uart_tasklet_action
    BY <1>7 DEF TransmitIrq, uart_tasklet_action, Started, PortShape
  <1>8. CASE RemoveMark \/ uart_remove_one_port
    BY <1>8 DEF RemoveMark, uart_remove_one_port, Started, PortShape
  <1>9. ASSUME NEW found \in BOOLEAN, uart_add_one_port(found)
        PROVE  Started(port')
    BY <1>9 DEF uart_add_one_port, Started, PortShape
  <1> QED
    BY <1>1, <1>2, <1>3, <1>4, <1>5, <1>6, <1>7, <1>8, <1>9, OpenStarted,
       BlockStarted, CloseStarted, HangupStarted, ResumeStarted,
       SetInfoStarted, AutoconfigStarted, TermiosStarted
    DEF Next

\* The low-level driver's startup and shutdown alternate, whatever open,
\* close, hangup, ioctl, suspend, resume and removal do in between.
THEOREM StartsOnce == Spec => []StartedOnce
  <1>1. Init => Started(port)
    BY DEF Init, Started, PortShape
  <1>2. Started(port) /\ [Next]_vars => Started(port)'
    BY StartedStep DEF Started
  <1>3. Started(port) => StartedOnce
    BY DEF Started, StartedOnce
  <1> QED BY <1>1, <1>2, <1>3, PTL DEF Spec

-----------------------------------------------------------------------------
(* What the operations do to the fields of the port.                        *)

KeepCounts(t, s) == t.count = s.count /\ t.blocked = s.blocked /\ t.users = s.users
KeepIds(t, s) == t.dead = s.dead /\ t.present = s.present /\ t.data = s.data
KeepPower(t, s) == t.suspended = s.suspended /\ t.susp = s.susp
KeepErr(t, s) == t.ioerr = s.ioerr /\ t.oops = s.oops
KeepRun(t, s) == t.init = s.init /\ t.tty = s.tty /\ t.buf = s.buf /\ t.tlet = s.tlet

KeepAll(t, s) ==
    KeepCounts(t, s) /\ KeepIds(t, s) /\ KeepPower(t, s) /\ KeepErr(t, s) /\ KeepRun(t, s)

\* The shape of the port survives uart_change_speed.
LEMMA ChangeSpeedShape ==
    ASSUME NEW s \in PortShape
    PROVE  uart_change_speed(s) \in PortShape
  <1> DEFINE k == ~s.clocal
  <1>1. k \in BOOLEAN
    OBVIOUS
  <1> HIDE DEF k
  <1>2. [s EXCEPT !.check_cd = k] \in PortShape
    BY <1>1 DEF PortShape
  <1> QED BY <1>2 DEF uart_change_speed, k

\* uart_change_speed sets ASYNC_CHECK_CD and no other field.
LEMMA ChangeSpeedFields ==
    ASSUME NEW s \in PortShape
    PROVE  KeepAll(uart_change_speed(s), s)
  BY DEF uart_change_speed, PortShape, KeepAll, KeepCounts, KeepIds, KeepPower, KeepErr, KeepRun

\* uart_shutdown leaves TTY_IO_ERROR set if there is a tty to set it on.
LEMMA ShutdownFields ==
    ASSUME NEW s \in PortShape
    PROVE  LET t == uart_shutdown(s)
           IN /\ KeepCounts(t, s) /\ KeepIds(t, s) /\ KeepPower(t, s)
              /\ t.tty = s.tty /\ t.oops = s.oops
              /\ t.init = FALSE /\ t.buf = FALSE /\ t.tlet = FALSE
              /\ t.ioerr = (s.ioerr \/ s.tty)
  BY DEF uart_shutdown, PortShape, KeepCounts, KeepIds, KeepPower

\* uart_startup starts the port, or sets TTY_IO_ERROR; without a tty either
\* is an oops.
LEMMA StartupFields ==
    ASSUME NEW s \in PortShape,
           NEW init_hw \in BOOLEAN, NEW page \in BOOLEAN,
           NEW hwok \in BOOLEAN, NEW admin \in BOOLEAN,
           NEW t, t = uart_startup(s, init_hw, page, hwok, admin).s
    PROVE  /\ KeepCounts(t, s) /\ KeepIds(t, s) /\ KeepPower(t, s)
           /\ t.tty = s.tty /\ t.tlet = s.tlet
           /\ s.init => KeepErr(t, s) /\ KeepRun(t, s)
           /\ ~s.init => /\ t.oops = (s.oops \/ ~s.tty)
                         /\ t.ioerr = ~t.init
                         /\ t.init => t.buf
  <1> DEFINE o == s.oops \/ ~s.tty
             a == [s EXCEPT !.ioerr = TRUE, !.oops = o]
             b == [a EXCEPT !.buf = TRUE]
             n == b.hw + 1
             c == [b EXCEPT !.hw = n]
             d == IF init_hw THEN uart_change_speed(c) ELSE c
             e == [d EXCEPT !.init = TRUE, !.ioerr = FALSE]
             Kept(x) == /\ KeepCounts(x, s) /\ KeepIds(x, s) /\ KeepPower(x, s)
                        /\ x.tty = s.tty /\ x.tlet = s.tlet /\ x.oops = o
  <1>0. o \in BOOLEAN
    OBVIOUS
  <1> HIDE DEF o
  <1>1. a \in PortShape /\ Kept(a) /\ a.ioerr = TRUE /\ a.init = s.init
    BY <1>0 DEF PortShape, KeepCounts, KeepIds, KeepPower
  <1> HIDE DEF a
  <1>2. b \in PortShape /\ Kept(b) /\ b.ioerr = TRUE /\ b.init = s.init /\ b.buf = TRUE
    BY <1>1 DEF PortShape, KeepCounts, KeepIds, KeepPower
  <1>3. n \in Int
    BY <1>2 DEF PortShape
  <1> HIDE DEF b, n
  <1>4. c \in PortShape /\ Kept(c) /\ c.buf = TRUE
    BY <1>2, <1>3 DEF PortShape, KeepCounts, KeepIds, KeepPower
  <1> HIDE DEF c
  <1>5. d \in PortShape /\ Kept(d) /\ d.buf = TRUE
    <2>1. uart_change_speed(c) \in PortShape
      BY <1>4, ChangeSpeedShape
    <2>2. KeepAll(uart_change_speed(c), c)
      BY <1>4, ChangeSpeedFields
    <2> DEFINE w == uart_change_speed(c)
    <2>3. Kept(w) /\ w.buf = TRUE
      <3> HIDE DEF w
      <3>1. KeepAll(w, c)
        BY <2>2 DEF w
      <3> QED BY <3>1, <1>4 DEF KeepAll, KeepCounts, KeepIds, KeepPower, KeepErr, KeepRun
    <2> HIDE DEF w
    <2> QED BY <2>1, <2>3, <1>4, Zenon DEF w
  <1> HIDE DEF d
  <1>6. Kept(e) /\ e.init = TRUE /\ e.ioerr = FALSE /\ e.buf = TRUE
    BY <1>5 DEF PortShape, KeepCounts, KeepIds, KeepPower
  <1> HIDE DEF e
  <1>7. t = IF s.init THEN s
            ELSE IF ~s.known THEN a
            ELSE IF ~s.buf /\ ~page THEN a
            ELSE IF hwok THEN e ELSE b
    BY DEF uart_startup, a, b, c, d, e, n, o
  <1>8. CASE s.init
    <2>1. t = s
      BY <1>7, <1>8
    <2> QED BY <2>1, <1>8 DEF KeepCounts, KeepIds, KeepPower, KeepErr, KeepRun
  <1>9. CASE ~s.init
    <2>1. t = a \/ t = e \/ t = b
      BY <1>7, <1>9
    <2>2. Kept(t) /\ t.ioerr = ~t.init /\ (t.init => t.buf)
      BY <2>1, <1>1, <1>2, <1>6, <1>9
    <2> QED BY <2>2, <1>9 DEF o
  <1> QED BY <1>8, <1>9

\* The end of an open changes neither counts nor what runs.
LEMMA FinishFields ==
    ASSUME NEW f \in Files, NEW s \in PortShape, FinishOpen(f, s)
    PROVE  /\ KeepAll(port', s)
           /\ \/ pc' = [pc EXCEPT ![f] = "failed"]
              \/ s.tty /\ ~hung[f] /\ pc' = [pc EXCEPT ![f] = "open"]
  <1> DEFINE t == [s EXCEPT !.active = TRUE]
  <1>1. t \in PortShape /\ KeepAll(t, s)
    BY DEF PortShape, KeepAll, KeepCounts, KeepIds, KeepPower, KeepErr, KeepRun
  <1> HIDE DEF t
  <1>2. KeepAll(uart_change_speed(t), t)
    BY <1>1, ChangeSpeedFields
  <1> DEFINE w == uart_update_termios(t)
  <1>3. w = t \/ w = uart_change_speed(t)
    BY DEF uart_update_termios
  <1> HIDE DEF w
  <1>4. KeepAll(w, t)
    BY <1>2, <1>3 DEF KeepAll, KeepCounts, KeepIds, KeepPower, KeepErr, KeepRun
  <1>5. KeepAll(w, s) /\ KeepAll(s, s)
    BY <1>1, <1>4 DEF KeepAll, KeepCounts, KeepIds, KeepPower, KeepErr, KeepRun
  <1>6. port' = s \/ port' = w
    BY DEF FinishOpen, w, t
  <1>7. KeepAll(port', s)
    BY <1>5, <1>6
  <1>8. \/ pc' = [pc EXCEPT ![f] = "failed"]
        \/ s.tty /\ ~hung[f] /\ pc' = [pc EXCEPT ![f] = "open"]
    BY DEF FinishOpen
  <1> QED BY <1>7, <1>8

\* What uart_startup has made of the port s of an open that was counted, or
\* went on to wait for the carrier.
Opened(t, s) ==
    /\ t.users = s.users /\ t.dead = s.dead /\ t.present = s.present
    /\ KeepPower(t, s)
    /\ t.tty = TRUE /\ t.tlet = s.tlet /\ t.oops = s.oops
    /\ s.init => t.init /\ t.buf = s.buf
    /\ ~s.init => t.ioerr = ~t.init /\ (t.init => t.buf)

\* uart_open finds the file hung up, counts it, or lets it wait.
LEMMA OpenFields ==
    ASSUME Started(port), NEW f \in Files, NEW page \in BOOLEAN,
           NEW hwok \in BOOLEAN, NEW admin \in BOOLEAN,
           uart_open(f, page, hwok, admin)
    PROVE  \/ /\ hung[f] /\ pc' = [pc EXCEPT ![f] = "failed"]
              /\ KeepCounts(port', port) /\ KeepErr(port', port)
              /\ KeepPower(port', port)
              /\ port'.dead = port.dead /\ port'.present = port.present
              /\ port'.tty = TRUE /\ port'.init = port.init
              /\ port'.buf = port.buf /\ port'.tlet = port.tlet
           \/ /\ ~hung[f]
              /\ \/ pc' = [pc EXCEPT ![f] = "failed"]
                 \/ pc' = [pc EXCEPT ![f] = "open"]
              /\ Opened(port', port)
              /\ port'.count = port.count + 1 /\ port'.blocked = port.blocked
           \/ /\ ~hung[f] /\ pc' = [pc EXCEPT ![f] = "waiting"]
              /\ Opened(port', port)
              /\ port'.count = port.count /\ port'.blocked = port.blocked + 1
  <1> DEFINE a == [port EXCEPT !.data = TRUE, !.tty = TRUE]
             n == a.count + 1
             b == [a EXCEPT !.count = n]
             up == uart_startup(b, FALSE, page, hwok, admin)
             t == up.s
  <1>0. port \in PortShape
    BY DEF Started
  <1>1. /\ a \in PortShape
        /\ KeepCounts(a, port) /\ KeepErr(a, port) /\ KeepPower(a, port)
        /\ a.dead = port.dead /\ a.present = port.present
        /\ a.tty = TRUE /\ a.init = port.init /\ a.buf = port.buf /\ a.tlet = port.tlet
    BY <1>0 DEF PortShape, KeepCounts, KeepErr, KeepPower
  <1>2. n \in Int /\ n = port.count + 1 /\ a.count \in Int /\ port.count \in Int
    BY <1>0, <1>1 DEF PortShape, KeepCounts
  <1> HIDE DEF n
  <1>3. /\ b \in PortShape /\ b.count = n /\ b.blocked = port.blocked
        /\ b.users = port.users /\ KeepErr(b, port) /\ KeepPower(b, port)
        /\ b.dead = port.dead /\ b.present = port.present
        /\ b.tty = TRUE /\ b.init = port.init /\ b.buf = port.buf /\ b.tlet = port.tlet
    <2> HIDE DEF a
    <2> QED BY <1>1, <1>2 DEF PortShape, KeepCounts, KeepErr, KeepPower
  <1> HIDE DEF b
  <1>4. /\ KeepCounts(t, b) /\ KeepIds(t, b) /\ KeepPower(t, b)
        /\ t.tty = b.tty /\ t.tlet = b.tlet
        /\ b.init => KeepErr(t, b) /\ KeepRun(t, b)
        /\ ~b.init => /\ t.oops = (b.oops \/ ~b.tty)
                      /\ t.ioerr = ~t.init
                      /\ t.init => t.buf
    <2>1. b \in PortShape /\ FALSE \in BOOLEAN
      BY <1>3
    <2>a. PICK no \in BOOLEAN : no = FALSE
      OBVIOUS
    <2>2. PICK z : z = up.s
      OBVIOUS
    <2>b. z = uart_startup(b, no, page, hwok, admin).s
      BY <2>a, <2>2, Zenon
    <2> HIDE DEF up
    <2>3. /\ KeepCounts(z, b) /\ KeepIds(z, b) /\ KeepPower(z, b)
          /\ z.tty = b.tty /\ z.tlet = b.tlet
          /\ b.init => KeepErr(z, b) /\ KeepRun(z, b)
          /\ ~b.init => /\ z.oops = (b.oops \/ ~b.tty)
                        /\ z.ioerr = ~z.init
                        /\ z.init => z.buf
      BY <2>1, <2>b, StartupFields
    <2> QED BY <2>2, <2>3, Zenon
  <1>5. t \in PortShape
    <2>1. Started(a) /\ ~a.suspended
      BY <1>1 DEF Started, KeepPower, uart_open, Thawed, PortShape
    <2>2. Started(b) /\ ~b.suspended
      <3> HIDE DEF a
      <3> QED BY <2>1, <1>2, <1>3, <1>1, Counters DEF b, KeepPower
    <2> QED BY <2>2, StartupStarted DEF Started
  <1>6. b.oops \in BOOLEAN /\ port.init \in BOOLEAN
    BY <1>0, <1>3 DEF PortShape
  <1> HIDE DEF up, t
  <1>7. Opened(t, port) /\ t.count = n /\ t.blocked = port.blocked
    <2>1. t.oops = port.oops
      BY <1>3, <1>4, <1>6 DEF KeepErr
    <2> QED BY <2>1, <1>3, <1>4, <1>6 DEF Opened, KeepCounts, KeepIds, KeepPower, KeepErr, KeepRun
  <1>8. /\ \/ hung[f] /\ port' = a /\ pc' = [pc EXCEPT ![f] = "failed"]
           \/ ~hung[f] /\ port' = t /\ pc' = [pc EXCEPT ![f] = "failed"]
           \/ ~hung[f] /\ FinishOpen(f, t)
           \/ /\ ~hung[f]
              /\ port' = [t EXCEPT !.count = @ - 1, !.blocked = @ + 1]
              /\ pc' = [pc EXCEPT ![f] = "waiting"]
    BY DEF uart_open, a, b, n, up, t
  <1>9. CASE hung[f] /\ port' = a /\ pc' = [pc EXCEPT ![f] = "failed"]
    <2> HIDE DEF a
    <2> QED BY <1>9, <1>1
  <1>10. CASE ~hung[f] /\ port' = t /\ pc' = [pc EXCEPT ![f] = "failed"]
    BY <1>10, <1>7, <1>2
  <1>11. CASE ~hung[f] /\ FinishOpen(f, t)
    <2>1. /\ KeepAll(port', t)
          /\ pc' = [pc EXCEPT ![f] = "failed"] \/ pc' = [pc EXCEPT ![f] = "open"]
      BY <1>5, <1>11, FinishFields
    <2>2. Opened(port', port) /\ port'.count = n /\ port'.blocked = port.blocked
      BY <2>1, <1>7
      DEF Opened, KeepAll, KeepCounts, KeepIds, KeepPower, KeepErr, KeepRun
    <2> QED BY <2>1, <2>2, <1>2, <1>11
  <1>12. CASE /\ ~hung[f]
              /\ port' = [t EXCEPT !.count = @ - 1, !.blocked = @ + 1]
              /\ pc' = [pc EXCEPT ![f] = "waiting"]
    <2> DEFINE m == t.count - 1
               k == t.blocked + 1
               u == [t EXCEPT !.count = m, !.blocked = k]
    <2>1. m = port.count /\ k = port.blocked + 1
      BY <1>2, <1>7
    <2>2. port' = u
      BY <1>12, <1>5
    <2> HIDE DEF m, k
    <2>3. /\ u.count = m /\ u.blocked = k /\ u.users = t.users
          /\ KeepIds(u, t) /\ KeepPower(u, t) /\ KeepErr(u, t) /\ KeepRun(u, t)
      BY <1>5 DEF PortShape, KeepIds, KeepPower, KeepErr, KeepRun
    <2> HIDE DEF u
    <2>4. Opened(u, port)
      BY <2>3, <1>7 DEF Opened, KeepIds, KeepPower, KeepErr, KeepRun
    <2> QED BY <1>12, <2>1, <2>2, <2>3, <2>4
  <1> QED BY <1>8, <1>9, <1>10, <1>11, <1>12

\* A wait for the carrier that ends counts the file again.
LEMMA BlockFields ==
    ASSUME Started(port), NEW f \in Files, NEW signal \in BOOLEAN,
           uart_block_til_ready(f, signal)
    PROVE  \/ port' = port /\ pc' = pc
           \/ /\ port'.count = port.count + 1 /\ port'.blocked = port.blocked - 1
              /\ port'.users = port.users /\ KeepIds(port', port)
              /\ KeepPower(port', port) /\ KeepErr(port', port) /\ KeepRun(port', port)
              /\ \/ pc' = [pc EXCEPT ![f] = "failed"]
                 \/ ~hung[f] /\ port.tty /\ pc' = [pc EXCEPT ![f] = "open"]
  <1> DEFINE n == port.count + 1
             k == port.blocked - 1
             s == [port EXCEPT !.count = n, !.blocked = k]
  <1>0. port \in PortShape /\ n \in Int /\ k \in Int
    BY DEF Started, PortShape
  <1>1. \/ port' = s /\ pc' = [pc EXCEPT ![f] = "failed"]
        \/ FinishOpen(f, s)
        \/ UNCHANGED <<port, pc>>
    BY <1>0 DEF uart_block_til_ready
  <1> HIDE DEF n, k
  <1>2. s \in PortShape
    BY <1>0 DEF PortShape
  <1>3. /\ s.count = n /\ s.blocked = k /\ s.users = port.users
        /\ KeepIds(s, port) /\ KeepPower(s, port) /\ KeepErr(s, port) /\ KeepRun(s, port)
    BY <1>0 DEF PortShape, KeepIds, KeepPower, KeepErr, KeepRun
  <1> HIDE DEF s
  <1>4. CASE FinishOpen(f, s)
    <2>1. /\ KeepAll(port', s)
          /\ \/ pc' = [pc EXCEPT ![f] = "failed"]
             \/ s.tty /\ ~hung[f] /\ pc' = [pc EXCEPT ![f] = "open"]
      BY <1>2, <1>4, FinishFields
    <2> QED BY <2>1, <1>3
            DEF n, k, KeepAll, KeepCounts, KeepIds, KeepPower, KeepErr, KeepRun
  <1>5. CASE port' = s /\ pc' = [pc EXCEPT ![f] = "failed"]
    BY <1>5, <1>3 DEF n, k
  <1> QED BY <1>1, <1>4, <1>5

\* A close uncounts the file, or shuts the port down when nobody is left.
LEMMA CloseFields ==
    ASSUME Started(port), NEW f \in Files, uart_close(f)
    PROVE  /\ port'.blocked = port.blocked /\ port'.users = port.users
           /\ KeepIds(port', port) /\ KeepPower(port', port) /\ port'.oops = port.oops
           /\ \/ /\ ~port.data \/ hung[f]
                 /\ port' = port
              \/ /\ ~hung[f] /\ CloseCount > 0 /\ port'.count = CloseCount
                 /\ KeepErr(port', port) /\ KeepRun(port', port)
              \/ /\ ~hung[f] /\ CloseCount = 0 /\ port'.count = 0
                 /\ ~port'.tty /\ ~port'.init /\ ~port'.buf /\ ~port'.tlet
                 /\ port'.ioerr = (port.ioerr \/ port.tty)
  <1> DEFINE c == CloseCount
             b == [port EXCEPT !.count = 0]
             s == uart_shutdown(b)
             u == [s EXCEPT !.tty = FALSE, !.active = FALSE]
             v == [port EXCEPT !.count = c]
  <1>0. port \in PortShape
    BY DEF Started
  <1>1. \/ (~port.data \/ hung[f]) /\ port' = port
        \/ ~hung[f] /\ c > 0 /\ port' = v
        \/ ~hung[f] /\ c = 0 /\ port' = u
    BY DEF uart_close
  <1>2. b \in PortShape /\ b.count = 0 /\ b.blocked = port.blocked /\ b.users = port.users
        /\ KeepIds(b, port) /\ KeepPower(b, port) /\ KeepErr(b, port) /\ KeepRun(b, port)
    BY <1>0 DEF PortShape, KeepIds, KeepPower, KeepErr, KeepRun
  <1> HIDE DEF b
  <1>3. /\ KeepCounts(s, b) /\ KeepIds(s, b) /\ KeepPower(s, b)
        /\ s.tty = b.tty /\ s.oops = b.oops
        /\ s.init = FALSE /\ s.buf = FALSE /\ s.tlet = FALSE
        /\ s.ioerr = (b.ioerr \/ b.tty)
    BY <1>2, ShutdownFields, Zenon
  <1>4. s \in PortShape
    <2>1. Started(b)
      BY <1>2 DEF b, Started, PortShape
    <2> QED BY <2>1, ShutdownStarted DEF Started
  <1> HIDE DEF s, c
  <1>5. /\ u.count = s.count /\ u.blocked = s.blocked /\ u.users = s.users
        /\ KeepIds(u, s) /\ KeepPower(u, s) /\ KeepErr(u, s)
        /\ u.tty = FALSE /\ u.init = s.init /\ u.buf = s.buf /\ u.tlet = s.tlet
    BY <1>4 DEF PortShape, KeepIds, KeepPower, KeepErr
  <1>6. /\ v.count = c /\ v.blocked = port.blocked /\ v.users = port.users
        /\ KeepIds(v, port) /\ KeepPower(v, port) /\ KeepErr(v, port) /\ KeepRun(v, port)
    BY <1>0 DEF PortShape, KeepIds, KeepPower, KeepErr, KeepRun
  <1> HIDE DEF u, v
  <1>7. CASE ~hung[f] /\ c = 0 /\ port' = u
    BY <1>2, <1>3, <1>5, <1>7 DEF c, KeepCounts, KeepIds, KeepPower, KeepErr, KeepRun
  <1>8. CASE ~hung[f] /\ c > 0 /\ port' = v
    BY <1>6, <1>8 DEF c, KeepErr
  <1>9. CASE (~port.data \/ hung[f]) /\ port' = port
    BY <1>9 DEF KeepIds, KeepPower
  <1> QED BY <1>1, <1>7, <1>8, <1>9

\* A hangup of an active port shuts it down and takes its tty away.
LEMMA HangupFields ==
    ASSUME Started(port), uart_hangup
    PROVE  \/ port' = port
           \/ /\ port'.count = 0 /\ port'.blocked = port.blocked
              /\ port'.users = port.users
              /\ KeepIds(port', port) /\ KeepPower(port', port)
              /\ ~port'.tty /\ ~port'.init /\ ~port'.buf /\ ~port'.tlet
              /\ port'.oops = port.oops /\ port'.ioerr = (port.ioerr \/ port.tty)
  <1> DEFINE s == uart_shutdown(port)
             u == [s EXCEPT !.count = 0, !.active = FALSE, !.tty = FALSE]
  <1>0. port \in PortShape
    BY DEF Started
  <1>1. port' = port \/ port' = u
    BY DEF uart_hangup
  <1>2. /\ KeepCounts(s, port) /\ KeepIds(s, port) /\ KeepPower(s, port)
        /\ s.tty = port.tty /\ s.oops = port.oops
        /\ s.init = FALSE /\ s.buf = FALSE /\ s.tlet = FALSE
        /\ s.ioerr = (port.ioerr \/ port.tty)
    BY <1>0, ShutdownFields, Zenon
  <1>3. s \in PortShape
    BY ShutdownStarted DEF Started
  <1> HIDE DEF s
  <1>4. /\ u.count = 0 /\ u.blocked = s.blocked /\ u.users = s.users
        /\ KeepIds(u, s) /\ KeepPower(u, s) /\ KeepErr(u, s)
        /\ u.tty = FALSE /\ u.init = s.init /\ u.buf = s.buf /\ u.tlet = s.tlet
    BY <1>3 DEF PortShape, KeepIds, KeepPower, KeepErr
  <1> HIDE DEF u
  <1> QED BY <1>1, <1>2, <1>4 DEF KeepCounts, KeepIds, KeepPower, KeepErr

\* A suspend turns a running port into a suspended one.
LEMMA SuspendFields ==
    ASSUME Started(port), uart_suspend_port
    PROVE  /\ KeepCounts(port', port) /\ KeepIds(port', port) /\ KeepErr(port', port)
           /\ port'.suspended = TRUE /\ port'.init = FALSE
           /\ port'.susp = (port.susp \/ port.init)
           /\ port'.tty = port.tty /\ port'.buf = port.buf /\ port'.tlet = port.tlet
  <1> DEFINE h == IF port.init THEN port.hw - 1 ELSE port.hw
             u == port.susp \/ port.init
             s == [port EXCEPT !.suspended = TRUE, !.susp = u, !.hw = h,
                               !.init = FALSE]
  <1>1. port' = s /\ port \in PortShape
    BY DEF uart_suspend_port, Started, PortShape
  <1> HIDE DEF h, u
  <1> QED BY <1>1 DEF u, PortShape, KeepCounts, KeepIds, KeepErr

\* A resume starts the port again, or shuts it down.
LEMMA ResumeFields ==
    ASSUME Started(port), NEW hwok \in BOOLEAN, uart_resume_port(hwok)
    PROVE  /\ KeepCounts(port', port) /\ KeepIds(port', port)
           /\ port'.suspended = FALSE /\ port'.susp = FALSE
           /\ port'.tty = port.tty /\ port'.oops = port.oops
           /\ \/ /\ ~port.susp /\ port'.init = port.init /\ port'.buf = port.buf
                 /\ port'.tlet = port.tlet /\ port'.ioerr = port.ioerr
              \/ /\ port.susp /\ port'.init /\ port'.buf = port.buf
                 /\ port'.tlet = port.tlet /\ port'.ioerr = port.ioerr
              \/ /\ ~port'.init /\ ~port'.buf /\ ~port'.tlet
                 /\ port'.ioerr = (port.ioerr \/ port.tty)
  <1> DEFINE s == [port EXCEPT !.suspended = FALSE, !.susp = FALSE]
             n == s.hw + 1
             u == [s EXCEPT !.hw = n, !.init = TRUE]
             w == uart_change_speed(u)
             d == uart_shutdown(s)
  <1>0. port \in PortShape
    BY DEF Started
  <1>1. \/ ~port.susp /\ port' = s
        \/ port.susp /\ port' = w
        \/ port' = d
    BY DEF uart_resume_port
  <1>2. /\ s \in PortShape
        /\ KeepCounts(s, port) /\ KeepIds(s, port) /\ KeepErr(s, port) /\ KeepRun(s, port)
        /\ s.suspended = FALSE /\ s.susp = FALSE
    BY <1>0 DEF PortShape, KeepCounts, KeepIds, KeepErr, KeepRun
  <1> HIDE DEF s
  <1>3. n \in Int
    BY <1>2 DEF PortShape
  <1> HIDE DEF n
  <1>4. /\ u \in PortShape
        /\ KeepCounts(u, s) /\ KeepIds(u, s) /\ KeepErr(u, s) /\ KeepPower(u, s)
        /\ u.init = TRUE /\ u.tty = s.tty /\ u.buf = s.buf /\ u.tlet = s.tlet
    <2> DEFINE a == [s EXCEPT !.hw = n]
    <2>1. a \in PortShape
      BY <1>2, <1>3 DEF PortShape
    <2>2. KeepCounts(a, s) /\ KeepIds(a, s) /\ KeepErr(a, s) /\ KeepPower(a, s) /\ KeepRun(a, s)
      BY <1>2 DEF PortShape, KeepCounts, KeepIds, KeepErr, KeepPower, KeepRun
    <2>3. u = [a EXCEPT !.init = TRUE]
      OBVIOUS
    <2> HIDE DEF a, u
    <2>4. u \in PortShape
      BY <2>1, <2>3 DEF PortShape
    <2> QED BY <2>1, <2>2, <2>3, <2>4
            DEF PortShape, KeepCounts, KeepIds, KeepErr, KeepPower, KeepRun
  <1> HIDE DEF u
  <1>5. KeepAll(w, u)
    BY <1>4, ChangeSpeedFields
  <1>6. /\ KeepCounts(d, s) /\ KeepIds(d, s) /\ KeepPower(d, s)
        /\ d.tty = s.tty /\ d.oops = s.oops
        /\ d.init = FALSE /\ d.buf = FALSE /\ d.tlet = FALSE
        /\ d.ioerr = (s.ioerr \/ s.tty)
    BY <1>2, ShutdownFields, Zenon
  <1> HIDE DEF w, d
  <1>7. CASE ~port.susp /\ port' = s
    BY <1>7, <1>2 DEF KeepErr, KeepRun
  <1>8. CASE port.susp /\ port' = w
    BY <1>8, <1>2, <1>4, <1>5 DEF KeepAll, KeepCounts, KeepIds, KeepPower, KeepErr, KeepRun
  <1>9. CASE port' = d
    BY <1>9, <1>2, <1>6 DEF KeepCounts, KeepIds, KeepPower, KeepErr, KeepRun
  <1> QED BY <1>1, <1>7, <1>8, <1>9

\* A port that an open file can use: I/O fails, or there is a tty and the
\* port runs or is suspended.
Fit(s) == s.ioerr \/ (s.tty /\ (s.init \/ s.susp))

\* What an ioctl may do to a port: never an open file's loss, short of an
\* oops.
Refit(t, s) ==
    /\ KeepCounts(t, s) /\ KeepIds(t, s) /\ KeepPower(t, s)
    /\ s.oops => t.oops
    /\ Fit(s) /\ ~t.oops => Fit(t)

LEMMA RefitTrans ==
    ASSUME NEW r, NEW s, NEW t, Refit(s, r), Refit(t, s),
           s.oops \in BOOLEAN, t.oops \in BOOLEAN
    PROVE  Refit(t, r)
  BY DEF Refit, KeepCounts, KeepIds, KeepPower

LEMMA KeepRefit ==
    ASSUME NEW s, NEW t, KeepAll(t, s)
    PROVE  Refit(t, s)
  BY DEF Refit, Fit, KeepAll, KeepErr, KeepRun, KeepPower

LEMMA ShutdownRefit ==
    ASSUME NEW s \in PortShape
    PROVE  Refit(uart_shutdown(s), s)
  <1>1. PICK t : t = uart_shutdown(s)
    OBVIOUS
  <1>2. /\ KeepCounts(t, s) /\ KeepIds(t, s) /\ KeepPower(t, s)
        /\ t.oops = s.oops /\ t.ioerr = (s.ioerr \/ s.tty)
    BY <1>1, ShutdownFields, Zenon
  <1> QED BY <1>1, <1>2 DEF Refit, Fit

LEMMA StartupRefit ==
    ASSUME NEW s \in PortShape, NEW t,
           NEW init_hw \in BOOLEAN, NEW page \in BOOLEAN,
           NEW hwok \in BOOLEAN, NEW admin \in BOOLEAN,
           t = uart_startup(s, init_hw, page, hwok, admin).s
    PROVE  Refit(t, s)
  <1>1. /\ KeepCounts(t, s) /\ KeepIds(t, s) /\ KeepPower(t, s)
        /\ t.tty = s.tty /\ t.tlet = s.tlet
        /\ s.init => KeepErr(t, s) /\ KeepRun(t, s)
        /\ ~s.init => /\ t.oops = (s.oops \/ ~s.tty)
                      /\ t.ioerr = ~t.init
                      /\ t.init => t.buf
    BY StartupFields
  <1> QED BY <1>1 DEF Refit, Fit, KeepErr, KeepRun, KeepPower

\* TIOCSSERIAL and TIOCSERCONFIG, seen by the other users.
LEMMA SetInfoRefit ==
    ASSUME Started(port), NEW f \in Files, NEW what \in Change,
           NEW page \in BOOLEAN, NEW hwok \in BOOLEAN,
           uart_set_info(f, what, page, hwok)
    PROVE  Refit(port', port)
  <1> DEFINE down == uart_shutdown(port)
             quick == uart_change_speed(port)
             Known(k) == [down EXCEPT !.known = k]
             s == CASE what = "keep" -> port
                    [] what = "speed" -> IF port.init THEN quick ELSE port
                    [] what \in {"irq", "restored"} -> down
                    [] what = "port" -> [down EXCEPT !.known = TRUE]
                    [] what \in {"unknown", "lost"} ->
                         [down EXCEPT !.known = FALSE]
             t == uart_startup(s, TRUE, page, hwok, TRUE).s
  <1>0. port \in PortShape /\ ~port.suspended
    BY DEF Started, uart_set_info, Thawed
  <1>1. port' = port \/ port' = t \/ port' = s
    BY DEF uart_set_info
  <1>2. Refit(port, port)
    BY DEF Refit, KeepCounts, KeepIds, KeepPower
  <1>3. Refit(down, port) /\ down \in PortShape
    BY <1>0, ShutdownRefit, ShutdownStarted DEF Started
  <1>4. Refit(quick, port) /\ quick \in PortShape
    BY <1>0, ChangeSpeedFields, ChangeSpeedShape, KeepRefit
  <1> HIDE DEF down, quick
  <1>5. \A k \in BOOLEAN : Refit(Known(k), port) /\ Known(k) \in PortShape
    <2> TAKE k \in BOOLEAN
    <2>1. Known(k) \in PortShape /\ KeepAll(Known(k), down)
      BY <1>3 DEF PortShape, KeepAll, KeepCounts, KeepIds, KeepPower, KeepErr, KeepRun
    <2> HIDE DEF Known
    <2>2. Refit(Known(k), down)
      BY <2>1, KeepRefit
    <2>3. down.oops \in BOOLEAN /\ Known(k).oops \in BOOLEAN
      BY <2>1, <1>3 DEF PortShape
    <2> QED BY <2>1, <2>2, <2>3, <1>3, RefitTrans
  <1>6. s \in {port, quick, down, Known(TRUE), Known(FALSE)}
    BY DEF Change
  <1> HIDE DEF s
  <1>7. Refit(s, port) /\ s \in PortShape
    <2> HIDE DEF Known
    <2> QED BY <1>0, <1>2, <1>3, <1>4, <1>5, <1>6
  <1>8. Refit(t, s)
    BY <1>7, StartupRefit
  <1>9. t \in PortShape
    <2>1. Started(s) /\ ~s.suspended
      <3>1. Started(down) /\ ~down.suspended
        BY <1>0, ShutdownStarted DEF down
      <3>2. Started(quick) /\ ~quick.suspended
        BY <1>0, ChangeSpeedStarted DEF quick
      <3>3. \A k \in BOOLEAN : Started(Known(k)) /\ ~Known(k).suspended
        BY <3>1 DEF Started, PortShape
      <3> HIDE DEF Known
      <3> QED BY <1>0, <3>1, <3>2, <3>3, <1>6
    <2> QED BY <2>1, StartupStarted DEF Started
  <1> HIDE DEF t
  <1>10. Refit(t, port)
    <2>1. s.oops \in BOOLEAN /\ t.oops \in BOOLEAN
      BY <1>7, <1>9 DEF PortShape
    <2> QED BY <2>1, <1>7, <1>8, RefitTrans
  <1> QED BY <1>1, <1>2, <1>7, <1>10

LEMMA AutoconfigRefit ==
    ASSUME Started(port), NEW f \in Files, NEW found \in BOOLEAN,
           NEW page \in BOOLEAN, NEW hwok \in BOOLEAN,
           uart_do_autoconfig(f, found, page, hwok)
    PROVE  Refit(port', port)
  <1> DEFINE down == uart_shutdown(port)
             s == [down EXCEPT !.known = found]
             t == uart_startup(s, TRUE, page, hwok, TRUE).s
  <1>0. port \in PortShape /\ ~port.suspended
    BY DEF Started, uart_do_autoconfig, Thawed
  <1>1. port' = port \/ port' = t
    BY DEF uart_do_autoconfig
  <1>2. Refit(port, port)
    BY DEF Refit, KeepCounts, KeepIds, KeepPower
  <1>3. Refit(down, port) /\ Started(down) /\ ~down.suspended
    BY <1>0, ShutdownRefit, ShutdownStarted
  <1> HIDE DEF down
  <1>4. Started(s) /\ ~s.suspended /\ KeepAll(s, down)
    BY <1>3 DEF Started, PortShape, KeepAll, KeepCounts, KeepIds, KeepPower, KeepErr, KeepRun
  <1> HIDE DEF s
  <1>5. Refit(s, down) /\ Refit(t, s)
    BY <1>4, KeepRefit, StartupRefit DEF Started
  <1>6. t \in PortShape
    BY <1>4, StartupStarted DEF Started
  <1> HIDE DEF t
  <1>7. down.oops \in BOOLEAN /\ s.oops \in BOOLEAN /\ t.oops \in BOOLEAN
    BY <1>3, <1>4, <1>6 DEF Started, PortShape
  <1>8. Refit(s, port)
    BY <1>3, <1>5, <1>7, RefitTrans
  <1>9. Refit(t, port)
    BY <1>5, <1>7, <1>8, RefitTrans
  <1> QED BY <1>1, <1>2, <1>9


\* What the smaller steps leave alone.
LEMMA TermiosFields ==
    ASSUME Started(port), NEW f \in Files, uart_set_termios(f)
    PROVE  KeepAll(port', port)
  <1> DEFINE s == [port EXCEPT !.clocal = ~port.clocal]
  <1>1. port' = uart_change_speed(s) /\ port \in PortShape
    BY DEF uart_set_termios, Started, PortShape
  <1>2. s \in PortShape /\ KeepAll(s, port)
    BY <1>1 DEF PortShape, KeepAll, KeepCounts, KeepIds, KeepPower, KeepErr, KeepRun
  <1> HIDE DEF s
  <1>3. KeepAll(port', s)
    BY <1>1, <1>2, ChangeSpeedFields
  <1> QED BY <1>2, <1>3 DEF KeepAll, KeepCounts, KeepIds, KeepPower, KeepErr, KeepRun

LEMMA TtyOpenFields ==
    ASSUME Started(port), NEW f \in Files, NEW nb \in BOOLEAN, tty_open(f, nb)
    PROVE  /\ port'.count = port.count /\ port'.blocked = port.blocked
           /\ port'.users = port.users + 1 /\ KeepIds(port', port)
           /\ KeepPower(port', port) /\ KeepRun(port', port)
           /\ port'.oops = port.oops
           /\ port.users # 0 => port'.ioerr = port.ioerr
  <1> DEFINE n == port.users + 1
             e == IF port.users = 0 THEN FALSE ELSE port.ioerr
  <1>1. port' = [port EXCEPT !.users = n, !.ioerr = e] /\ port \in PortShape
    BY DEF tty_open, Started, PortShape
  <1>2. port.users # 0 => e = port.ioerr
    OBVIOUS
  <1> HIDE DEF e, n
  <1>3. port'.users = n
    BY <1>1 DEF PortShape
  <1> QED BY <1>1, <1>2, <1>3 DEF n, PortShape, KeepIds, KeepPower, KeepRun

LEMMA ReleaseFields ==
    ASSUME Started(port), NEW f \in Files, tty_release(f)
    PROVE  /\ port'.count = port.count /\ port'.blocked = port.blocked
           /\ port'.users = port.users - 1 /\ KeepErr(port', port)
           /\ port'.dead = port.dead /\ port'.present = port.present
           /\ KeepPower(port', port) /\ KeepRun(port', port)
  <1> DEFINE n == port.users - 1
             e == IF port.users = 1 THEN FALSE ELSE port.data
  <1>1. port' = [port EXCEPT !.users = n, !.data = e] /\ port \in PortShape
    BY DEF tty_release, Started, PortShape
  <1> HIDE DEF n, e
  <1> QED BY <1>1 DEF n, PortShape, KeepErr, KeepPower, KeepRun

\* The port's other steps: interrupts, the tasklet and the removal.
PortOnly ==
    \/ TransmitIrq \/ uart_tasklet_action \/ RemoveMark \/ uart_remove_one_port
    \/ \E found \in BOOLEAN : uart_add_one_port(found)

LEMMA PortOnlyFields ==
    ASSUME Started(port), PortOnly
    PROVE  /\ KeepCounts(port', port) /\ KeepPower(port', port)
           /\ KeepErr(port', port) /\ port'.init = port.init
           /\ port'.tty = port.tty /\ port'.buf = port.buf
           /\ port'.tlet => port.tlet \/ port.init
           /\ UNCHANGED <<pc, hung, nonblock, woken, hpc, carrier, events>>
  <1> DEFINE Goal == /\ KeepCounts(port', port) /\ KeepPower(port', port)
                     /\ KeepErr(port', port) /\ port'.init = port.init
                     /\ port'.tty = port.tty /\ port'.buf = port.buf
                     /\ port'.tlet => port.tlet \/ port.init
                     /\ UNCHANGED <<pc, hung, nonblock, woken, hpc, carrier, events>>
  <1>0. port \in PortShape /\ (port.hw > 0 => port.init)
    BY DEF Started, PortShape
  <1>1. CASE TransmitIrq
    BY <1>0, <1>1 DEF TransmitIrq, PortShape, KeepCounts, KeepPower, KeepErr, KeepIds
  <1>2. CASE uart_tasklet_action
    BY <1>0, <1>2 DEF uart_tasklet_action, PortShape, KeepCounts, KeepPower, KeepErr, KeepIds
  <1>3. CASE RemoveMark
    BY <1>0, <1>3 DEF RemoveMark, PortShape, KeepCounts, KeepPower, KeepErr
  <1>4. CASE uart_remove_one_port
    BY <1>0, <1>4 DEF uart_remove_one_port, PortShape, KeepCounts, KeepPower, KeepErr
  <1>5. ASSUME NEW found \in BOOLEAN, uart_add_one_port(found)
        PROVE  Goal
    BY <1>0, <1>5 DEF uart_add_one_port, PortShape, KeepCounts, KeepPower, KeepErr
  <1> QED BY <1>1, <1>2, <1>3, <1>4, <1>5 DEF PortOnly

-----------------------------------------------------------------------------
(* The invariant behind UsersServed and StartedHasTty.                      *)

State == {"closed", "opening", "waiting", "open", "failed", "closing", "ioctl", "miwait"}

Kinds ==
    /\ pc \in [Files -> State]
    /\ hung \in [Files -> BOOLEAN]
    /\ nonblock \in [Files -> BOOLEAN]
    /\ woken \in [Files -> BOOLEAN]
    /\ hpc \in {"idle", "hangup"}
    /\ rpc \in {"idle", "marked", "hung"}
    /\ carrier \in BOOLEAN
    /\ events \in Mixes

\* tty->count and port->blocked_open count files; port->count stays bounded.
Busy == {f \in Files : pc[f] # "closed"}
Waiting == {f \in Files : pc[f] = "waiting"}

Sums ==
    /\ port.users = Cardinality(Busy)
    /\ port.blocked = Cardinality(Waiting)
    /\ port.count >= 0
    /\ port.count + port.blocked <= MaxCount

\* While the system sleeps nobody is inside a call.
Asleep == port.suspended => Frozen

\* Ports go away, and ioctls and oopses happen, only in the mixes with them.
Announced ==
    /\ ~port.present \/ port.dead \/ rpc # "idle" => "remove" \in events
    /\ \A f \in Files : pc[f] = "ioctl" => "ioctl" \in events
    /\ port.oops => "ioctl" \in events

\* Between the two halves of a hangup every file is hung up, unless an open
\* gets in between.
AllHung ==
    ~Miscounts /\ hpc = "hangup" => \A f \in Files : pc[f] # "closed" => hung[f]

\* A failed open that was counted still has its close to come.
Holds(f) == ~hung[f] /\ pc[f] \in {"open", "ioctl", "miwait", "failed"}
Holders == {f \in Files : Holds(f)}

Enough == ~Miscounts => Cardinality(Holders) <= port.count

\* An opener that waits relies on the port too.
Relies(f) == ~hung[f] /\ pc[f] \in {"waiting", "open", "ioctl", "miwait"}

Backed == ~port.oops => \A f \in Files : Relies(f) => Fit(port)

\* A suspended port will be started again, on the tty and buffer it has.
TtyThere ==
    ~StartsLate =>
        /\ port.init \/ port.susp => port.tty /\ port.buf
        /\ port.tlet => port.tty

-----------------------------------------------------------------------------

\* How many files are busy and waiting after one of them has moved.
LEMMA Moved ==
    ASSUME Kinds, NEW f \in Files, NEW x \in State, pc' = [pc EXCEPT ![f] = x]
    PROVE  /\ pc[f] # "closed" /\ x # "closed" => Cardinality(Busy') = Cardinality(Busy)
           /\ pc[f] = "closed" /\ x # "closed" => Cardinality(Busy') = Cardinality(Busy) + 1
           /\ pc[f] # "closed" /\ x = "closed" => Cardinality(Busy') = Cardinality(Busy) - 1
           /\ pc[f] # "waiting" /\ x # "waiting" =>
                 Cardinality(Waiting') = Cardinality(Waiting)
           /\ pc[f] # "waiting" /\ x = "waiting" =>
                 Cardinality(Waiting') = Cardinality(Waiting) + 1
           /\ pc[f] = "waiting" /\ x # "waiting" =>
                 Cardinality(Waiting') = Cardinality(Waiting) - 1
  <1>0. IsFiniteSet(Busy) /\ IsFiniteSet(Waiting)
    BY EventsAssumption, FS_Subset DEF Busy, Waiting
  <1>a. /\ pc'[f] = x
        /\ \A g \in Files \ {f} : pc'[g] = pc[g]
    BY DEF Kinds
  <1>1. ASSUME pc[f] # "closed", x # "closed"
        PROVE  Busy' = Busy
    BY <1>a, <1>1 DEF Busy
  <1>2. ASSUME pc[f] = "closed", x # "closed"
        PROVE  Cardinality(Busy') = Cardinality(Busy) + 1
    <2>1. Busy' = Busy \cup {f} /\ f \notin Busy
      BY <1>a, <1>2 DEF Busy
    <2> QED BY <1>0, <2>1, FS_AddElement
  <1>3. ASSUME pc[f] # "closed", x = "closed"
        PROVE  Cardinality(Busy') = Cardinality(Busy) - 1
    <2>1. Busy' = Busy \ {f} /\ f \in Busy
      BY <1>a, <1>3 DEF Busy
    <2> QED BY <1>0, <2>1, FS_RemoveElement
  <1>4. ASSUME pc[f] # "waiting", x # "waiting"
        PROVE  Waiting' = Waiting
    BY <1>a, <1>4 DEF Waiting
  <1>5. ASSUME pc[f] # "waiting", x = "waiting"
        PROVE  Cardinality(Waiting') = Cardinality(Waiting) + 1
    <2>1. Waiting' = Waiting \cup {f} /\ f \notin Waiting
      BY <1>a, <1>5 DEF Waiting
    <2> QED BY <1>0, <2>1, FS_AddElement
  <1>6. ASSUME pc[f] = "waiting", x # "waiting"
        PROVE  Cardinality(Waiting') = Cardinality(Waiting) - 1
    <2>1. Waiting' = Waiting \ {f} /\ f \in Waiting
      BY <1>a, <1>6 DEF Waiting
    <2> QED BY <1>0, <2>1, FS_RemoveElement
  <1> QED BY <1>1, <1>2, <1>3, <1>4, <1>5, <1>6, Zenon

\* Nobody moves: the numbers stay.
LEMMA NotMoved ==
    ASSUME pc' = pc
    PROVE  Cardinality(Busy') = Cardinality(Busy) /\ Cardinality(Waiting') = Cardinality(Waiting)
  <1>1. Busy' = Busy /\ Waiting' = Waiting
    BY DEF Busy, Waiting
  <1> QED BY <1>1, Zenon

\* The steps of a file that leave the port alone.
FileOnly(f) ==
    \/ OpenFails(f) \/ BeginIoctl(f) \/ BeginMiwait(f)
    \/ \E changed \in BOOLEAN : uart_wait_modem_status(f, changed)

LEMMA FileOnlyFields ==
    ASSUME NEW f \in Files, FileOnly(f)
    PROVE  /\ port' = port
           /\ UNCHANGED <<hung, nonblock, hpc, rpc, carrier, events>>
           /\ ~port.suspended
           /\ \/ /\ pc[f] = "opening" /\ pc' = [pc EXCEPT ![f] = "failed"]
                 /\ "signal" \in events \/ ~port.present \/ port.dead
              \/ /\ pc[f] = "open" /\ pc' = [pc EXCEPT ![f] = "ioctl"]
                 /\ ~hung[f] /\ "ioctl" \in events
              \/ /\ pc[f] = "open" /\ pc' = [pc EXCEPT ![f] = "miwait"] /\ ~hung[f]
              \/ /\ pc[f] = "miwait"
                 /\ \/ pc' = [pc EXCEPT ![f] = "open"]
                    \/ pc' = [pc EXCEPT ![f] = "miwait"]
  BY DEF FileOnly, OpenFails, BeginIoctl, BeginMiwait, uart_wait_modem_status, Thawed

-----------------------------------------------------------------------------
(* Every step keeps every part of the invariant.                            *)

LEMMA KindsStep ==
    ASSUME Kinds, [Next]_vars
    PROVE  Kinds'
  <1>1. CASE UNCHANGED vars
    BY <1>1 DEF vars, Kinds
  <1>2. ASSUME NEW f \in Files, NEW nb \in BOOLEAN, tty_open(f, nb)
        PROVE  Kinds'
    BY <1>2 DEF tty_open, Kinds, State
  <1>3. ASSUME NEW f \in Files, FileOnly(f)
        PROVE  Kinds'
    <2>1. woken' \in [Files -> BOOLEAN]
      BY <1>3 DEF FileOnly, OpenFails, BeginIoctl, BeginMiwait, uart_wait_modem_status, Kinds
    <2>2. pc' \in [Files -> State]
      BY <1>3, FileOnlyFields DEF Kinds, State
    <2> QED BY <1>3, <2>1, <2>2, FileOnlyFields DEF Kinds
  <1>4. ASSUME NEW f \in Files, NEW page \in BOOLEAN, NEW hwok \in BOOLEAN,
               NEW admin \in BOOLEAN, uart_open(f, page, hwok, admin)
        PROVE  Kinds'
    <2>1. \E x \in {"failed", "open", "waiting"} : pc' = [pc EXCEPT ![f] = x]
      BY <1>4 DEF uart_open, FinishOpen
    <2>2. UNCHANGED <<hung, nonblock, hpc, rpc, carrier, events>>
          /\ woken' = [woken EXCEPT ![f] = FALSE]
      BY <1>4 DEF uart_open
    <2> QED BY <2>1, <2>2 DEF Kinds, State
  <1>5. ASSUME NEW f \in Files, NEW signal \in BOOLEAN, uart_block_til_ready(f, signal)
        PROVE  Kinds'
    <2>1. pc' = pc \/ \E x \in {"failed", "open"} : pc' = [pc EXCEPT ![f] = x]
      BY <1>5 DEF uart_block_til_ready, FinishOpen
    <2>2. UNCHANGED <<hung, nonblock, hpc, rpc, carrier, events>>
          /\ woken' = [woken EXCEPT ![f] = FALSE]
      BY <1>5 DEF uart_block_til_ready
    <2> QED BY <2>1, <2>2 DEF Kinds, State
  <1>6. ASSUME NEW fs, wake_up(fs)
        PROVE  woken' \in [Files -> BOOLEAN]
    BY <1>6 DEF wake_up
  <1>7. ASSUME NEW f \in Files, uart_close(f)
        PROVE  Kinds'
    <2>1. woken' \in [Files -> BOOLEAN]
      BY <1>6, <1>7 DEF uart_close, Kinds
    <2>2. pc' = [pc EXCEPT ![f] = "closing"]
          /\ UNCHANGED <<hung, nonblock, hpc, rpc, carrier, events>>
      BY <1>7 DEF uart_close
    <2> QED BY <2>1, <2>2 DEF Kinds, State
  <1>8. ASSUME NEW f \in Files, tty_release(f)
        PROVE  Kinds'
    BY <1>8 DEF tty_release, Kinds, State
  <1>9. ASSUME NEW f \in Files, NEW what \in Change, NEW page \in BOOLEAN,
               NEW hwok \in BOOLEAN, uart_set_info(f, what, page, hwok)
        PROVE  Kinds'
    <2>1. woken' \in [Files -> BOOLEAN]
      BY <1>6, <1>9 DEF uart_set_info, Kinds
    <2>2. pc' = [pc EXCEPT ![f] = "open"]
          /\ UNCHANGED <<hung, nonblock, hpc, rpc, carrier, events>>
      BY <1>9 DEF uart_set_info
    <2> QED BY <2>1, <2>2 DEF Kinds, State
  <1>10. ASSUME NEW f \in Files, NEW found \in BOOLEAN, NEW page \in BOOLEAN,
                NEW hwok \in BOOLEAN, uart_do_autoconfig(f, found, page, hwok)
         PROVE  Kinds'
    <2>1. woken' \in [Files -> BOOLEAN]
      BY <1>6, <1>10 DEF uart_do_autoconfig, Kinds
    <2>2. pc' = [pc EXCEPT ![f] = "open"]
          /\ UNCHANGED <<hung, nonblock, hpc, rpc, carrier, events>>
      BY <1>10 DEF uart_do_autoconfig
    <2> QED BY <2>1, <2>2 DEF Kinds, State
  <1>11. ASSUME NEW f \in Files, uart_set_termios(f)
         PROVE  Kinds'
    BY <1>11 DEF uart_set_termios, Kinds
  <1>a. HangFiles => hung' \in [Files -> BOOLEAN] /\ hpc' = "hangup"
    BY DEF HangFiles
  <1>12. CASE do_tty_hangup
    BY <1>12, <1>a DEF do_tty_hangup, Kinds
  <1>13. CASE RemoveHangup
    BY <1>13, <1>a DEF RemoveHangup, Kinds
  <1>14. CASE uart_hangup
    <2>1. woken' \in [Files -> BOOLEAN]
      BY <1>6, <1>14 DEF uart_hangup, Kinds
    <2> QED BY <1>14, <2>1 DEF uart_hangup, Kinds
  <1>15. CASE uart_suspend_port \/ \E hwok \in BOOLEAN : uart_resume_port(hwok)
    BY <1>15 DEF uart_suspend_port, uart_resume_port, Kinds
  <1>16. CASE CarrierChange
    <2>1. woken' \in [Files -> BOOLEAN]
      BY <1>6, <1>16 DEF CarrierChange
    <2> QED BY <1>16, <2>1 DEF CarrierChange, Kinds
  <1>17. CASE PortOnly
    <2>1. /\ UNCHANGED <<pc, hung, nonblock, woken, hpc, carrier, events>>
          /\ rpc' \in {"idle", "marked", "hung"}
      BY <1>17 DEF PortOnly, TransmitIrq, uart_tasklet_action, RemoveMark,
                   uart_remove_one_port, uart_add_one_port, Kinds
    <2> QED BY <2>1 DEF Kinds
  <1> QED
    BY <1>1, <1>2, <1>3, <1>4, <1>5, <1>7, <1>8, <1>9, <1>10, <1>11, <1>12,
       <1>13, <1>14, <1>15, <1>16, <1>17
    DEF Next, FileOnly, PortOnly

LEMMA SumsStep ==
    ASSUME Started(port), Kinds, Sums, [Next]_vars
    PROVE  Sums'
  <1> DEFINE B == Cardinality(Busy)
             W == Cardinality(Waiting)
  <1>0. port.count \in Int /\ port.blocked \in Int /\ port.users \in Int /\ MaxCount \in Int
    BY EventsAssumption DEF Started, PortShape
  <1>x. Sums' <=> /\ port'.users = Cardinality(Busy')
                  /\ port'.blocked = Cardinality(Waiting')
                  /\ port'.count >= 0
                  /\ port'.count + port'.blocked <= MaxCount
    BY DEF Sums
  <1>k. ASSUME KeepCounts(port', port), Cardinality(Busy') = Cardinality(Busy),
               Cardinality(Waiting') = Cardinality(Waiting)
        PROVE  Sums'
    BY <1>k, <1>x DEF Sums, KeepCounts
  <1>u. ASSUME KeepCounts(port', port), pc' = pc
        PROVE  Sums'
    BY <1>u, <1>k, NotMoved
  <1>1. CASE UNCHANGED vars
    BY <1>1, <1>u DEF vars, KeepCounts
  <1>2. ASSUME NEW f \in Files, NEW nb \in BOOLEAN, tty_open(f, nb)
        PROVE  Sums'
    <2>1. pc[f] = "closed" /\ pc' = [pc EXCEPT ![f] = "opening"]
      BY <1>2 DEF tty_open
    <2>2. Cardinality(Busy') = B + 1 /\ Cardinality(Waiting') = W
      BY <2>1, Moved DEF State
    <2> QED BY <1>0, <1>x, <1>2, <2>2, TtyOpenFields DEF Sums
  <1>3. ASSUME NEW f \in Files, FileOnly(f)
        PROVE  Sums'
    <2>1. Cardinality(Busy') = B /\ Cardinality(Waiting') = W
      BY <1>3, FileOnlyFields, Moved DEF State
    <2> QED BY <1>3, <1>k, <2>1, FileOnlyFields DEF KeepCounts
  <1>4. ASSUME NEW f \in Files, NEW page \in BOOLEAN, NEW hwok \in BOOLEAN,
               NEW admin \in BOOLEAN, uart_open(f, page, hwok, admin)
        PROVE  Sums'
    <2>0. pc[f] = "opening" /\ port.count + port.blocked < MaxCount
      BY <1>4 DEF uart_open
    <2>1. CASE pc' = [pc EXCEPT ![f] = "failed"] \/ pc' = [pc EXCEPT ![f] = "open"]
      <3>1. Cardinality(Busy') = B /\ Cardinality(Waiting') = W
        BY <2>0, <2>1, Moved DEF State
      <3>2. pc' # [pc EXCEPT ![f] = "waiting"]
        BY <2>1 DEF Kinds
      <3>3. /\ port'.users = port.users /\ port'.blocked = port.blocked
            /\ port'.count = port.count \/ port'.count = port.count + 1
        BY <1>4, <3>2, OpenFields DEF KeepCounts, Opened
      <3> QED BY <1>0, <1>x, <2>0, <3>1, <3>3 DEF Sums
    <2>2. CASE pc' = [pc EXCEPT ![f] = "waiting"]
      <3>1. Cardinality(Busy') = B /\ Cardinality(Waiting') = W + 1
        BY <2>0, <2>2, Moved DEF State
      <3>2. pc' # [pc EXCEPT ![f] = "failed"] /\ pc' # [pc EXCEPT ![f] = "open"]
        BY <2>2 DEF Kinds
      <3>3. /\ port'.users = port.users /\ port'.blocked = port.blocked + 1
            /\ port'.count = port.count
        BY <1>4, <3>2, OpenFields DEF Opened
      <3> QED BY <1>0, <1>x, <2>0, <3>1, <3>3 DEF Sums
    <2> QED BY <1>4, <2>1, <2>2, OpenFields
  <1>5. ASSUME NEW f \in Files, NEW signal \in BOOLEAN, uart_block_til_ready(f, signal)
        PROVE  Sums'
    <2>0. pc[f] = "waiting"
      BY <1>5 DEF uart_block_til_ready
    <2>1. CASE port' = port /\ pc' = pc
      BY <2>1, <1>u DEF KeepCounts
    <2>2. CASE /\ port'.count = port.count + 1 /\ port'.blocked = port.blocked - 1
               /\ port'.users = port.users
               /\ pc' = [pc EXCEPT ![f] = "failed"] \/ pc' = [pc EXCEPT ![f] = "open"]
      <3>1. Cardinality(Busy') = B /\ Cardinality(Waiting') = W - 1
        BY <2>0, <2>2, Moved DEF State
      <3> QED BY <1>0, <1>x, <2>2, <3>1 DEF Sums
    <2> QED BY <1>5, <2>1, <2>2, BlockFields
  <1>6. ASSUME NEW f \in Files, uart_close(f)
        PROVE  Sums'
    <2>1. pc[f] \in {"open", "failed"} /\ pc' = [pc EXCEPT ![f] = "closing"]
      BY <1>6 DEF uart_close
    <2>2. Cardinality(Busy') = B /\ Cardinality(Waiting') = W
      BY <2>1, Moved DEF State
    <2>3. CloseCount > 0 => CloseCount = port.count - 1
      BY <1>0 DEF CloseCount, Sums
    <2>4. /\ port'.users = port.users /\ port'.blocked = port.blocked
          /\ \/ port'.count = port.count \/ port'.count = 0
             \/ port'.count = port.count - 1 /\ port'.count > 0
      <3> HIDE DEF CloseCount
      <3> QED BY <1>6, <2>3, CloseFields
    <2> QED BY <1>0, <1>x, <2>2, <2>4 DEF Sums
  <1>7. ASSUME NEW f \in Files, tty_release(f)
        PROVE  Sums'
    <2>1. pc[f] = "closing" /\ pc' = [pc EXCEPT ![f] = "closed"]
      BY <1>7 DEF tty_release
    <2>2. Cardinality(Busy') = B - 1 /\ Cardinality(Waiting') = W
      BY <2>1, Moved DEF State
    <2> QED BY <1>0, <1>x, <1>7, <2>2, ReleaseFields DEF Sums
  <1>8. ASSUME NEW f \in Files, Refit(port', port), pc[f] = "ioctl",
               pc' = [pc EXCEPT ![f] = "open"]
        PROVE  Sums'
    <2>1. Cardinality(Busy') = B /\ Cardinality(Waiting') = W
      BY <1>8, Moved DEF State
    <2> QED BY <1>8, <1>k, <2>1 DEF Refit
  <1>9. ASSUME NEW f \in Files, NEW what \in Change, NEW page \in BOOLEAN,
               NEW hwok \in BOOLEAN, uart_set_info(f, what, page, hwok)
        PROVE  Sums'
    BY <1>8, <1>9, SetInfoRefit DEF uart_set_info
  <1>10. ASSUME NEW f \in Files, NEW found \in BOOLEAN, NEW page \in BOOLEAN,
                NEW hwok \in BOOLEAN, uart_do_autoconfig(f, found, page, hwok)
         PROVE  Sums'
    BY <1>8, <1>10, AutoconfigRefit DEF uart_do_autoconfig
  <1>11. ASSUME NEW f \in Files, uart_set_termios(f)
         PROVE  Sums'
    BY <1>11, <1>u, TermiosFields DEF uart_set_termios, KeepAll
  <1>12. CASE do_tty_hangup \/ RemoveHangup \/ CarrierChange
    BY <1>12, <1>u DEF do_tty_hangup, RemoveHangup, CarrierChange, KeepCounts
  <1>13. CASE uart_hangup
    <2>1. pc' = pc
      BY <1>13 DEF uart_hangup
    <2>2. \/ KeepCounts(port', port)
          \/ port'.count = 0 /\ port'.blocked = port.blocked /\ port'.users = port.users
      BY <1>13, HangupFields DEF KeepCounts
    <2>3. Cardinality(Busy') = B /\ Cardinality(Waiting') = W
      BY <2>1, NotMoved
    <2> QED BY <1>0, <1>x, <1>u, <2>1, <2>2, <2>3 DEF Sums
  <1>14. CASE uart_suspend_port
    BY <1>14, <1>u, SuspendFields DEF uart_suspend_port
  <1>15. ASSUME NEW hwok \in BOOLEAN, uart_resume_port(hwok)
         PROVE  Sums'
    BY <1>15, <1>u, ResumeFields DEF uart_resume_port
  <1>16. CASE PortOnly
    BY <1>16, <1>u, PortOnlyFields
  <1> QED
    BY <1>1, <1>2, <1>3, <1>4, <1>5, <1>6, <1>7, <1>9, <1>10, <1>11, <1>12,
       <1>13, <1>14, <1>15, <1>16
    DEF Next, FileOnly, PortOnly

LEMMA AsleepStep ==
    ASSUME Started(port), Kinds, Asleep, [Next]_vars
    PROVE  Asleep'
  <1>x. Asleep' <=> (port'.suspended => \A f \in Files : pc'[f] \in {"closed", "open"})
    BY DEF Asleep, Frozen
  <1>u. ASSUME port'.suspended = port.suspended, pc' = pc
        PROVE  Asleep'
    BY <1>u DEF Asleep, Frozen
  <1>a. ASSUME port'.suspended = port.suspended, ~port.suspended
        PROVE  Asleep'
    BY <1>a, <1>x
  <1>1. CASE UNCHANGED vars
    BY <1>1, <1>u DEF vars
  <1>2. ASSUME NEW f \in Files, NEW nb \in BOOLEAN, tty_open(f, nb)
        PROVE  Asleep'
    BY <1>2, <1>a, TtyOpenFields DEF tty_open, Thawed, KeepPower
  <1>3. ASSUME NEW f \in Files, FileOnly(f)
        PROVE  Asleep'
    BY <1>3, <1>a, FileOnlyFields
  <1>4. ASSUME NEW f \in Files, NEW page \in BOOLEAN, NEW hwok \in BOOLEAN,
               NEW admin \in BOOLEAN, uart_open(f, page, hwok, admin)
        PROVE  Asleep'
    <2>1. ~port.suspended
      BY <1>4 DEF uart_open, Thawed
    <2>2. port'.suspended = port.suspended
      BY <1>4, OpenFields DEF Opened, KeepPower
    <2> QED BY <2>1, <2>2, <1>a
  <1>5. ASSUME NEW f \in Files, NEW signal \in BOOLEAN, uart_block_til_ready(f, signal)
        PROVE  Asleep'
    <2>1. ~port.suspended
      BY <1>5 DEF uart_block_til_ready, Thawed
    <2>2. port'.suspended = port.suspended
      BY <1>5, BlockFields DEF KeepPower
    <2> QED BY <2>1, <2>2, <1>a
  <1>6. ASSUME NEW f \in Files, uart_close(f)
        PROVE  Asleep'
    BY <1>6, <1>a, CloseFields DEF uart_close, Thawed, KeepPower
  <1>7. ASSUME NEW f \in Files, tty_release(f)
        PROVE  Asleep'
    BY <1>7, <1>a, ReleaseFields DEF tty_release, Thawed, KeepPower
  <1>8. ASSUME NEW f \in Files, NEW what \in Change, NEW page \in BOOLEAN,
               NEW hwok \in BOOLEAN, uart_set_info(f, what, page, hwok)
        PROVE  Asleep'
    BY <1>8, <1>a, SetInfoRefit DEF uart_set_info, Thawed, Refit, KeepPower
  <1>9. ASSUME NEW f \in Files, NEW found \in BOOLEAN, NEW page \in BOOLEAN,
               NEW hwok \in BOOLEAN, uart_do_autoconfig(f, found, page, hwok)
        PROVE  Asleep'
    BY <1>9, <1>a, AutoconfigRefit DEF uart_do_autoconfig, Thawed, Refit, KeepPower
  <1>10. ASSUME NEW f \in Files, uart_set_termios(f)
         PROVE  Asleep'
    BY <1>10, <1>u, TermiosFields DEF uart_set_termios, KeepAll, KeepPower
  <1>11. CASE do_tty_hangup \/ RemoveHangup \/ CarrierChange
    BY <1>11, <1>u DEF do_tty_hangup, RemoveHangup, CarrierChange
  <1>12. CASE uart_hangup
    BY <1>12, <1>u, HangupFields DEF uart_hangup, KeepPower
  <1>13. CASE uart_suspend_port
    BY <1>13, <1>x DEF uart_suspend_port, Frozen
  <1>14. ASSUME NEW hwok \in BOOLEAN, uart_resume_port(hwok)
         PROVE  Asleep'
    BY <1>14, <1>x, ResumeFields
  <1>15. CASE PortOnly
    BY <1>15, <1>u, PortOnlyFields DEF KeepPower
  <1> QED
    BY <1>1, <1>2, <1>3, <1>4, <1>5, <1>6, <1>7, <1>8, <1>9, <1>10, <1>11, <1>12,
       <1>13, <1>14, <1>15
    DEF Next, FileOnly, PortOnly

LEMMA EventsFixed ==
    ASSUME [Next]_vars
    PROVE  events' = events
  <1>1. ASSUME NEW f \in Files,
               \/ \E nb \in BOOLEAN : tty_open(f, nb)
               \/ OpenFails(f)
               \/ \E page, hwok, admin \in BOOLEAN : uart_open(f, page, hwok, admin)
               \/ \E signal \in BOOLEAN : uart_block_til_ready(f, signal)
               \/ uart_close(f)
               \/ tty_release(f)
        PROVE  events' = events
    BY <1>1 DEF tty_open, OpenFails, uart_open, uart_block_til_ready, uart_close, tty_release
  <1>2. ASSUME NEW f \in Files,
               \/ BeginIoctl(f)
               \/ \E what \in Change, page, hwok \in BOOLEAN :
                     uart_set_info(f, what, page, hwok)
               \/ \E found, page, hwok \in BOOLEAN :
                     uart_do_autoconfig(f, found, page, hwok)
               \/ uart_set_termios(f)
               \/ BeginMiwait(f)
               \/ \E changed \in BOOLEAN : uart_wait_modem_status(f, changed)
        PROVE  events' = events
    BY <1>2 DEF BeginIoctl, uart_set_info, uart_do_autoconfig, uart_set_termios,
                BeginMiwait, uart_wait_modem_status
  <1>3. CASE \/ do_tty_hangup \/ uart_hangup \/ uart_suspend_port
             \/ \E hwok \in BOOLEAN : uart_resume_port(hwok)
             \/ CarrierChange \/ TransmitIrq \/ uart_tasklet_action
    BY <1>3 DEF do_tty_hangup, uart_hangup, uart_suspend_port, uart_resume_port,
                CarrierChange, TransmitIrq, uart_tasklet_action
  <1>4. CASE \/ RemoveMark \/ RemoveHangup \/ uart_remove_one_port
             \/ \E found \in BOOLEAN : uart_add_one_port(found)
             \/ UNCHANGED vars
    BY <1>4 DEF RemoveMark, RemoveHangup, uart_remove_one_port, uart_add_one_port, vars
  <1> QED BY <1>1, <1>2, <1>3, <1>4 DEF Next

LEMMA AnnouncedStep ==
    ASSUME Started(port), Kinds, Announced, [Next]_vars
    PROVE  Announced'
  <1> DEFINE Ids == port'.dead = port.dead /\ port'.present = port.present /\ rpc' = rpc
             NoIoctl == \A f \in Files : pc'[f] = "ioctl" => pc[f] = "ioctl"
  <1>x. Announced' <=>
           /\ ~port'.present \/ port'.dead \/ rpc' # "idle" => "remove" \in events'
           /\ \A f \in Files : pc'[f] = "ioctl" => "ioctl" \in events'
           /\ port'.oops => "ioctl" \in events'
    BY DEF Announced
  <1>e. events' = events
    BY EventsFixed
  <1>p. ASSUME Ids, NoIoctl, port'.oops = port.oops
        PROVE  Announced'
    BY <1>p, <1>x, <1>e DEF Announced
  <1>i. ASSUME NEW f \in Files, NEW x, pc' = [pc EXCEPT ![f] = x], x # "ioctl"
        PROVE  NoIoctl
    BY <1>i DEF Kinds
  <1>n. pc' = pc => NoIoctl
    OBVIOUS
  <1> HIDE DEF NoIoctl
  <1>1. CASE UNCHANGED vars
    BY <1>1, <1>p, <1>n DEF vars
  <1>2. ASSUME NEW f \in Files, NEW nb \in BOOLEAN, tty_open(f, nb)
        PROVE  Announced'
    <2>1. NoIoctl /\ rpc' = rpc
      BY <1>2, <1>i DEF tty_open
    <2> QED BY <1>2, <2>1, <1>p, TtyOpenFields DEF KeepIds
  <1>3. ASSUME NEW f \in Files, FileOnly(f)
        PROVE  Announced'
    <2>1. \A g \in Files : pc'[g] = "ioctl" => "ioctl" \in events
      BY <1>3, FileOnlyFields DEF Announced, Kinds
    <2> QED BY <1>3, <2>1, <1>x, <1>e, FileOnlyFields DEF Announced
  <1>4. ASSUME NEW f \in Files, NEW page \in BOOLEAN, NEW hwok \in BOOLEAN,
               NEW admin \in BOOLEAN, uart_open(f, page, hwok, admin)
        PROVE  Announced'
    <2>1. NoIoctl
      BY <1>4, <1>i, OpenFields
    <2>2. Ids /\ port'.oops = port.oops
      BY <1>4, OpenFields DEF Opened, KeepErr, uart_open
    <2> QED BY <2>1, <2>2, <1>p
  <1>5. ASSUME NEW f \in Files, NEW signal \in BOOLEAN, uart_block_til_ready(f, signal)
        PROVE  Announced'
    <2>1. NoIoctl
      BY <1>5, <1>i, <1>n, BlockFields
    <2>2. Ids /\ port'.oops = port.oops
      BY <1>5, BlockFields DEF KeepIds, KeepErr, uart_block_til_ready
    <2> QED BY <2>1, <2>2, <1>p
  <1>6. ASSUME NEW f \in Files, uart_close(f)
        PROVE  Announced'
    <2>1. NoIoctl /\ rpc' = rpc
      BY <1>6, <1>i DEF uart_close
    <2> QED BY <1>6, <2>1, <1>p, CloseFields DEF KeepIds
  <1>7. ASSUME NEW f \in Files, tty_release(f)
        PROVE  Announced'
    <2>1. NoIoctl /\ rpc' = rpc
      BY <1>7, <1>i DEF tty_release
    <2> QED BY <1>7, <2>1, <1>p, ReleaseFields DEF KeepErr
  <1>8. ASSUME NEW f \in Files, pc[f] = "ioctl", pc' = [pc EXCEPT ![f] = "open"],
               Refit(port', port), rpc' = rpc
        PROVE  Announced'
    <2>1. "ioctl" \in events
      BY <1>8 DEF Announced
    <2>2. Ids
      BY <1>8 DEF Refit, KeepIds
    <2> QED BY <2>1, <2>2, <1>x, <1>e DEF Announced
  <1>9. ASSUME NEW f \in Files, NEW what \in Change, NEW page \in BOOLEAN,
               NEW hwok \in BOOLEAN, uart_set_info(f, what, page, hwok)
        PROVE  Announced'
    BY <1>8, <1>9, SetInfoRefit DEF uart_set_info
  <1>10. ASSUME NEW f \in Files, NEW found \in BOOLEAN, NEW page \in BOOLEAN,
                NEW hwok \in BOOLEAN, uart_do_autoconfig(f, found, page, hwok)
         PROVE  Announced'
    BY <1>8, <1>10, AutoconfigRefit DEF uart_do_autoconfig
  <1>11. ASSUME NEW f \in Files, uart_set_termios(f)
         PROVE  Announced'
    BY <1>11, <1>p, <1>n, TermiosFields DEF uart_set_termios, KeepAll, KeepIds, KeepErr
  <1>12. CASE do_tty_hangup \/ CarrierChange
    BY <1>12, <1>p, <1>n DEF do_tty_hangup, CarrierChange
  <1>13. CASE uart_hangup
    BY <1>13, <1>p, <1>n, HangupFields DEF uart_hangup, KeepIds
  <1>14. CASE uart_suspend_port
    BY <1>14, <1>p, <1>n, SuspendFields DEF uart_suspend_port, KeepIds, KeepErr
  <1>15. ASSUME NEW hwok \in BOOLEAN, uart_resume_port(hwok)
         PROVE  Announced'
    BY <1>15, <1>p, <1>n, ResumeFields DEF uart_resume_port, KeepIds
  <1>16. CASE RemoveHangup
    <2>1. "remove" \in events
      BY <1>16 DEF RemoveHangup, Announced
    <2> QED BY <1>16, <2>1, <1>x, <1>e DEF RemoveHangup, Announced
  <1>17. CASE PortOnly
    <2>1. port'.oops = port.oops /\ pc' = pc
      BY <1>17, PortOnlyFields DEF KeepErr
    <2>2. CASE "remove" \in events
      BY <2>1, <2>2, <1>x, <1>e DEF Announced
    <2>3. CASE "remove" \notin events
      <3>1. port.present /\ ~port.dead /\ rpc = "idle"
        BY <2>3 DEF Announced
      <3>2. TransmitIrq \/ uart_tasklet_action
        BY <1>17, <2>3, <3>1 DEF PortOnly, RemoveMark, uart_remove_one_port, uart_add_one_port
      <3>3. Ids
        BY <3>2 DEF TransmitIrq, uart_tasklet_action, Started, PortShape
      <3> QED BY <2>1, <3>3, <1>p, <1>n
    <2> QED BY <2>2, <2>3
  <1> QED
    BY <1>1, <1>2, <1>3, <1>4, <1>5, <1>6, <1>7, <1>9, <1>10, <1>11, <1>12,
       <1>13, <1>14, <1>15, <1>16, <1>17
    DEF Next, FileOnly, PortOnly

LEMMA AllHungStep ==
    ASSUME Kinds, AllHung, [Next]_vars
    PROVE  AllHung'
  <1>x. AllHung' <=> (~Miscounts /\ hpc' = "hangup" =>
                         \A f \in Files : pc'[f] # "closed" => hung'[f])
    BY EventsFixed DEF AllHung, Miscounts
  <1>u. ASSUME hpc' = hpc, hung' = hung,
               \A f \in Files : pc'[f] # "closed" => pc[f] # "closed"
        PROVE  AllHung'
    BY <1>u, <1>x DEF AllHung
  <1>m. ASSUME NEW f \in Files, NEW x, pc[f] # "closed",
               pc' = pc \/ pc' = [pc EXCEPT ![f] = x]
        PROVE  \A g \in Files : pc'[g] # "closed" => pc[g] # "closed"
    BY <1>m DEF Kinds
  <1>1. CASE UNCHANGED vars
    BY <1>1, <1>u DEF vars
  <1>2. ASSUME NEW f \in Files, NEW nb \in BOOLEAN, tty_open(f, nb)
        PROVE  AllHung'
    <2>1. hpc' = hpc /\ (hpc = "idle" \/ "race" \in events)
      BY <1>2 DEF tty_open
    <2> QED BY <2>1, <1>x DEF Miscounts
  <1>3. ASSUME NEW f \in Files, FileOnly(f)
        PROVE  AllHung'
    <2>1. pc[f] # "closed" /\ hpc' = hpc /\ hung' = hung
      BY <1>3, FileOnlyFields
    <2>2. \E x : pc' = [pc EXCEPT ![f] = x]
      BY <1>3, FileOnlyFields
    <2> QED BY <2>1, <2>2, <1>m, <1>u
  <1>4. ASSUME NEW f \in Files, NEW page \in BOOLEAN, NEW hwok \in BOOLEAN,
               NEW admin \in BOOLEAN, uart_open(f, page, hwok, admin)
        PROVE  AllHung'
    <2>1. pc[f] # "closed" /\ hpc' = hpc /\ hung' = hung
      BY <1>4 DEF uart_open
    <2>2. \E x : pc' = [pc EXCEPT ![f] = x]
      BY <1>4 DEF uart_open, FinishOpen
    <2> QED BY <2>1, <2>2, <1>m, <1>u
  <1>5. ASSUME NEW f \in Files, NEW signal \in BOOLEAN, uart_block_til_ready(f, signal)
        PROVE  AllHung'
    <2>1. pc[f] # "closed" /\ hpc' = hpc /\ hung' = hung
      BY <1>5 DEF uart_block_til_ready
    <2>2. \E x : pc' = pc \/ pc' = [pc EXCEPT ![f] = x]
      BY <1>5 DEF uart_block_til_ready, FinishOpen
    <2> QED BY <2>1, <2>2, <1>m, <1>u
  <1>6. ASSUME NEW f \in Files, uart_close(f)
        PROVE  AllHung'
    BY <1>6, <1>m, <1>u DEF uart_close
  <1>7. ASSUME NEW f \in Files, tty_release(f)
        PROVE  AllHung'
    BY <1>7, <1>m, <1>u DEF tty_release
  <1>8. ASSUME NEW f \in Files,
               \/ \E what \in Change, page, hwok \in BOOLEAN :
                     uart_set_info(f, what, page, hwok)
               \/ \E found, page, hwok \in BOOLEAN :
                     uart_do_autoconfig(f, found, page, hwok)
        PROVE  AllHung'
    <2>1. pc[f] # "closed" /\ hpc' = hpc /\ hung' = hung /\ pc' = [pc EXCEPT ![f] = "open"]
      BY <1>8 DEF uart_set_info, uart_do_autoconfig
    <2> QED BY <2>1, <1>m, <1>u
  <1>9. CASE \/ \E f \in Files : uart_set_termios(f)
             \/ uart_suspend_port \/ (\E hwok \in BOOLEAN : uart_resume_port(hwok))
             \/ CarrierChange \/ PortOnly
    <2>1. hpc' = hpc /\ hung' = hung /\ pc' = pc
      BY <1>9 DEF uart_set_termios, uart_suspend_port, uart_resume_port,
                  CarrierChange, PortOnly, TransmitIrq, uart_tasklet_action,
                  RemoveMark, uart_remove_one_port, uart_add_one_port
    <2> QED BY <2>1, <1>u
  <1>10. CASE do_tty_hangup \/ RemoveHangup
    <2>1. CASE HangFiles
      <3>1. pc' = pc /\ \A f \in Files : pc[f] # "closed" => hung'[f]
        BY <1>10, <2>1 DEF do_tty_hangup, RemoveHangup, HangFiles, Kinds
      <3> QED BY <3>1, <1>x
    <2>2. CASE UNCHANGED <<hung, hpc>>
      BY <1>10, <2>2, <1>u DEF do_tty_hangup, RemoveHangup
    <2> QED BY <1>10, <2>1, <2>2 DEF do_tty_hangup, RemoveHangup
  <1>11. CASE uart_hangup
    BY <1>11, <1>x DEF uart_hangup
  <1> QED
    BY <1>1, <1>2, <1>3, <1>4, <1>5, <1>6, <1>7, <1>8, <1>9, <1>10, <1>11
    DEF Next, FileOnly, PortOnly

\* How the number of holders changes when one file moves.
LEMMA HoldersMoved ==
    ASSUME Kinds, NEW f \in Files, NEW x, pc' = [pc EXCEPT ![f] = x], hung' = hung
    PROVE  /\ Cardinality(Holders) \in Nat /\ Cardinality(Holders') \in Nat
           /\ Cardinality(Holders') <= Cardinality(Holders) + 1
           /\ Holds(f) \/ hung[f] \/ x \notin {"open", "ioctl", "miwait", "failed"} =>
                 Cardinality(Holders') <= Cardinality(Holders)
           /\ Holds(f) /\ x \notin {"open", "ioctl", "miwait", "failed"} =>
                 Cardinality(Holders') = Cardinality(Holders) - 1
  <1>0. IsFiniteSet(Holders) /\ IsFiniteSet(Holders')
    BY EventsAssumption, FS_Subset DEF Holders
  <1>a. /\ Cardinality(Holders) \in Nat /\ Cardinality(Holders') \in Nat
    BY <1>0, FS_CardinalityType
  <1>b. \A g \in Files \ {f} : Holds(g)' = Holds(g)
    BY DEF Holds, Kinds
  <1>c. Holds(f)' => ~hung[f] /\ x \in {"open", "ioctl", "miwait", "failed"}
    BY DEF Holds, Kinds
  <1>1. Cardinality(Holders') <= Cardinality(Holders) + 1
    <2> DEFINE H == Holders \cup {f}
    <2>1. Holders' \subseteq H
      BY <1>b DEF Holders
    <2>2. IsFiniteSet(H) /\ Cardinality(H) <= Cardinality(Holders) + 1
      <3>1. CASE f \in Holders
        <4>1. H = Holders
          BY <3>1
        <4>2. Cardinality(Holders) <= Cardinality(Holders) + 1
          BY <1>a
        <4> HIDE DEF H
        <4> QED BY <1>0, <4>1, <4>2, Zenon
      <3>2. CASE f \notin Holders
        <4>1. IsFiniteSet(H) /\ Cardinality(H) = Cardinality(Holders) + 1
          BY <1>0, <3>2, FS_AddElement
        <4> QED BY <1>a, <4>1
      <3> QED BY <3>1, <3>2
    <2>3. Cardinality(Holders') <= Cardinality(H) /\ Cardinality(H) \in Nat
      BY <2>1, <2>2, FS_Subset, FS_CardinalityType
    <2> HIDE DEF H
    <2> QED BY <1>a, <2>2, <2>3
  <1>2. ASSUME Holds(f) \/ hung[f] \/ x \notin {"open", "ioctl", "miwait", "failed"}
        PROVE  Cardinality(Holders') <= Cardinality(Holders)
    <2>1. Holders' \subseteq Holders
      BY <1>2, <1>b, <1>c DEF Holders, Holds
    <2> QED BY <1>0, <2>1, FS_Subset
  <1>3. ASSUME Holds(f), x \notin {"open", "ioctl", "miwait", "failed"}
        PROVE  Cardinality(Holders') = Cardinality(Holders) - 1
    <2>1. Holders' = Holders \ {f} /\ f \in Holders
      BY <1>3, <1>b, <1>c DEF Holders
    <2> QED BY <1>0, <2>1, FS_RemoveElement
  <1> QED BY <1>a, <1>1, <1>2, <1>3

LEMMA EnoughStep ==
    ASSUME Started(port), Kinds, Sums, Announced, AllHung, Enough, [Next]_vars
    PROVE  Enough'
  <1> DEFINE H == Cardinality(Holders)
  <1>0. port.count \in Int /\ port.users \in Int
    BY DEF Started, PortShape
  <1>f. IsFiniteSet(Holders) /\ H \in Nat /\ IsFiniteSet(Holders')
    BY EventsAssumption, FS_Subset, FS_CardinalityType DEF Holders
  <1>x. Enough' <=> (~Miscounts => Cardinality(Holders') <= port'.count)
    BY EventsFixed DEF Enough, Miscounts
  <1>s. ASSUME port'.count = port.count, Holders' \subseteq Holders
        PROVE  Enough'
    <2>1. Cardinality(Holders') <= H /\ Cardinality(Holders') \in Nat
      BY <1>f, <1>s, FS_Subset, FS_CardinalityType
    <2> QED BY <1>0, <1>f, <1>x, <1>s, <2>1 DEF Enough
  <1>u. ASSUME port'.count = port.count, pc' = pc, hung' = hung
        PROVE  Enough'
    <2>1. Holders' = Holders
      BY <1>u DEF Holders, Holds
    <2> QED BY <1>u, <1>s, <2>1
  <1>1. CASE UNCHANGED vars
    BY <1>1, <1>u DEF vars
  <1>2. ASSUME NEW f \in Files, NEW nb \in BOOLEAN, tty_open(f, nb)
        PROVE  Enough'
    <2>1. Holders' \subseteq Holders
      BY <1>2 DEF tty_open, Holders, Holds, Kinds
    <2> QED BY <1>2, <2>1, <1>s, TtyOpenFields
  <1>3. ASSUME NEW f \in Files, FileOnly(f)
        PROVE  Enough'
    <2>1. CASE pc[f] = "opening"
      <3>1. Miscounts
        BY <1>3, <2>1, FileOnlyFields DEF Miscounts, Announced
      <3> QED BY <3>1, <1>x
    <2>2. CASE pc[f] # "opening"
      <3>1. Holders' \subseteq Holders
        BY <1>3, <2>2, FileOnlyFields DEF Holders, Holds, Kinds
      <3> QED BY <1>3, <3>1, <1>s, FileOnlyFields
    <2> QED BY <2>1, <2>2
  <1>4. ASSUME NEW f \in Files, NEW page \in BOOLEAN, NEW hwok \in BOOLEAN,
               NEW admin \in BOOLEAN, uart_open(f, page, hwok, admin)
        PROVE  Enough'
    <2>0. hung' = hung
      BY <1>4 DEF uart_open
    <2>1. CASE hung[f] /\ pc' = [pc EXCEPT ![f] = "failed"] /\ port'.count = port.count
      <3>1. Cardinality(Holders') <= H /\ Cardinality(Holders') \in Nat
        BY <2>0, <2>1, HoldersMoved
      <3> QED BY <1>0, <1>f, <1>x, <2>1, <3>1 DEF Enough
    <2>2. CASE /\ port'.count = port.count + 1
               /\ pc' = [pc EXCEPT ![f] = "failed"] \/ pc' = [pc EXCEPT ![f] = "open"]
      <3>1. Cardinality(Holders') <= H + 1 /\ Cardinality(Holders') \in Nat
        BY <2>0, <2>2, HoldersMoved
      <3> QED BY <1>0, <1>f, <1>x, <2>2, <3>1 DEF Enough
    <2>3. CASE pc' = [pc EXCEPT ![f] = "waiting"] /\ port'.count = port.count
      <3>1. Cardinality(Holders') <= H /\ Cardinality(Holders') \in Nat
        <4>1. "waiting" \notin {"open", "ioctl", "miwait", "failed"}
          OBVIOUS
        <4> QED BY <2>0, <2>3, <4>1, HoldersMoved
      <3> QED BY <1>0, <1>f, <1>x, <2>3, <3>1 DEF Enough
    <2> QED BY <1>4, <2>1, <2>2, <2>3, OpenFields DEF KeepCounts
  <1>5. ASSUME NEW f \in Files, NEW signal \in BOOLEAN, uart_block_til_ready(f, signal)
        PROVE  Enough'
    <2>0. hung' = hung
      BY <1>5 DEF uart_block_til_ready
    <2>1. CASE port' = port /\ pc' = pc
      BY <2>0, <2>1, <1>u
    <2>2. CASE /\ port'.count = port.count + 1
               /\ pc' = [pc EXCEPT ![f] = "failed"] \/ pc' = [pc EXCEPT ![f] = "open"]
      <3>1. Cardinality(Holders') <= H + 1 /\ Cardinality(Holders') \in Nat
        BY <2>0, <2>2, HoldersMoved
      <3> QED BY <1>0, <1>f, <1>x, <2>2, <3>1 DEF Enough
    <2> QED BY <1>5, <2>1, <2>2, BlockFields
  <1>6. ASSUME NEW f \in Files, uart_close(f)
        PROVE  Enough'
    <2>1. /\ pc[f] \in {"open", "failed"} /\ pc' = [pc EXCEPT ![f] = "closing"]
          /\ hung' = hung
      BY <1>6 DEF uart_close
    <2>2. /\ Cardinality(Holders') \in Nat
          /\ Cardinality(Holders') <= H
          /\ ~hung[f] => Cardinality(Holders') = H - 1
      <3>1. "closing" \notin {"open", "ioctl", "miwait", "failed"}
        OBVIOUS
      <3>2. ~hung[f] => Holds(f)
        BY <2>1 DEF Holds
      <3> QED BY <2>1, <3>1, <3>2, HoldersMoved
    <2>3. H <= Cardinality(Busy)
      <3>1. Holders \subseteq Busy /\ IsFiniteSet(Busy)
        BY EventsAssumption, FS_Subset DEF Holders, Holds, Busy
      <3> QED BY <3>1, FS_Subset
    <2>4. CloseCount > 0 => CloseCount = port.count - 1
      BY <1>0 DEF CloseCount, Sums
    <2>5. CloseCount = 0 => port.users = 1 \/ port.count <= 1
      BY <1>0 DEF CloseCount, Sums
    <2>6. /\ ~hung[f] \/ port' = port
          /\ \/ port' = port
             \/ CloseCount > 0 /\ port'.count = CloseCount
             \/ CloseCount = 0 /\ port'.count = 0
      BY <1>6, CloseFields
    <2> HIDE DEF H, CloseCount
    <2>7. CASE port' = port
      BY <1>0, <1>f, <1>x, <2>2, <2>7 DEF Enough, H
    <2>8. CASE ~hung[f] /\ CloseCount > 0 /\ port'.count = CloseCount
      BY <1>0, <1>f, <1>x, <2>2, <2>4, <2>8 DEF Enough, H
    <2>9. CASE ~hung[f] /\ CloseCount = 0 /\ port'.count = 0
      <3>1. ~Miscounts => H <= 1
        BY <1>0, <1>f, <2>3, <2>5, <2>9 DEF Enough, Sums, H
      <3> QED BY <1>f, <1>x, <2>2, <2>9, <3>1
    <2> QED BY <2>6, <2>7, <2>8, <2>9
  <1>7. ASSUME NEW f \in Files, tty_release(f)
        PROVE  Enough'
    <2>1. Holders' \subseteq Holders
      BY <1>7 DEF tty_release, Holders, Holds, Kinds
    <2> QED BY <1>7, <2>1, <1>s, ReleaseFields
  <1>8. ASSUME NEW f \in Files, Refit(port', port), pc[f] = "ioctl",
               pc' = [pc EXCEPT ![f] = "open"], hung' = hung
        PROVE  Enough'
    <2>1. Holders' \subseteq Holders
      BY <1>8 DEF Holders, Holds, Kinds
    <2> QED BY <1>8, <2>1, <1>s DEF Refit, KeepCounts
  <1>9. ASSUME NEW f \in Files, NEW what \in Change, NEW page \in BOOLEAN,
               NEW hwok \in BOOLEAN, uart_set_info(f, what, page, hwok)
        PROVE  Enough'
    BY <1>8, <1>9, SetInfoRefit DEF uart_set_info
  <1>10. ASSUME NEW f \in Files, NEW found \in BOOLEAN, NEW page \in BOOLEAN,
                NEW hwok \in BOOLEAN, uart_do_autoconfig(f, found, page, hwok)
         PROVE  Enough'
    BY <1>8, <1>10, AutoconfigRefit DEF uart_do_autoconfig
  <1>11. ASSUME NEW f \in Files, uart_set_termios(f)
         PROVE  Enough'
    BY <1>11, <1>u, TermiosFields DEF uart_set_termios, KeepAll, KeepCounts
  <1>12. CASE CarrierChange
    BY <1>12, <1>u DEF CarrierChange
  <1>13. CASE do_tty_hangup \/ RemoveHangup
    <2>1. port' = port /\ pc' = pc /\ \A f \in Files : hung[f] => hung'[f]
      BY <1>13 DEF do_tty_hangup, RemoveHangup, HangFiles, Kinds
    <2>2. Holders' \subseteq Holders
      BY <2>1 DEF Holders, Holds
    <2> QED BY <2>1, <2>2, <1>s
  <1>14. CASE uart_hangup
    <2>1. hpc = "hangup" /\ pc' = pc /\ hung' = hung
      BY <1>14 DEF uart_hangup
    <2>2. CASE port' = port
      BY <2>1, <2>2, <1>u
    <2>3. CASE port'.count = 0
      <3>1. ~Miscounts => Holders' = {}
        BY <2>1 DEF AllHung, Holders, Holds
      <3>2. ~Miscounts => Cardinality(Holders') = 0
        BY <3>1, FS_EmptySet
      <3> QED BY <2>3, <3>2, <1>x
    <2> QED BY <1>14, <2>2, <2>3, HangupFields
  <1>15. CASE uart_suspend_port
    BY <1>15, <1>u, SuspendFields DEF uart_suspend_port, KeepCounts
  <1>16. ASSUME NEW hwok \in BOOLEAN, uart_resume_port(hwok)
         PROVE  Enough'
    BY <1>16, <1>u, ResumeFields DEF uart_resume_port, KeepCounts
  <1>17. CASE PortOnly
    BY <1>17, <1>u, PortOnlyFields DEF KeepCounts
  <1> QED
    BY <1>1, <1>2, <1>3, <1>4, <1>5, <1>6, <1>7, <1>9, <1>10, <1>11, <1>12,
       <1>13, <1>14, <1>15, <1>16, <1>17
    DEF Next, FileOnly, PortOnly

LEMMA BackedStep ==
    ASSUME Started(port), Started(port'), Kinds, Sums, Backed, [Next]_vars
    PROVE  Backed'
  <1> DEFINE Less == \A f \in Files : Relies(f)' => Relies(f)
  <1>0. /\ port.ioerr \in BOOLEAN /\ port.tty \in BOOLEAN /\ port.init \in BOOLEAN
        /\ port.susp \in BOOLEAN /\ port.oops \in BOOLEAN
        /\ port'.ioerr \in BOOLEAN /\ port'.tty \in BOOLEAN /\ port'.init \in BOOLEAN
        /\ port'.susp \in BOOLEAN /\ port'.oops \in BOOLEAN
    BY DEF Started, PortShape
  <1>x. Backed' <=> (~port'.oops => \A f \in Files : Relies(f)' => Fit(port'))
    BY DEF Backed, Fit
  <1>b. ASSUME port.oops => port'.oops, Fit(port) /\ ~port'.oops => Fit(port'), Less
        PROVE  Backed'
    BY <1>0, <1>x, <1>b DEF Backed
  <1>u. ASSUME KeepPower(port', port), KeepErr(port', port), port'.init = port.init,
               port'.tty = port.tty, Less
        PROVE  Backed'
    BY <1>u, <1>b DEF KeepPower, KeepErr, Fit
  <1>n. pc' = pc /\ hung' = hung => Less
    BY DEF Relies
  <1>m. ASSUME NEW f \in Files, NEW x, pc' = [pc EXCEPT ![f] = x], hung' = hung,
               Relies(f) \/ x \notin {"waiting", "open", "ioctl", "miwait"}
        PROVE  Less
    BY <1>m DEF Relies, Kinds
  <1>h. ASSUME NEW f \in Files, NEW x, pc' = [pc EXCEPT ![f] = x], hung' = hung,
               hung[f]
        PROVE  Less
    BY <1>h DEF Relies, Kinds
  <1> HIDE DEF Less
  <1>1. CASE UNCHANGED vars
    BY <1>1, <1>u, <1>n DEF vars, KeepPower, KeepErr
  <1>2. ASSUME NEW f \in Files, NEW nb \in BOOLEAN, tty_open(f, nb)
        PROVE  Backed'
    <2>1. Less
      BY <1>2 DEF tty_open, Less, Relies, Kinds
    <2>2. CASE port.users = 0
      <3>1. IsFiniteSet(Busy) /\ Cardinality(Busy) = 0
        BY <2>2, EventsAssumption, FS_Subset DEF Busy, Sums
      <3>2. Busy = {}
        BY <3>1, FS_EmptySet
      <3>3. \A g \in Files : ~Relies(g)
        BY <3>2 DEF Busy, Relies
      <3> QED BY <1>x, <2>1, <3>3 DEF Less
    <2>3. CASE port.users # 0
      BY <1>2, <2>1, <2>3, <1>u, TtyOpenFields DEF KeepErr, KeepRun
    <2> QED BY <2>2, <2>3
  <1>3. ASSUME NEW f \in Files, FileOnly(f)
        PROVE  Backed'
    <2>1. Less
      BY <1>3, FileOnlyFields DEF Less, Relies, Kinds
    <2> QED BY <1>3, <2>1, <1>u, FileOnlyFields DEF KeepPower, KeepErr
  <1>4. ASSUME NEW f \in Files, NEW page \in BOOLEAN, NEW hwok \in BOOLEAN,
               NEW admin \in BOOLEAN, uart_open(f, page, hwok, admin)
        PROVE  Backed'
    <2>0. hung' = hung
      BY <1>4 DEF uart_open
    <2>1. CASE Opened(port', port)
      <3>1. Fit(port')
        BY <1>0, <2>1 DEF Opened, Fit
      <3> QED BY <3>1, <1>x
    <2>2. CASE /\ hung[f] /\ pc' = [pc EXCEPT ![f] = "failed"]
               /\ KeepErr(port', port) /\ KeepPower(port', port)
               /\ port'.tty = TRUE /\ port'.init = port.init
      <3>1. Less
        BY <2>0, <2>2, <1>h
      <3>2. /\ port.oops => port'.oops
            /\ Fit(port) => Fit(port')
        BY <1>0, <2>2 DEF KeepErr, KeepPower, Fit
      <3> QED BY <3>1, <3>2, <1>b
    <2> QED BY <1>4, <2>1, <2>2, OpenFields
  <1>5. ASSUME NEW f \in Files, NEW signal \in BOOLEAN, uart_block_til_ready(f, signal)
        PROVE  Backed'
    <2>0. hung' = hung /\ pc[f] = "waiting"
      BY <1>5 DEF uart_block_til_ready
    <2>1. CASE port' = port /\ pc' = pc
      BY <2>0, <2>1, <1>u, <1>n DEF KeepPower, KeepErr
    <2>2. CASE /\ KeepPower(port', port) /\ KeepErr(port', port) /\ KeepRun(port', port)
               /\ \/ pc' = [pc EXCEPT ![f] = "failed"]
                  \/ ~hung[f] /\ pc' = [pc EXCEPT ![f] = "open"]
      <3>1. Less
        BY <2>0, <2>2 DEF Less, Relies, Kinds
      <3> QED BY <2>2, <3>1, <1>u DEF KeepRun
    <2> QED BY <1>5, <2>1, <2>2, BlockFields
  <1>6. ASSUME NEW f \in Files, uart_close(f)
        PROVE  Backed'
    <2>1. Less
      BY <1>6 DEF uart_close, Less, Relies, Kinds
    <2>2. /\ port'.oops = port.oops /\ KeepPower(port', port)
          /\ \/ port' = port
             \/ KeepErr(port', port) /\ KeepRun(port', port)
             \/ port'.ioerr = (port.ioerr \/ port.tty)
      BY <1>6, CloseFields
    <2>3. Fit(port) => Fit(port')
      BY <1>0, <2>2 DEF KeepErr, KeepRun, KeepPower, Fit
    <2> QED BY <2>1, <2>2, <2>3, <1>b
  <1>7. ASSUME NEW f \in Files, tty_release(f)
        PROVE  Backed'
    <2>1. Less
      BY <1>7 DEF tty_release, Less, Relies, Kinds
    <2> QED BY <1>7, <2>1, <1>u, ReleaseFields DEF KeepRun
  <1>8. ASSUME NEW f \in Files, Refit(port', port), pc[f] = "ioctl",
               pc' = [pc EXCEPT ![f] = "open"], hung' = hung
        PROVE  Backed'
    <2>1. Less
      BY <1>8 DEF Less, Relies, Kinds
    <2> QED BY <1>8, <2>1, <1>b DEF Refit
  <1>9. ASSUME NEW f \in Files, NEW what \in Change, NEW page \in BOOLEAN,
               NEW hwok \in BOOLEAN, uart_set_info(f, what, page, hwok)
        PROVE  Backed'
    BY <1>8, <1>9, SetInfoRefit DEF uart_set_info
  <1>10. ASSUME NEW f \in Files, NEW found \in BOOLEAN, NEW page \in BOOLEAN,
                NEW hwok \in BOOLEAN, uart_do_autoconfig(f, found, page, hwok)
         PROVE  Backed'
    BY <1>8, <1>10, AutoconfigRefit DEF uart_do_autoconfig
  <1>11. ASSUME NEW f \in Files, uart_set_termios(f)
         PROVE  Backed'
    BY <1>11, <1>u, <1>n, TermiosFields DEF uart_set_termios, KeepAll, KeepRun
  <1>12. CASE CarrierChange
    BY <1>12, <1>u, <1>n DEF CarrierChange, KeepPower, KeepErr
  <1>13. CASE do_tty_hangup \/ RemoveHangup
    <2>1. port' = port /\ pc' = pc /\ \A f \in Files : hung[f] => hung'[f]
      BY <1>13 DEF do_tty_hangup, RemoveHangup, HangFiles, Kinds
    <2>2. Less
      BY <2>1 DEF Less, Relies
    <2> QED BY <2>1, <2>2, <1>u DEF KeepPower, KeepErr
  <1>14. CASE uart_hangup
    <2>1. Less
      BY <1>14, <1>n DEF uart_hangup
    <2>2. port'.oops = port.oops /\ (Fit(port) => Fit(port'))
      BY <1>0, <1>14, HangupFields DEF Fit
    <2> QED BY <2>1, <2>2, <1>b
  <1>15. CASE uart_suspend_port
    <2>1. Less
      BY <1>15, <1>n DEF uart_suspend_port
    <2>2. port'.oops = port.oops /\ (Fit(port) => Fit(port'))
      BY <1>0, <1>15, SuspendFields DEF Fit, KeepErr
    <2> QED BY <2>1, <2>2, <1>b
  <1>16. ASSUME NEW hwok \in BOOLEAN, uart_resume_port(hwok)
         PROVE  Backed'
    <2>1. Less
      BY <1>16, <1>n DEF uart_resume_port
    <2>2. port'.oops = port.oops /\ (Fit(port) => Fit(port'))
      BY <1>0, <1>16, ResumeFields DEF Fit
    <2> QED BY <2>1, <2>2, <1>b
  <1>17. CASE PortOnly
    BY <1>17, <1>u, <1>n, PortOnlyFields
  <1> QED
    BY <1>1, <1>2, <1>3, <1>4, <1>5, <1>6, <1>7, <1>9, <1>10, <1>11, <1>12,
       <1>13, <1>14, <1>15, <1>16, <1>17
    DEF Next, FileOnly, PortOnly

LEMMA TtyThereStep ==
    ASSUME Started(port), Started(port'), Kinds, Announced, TtyThere, [Next]_vars
    PROVE  TtyThere'
  <1>0. /\ port.tty \in BOOLEAN /\ port.init \in BOOLEAN /\ port.susp \in BOOLEAN
        /\ port.buf \in BOOLEAN /\ port.tlet \in BOOLEAN
        /\ port'.tty \in BOOLEAN /\ port'.init \in BOOLEAN /\ port'.susp \in BOOLEAN
        /\ port'.buf \in BOOLEAN /\ port'.tlet \in BOOLEAN
    BY DEF Started, PortShape
  <1>x. TtyThere' <=>
           (~StartsLate => /\ port'.init \/ port'.susp => port'.tty /\ port'.buf
                           /\ port'.tlet => port'.tty)
    BY EventsFixed DEF TtyThere, StartsLate
  <1>u. ASSUME port'.susp = port.susp, KeepRun(port', port)
        PROVE  TtyThere'
    BY <1>u, <1>x DEF TtyThere, KeepRun
  <1>d. ASSUME ~port'.init, ~port'.susp, ~port'.tlet
        PROVE  TtyThere'
    BY <1>d, <1>x
  <1>t. ~port.suspended => ~port.susp
    BY DEF Started
  <1>1. CASE UNCHANGED vars
    BY <1>1, <1>u DEF vars, KeepRun
  <1>2. ASSUME NEW f \in Files, NEW nb \in BOOLEAN, tty_open(f, nb)
        PROVE  TtyThere'
    BY <1>2, <1>u, TtyOpenFields DEF KeepPower
  <1>3. ASSUME NEW f \in Files, FileOnly(f)
        PROVE  TtyThere'
    BY <1>3, <1>u, FileOnlyFields DEF KeepRun
  <1>4. ASSUME NEW f \in Files, NEW page \in BOOLEAN, NEW hwok \in BOOLEAN,
               NEW admin \in BOOLEAN, uart_open(f, page, hwok, admin)
        PROVE  TtyThere'
    <2>1. ~port.susp
      BY <1>4, <1>t DEF uart_open, Thawed
    <2>2. CASE Opened(port', port)
      BY <1>0, <1>x, <2>1, <2>2 DEF Opened, TtyThere, KeepPower
    <2>3. CASE /\ KeepPower(port', port) /\ port'.tty = TRUE /\ port'.init = port.init
               /\ port'.buf = port.buf
      BY <1>0, <1>x, <2>3 DEF TtyThere, KeepPower
    <2> QED BY <1>4, <2>2, <2>3, OpenFields
  <1>5. ASSUME NEW f \in Files, NEW signal \in BOOLEAN, uart_block_til_ready(f, signal)
        PROVE  TtyThere'
    BY <1>5, <1>u, BlockFields DEF KeepPower, KeepRun
  <1>6. ASSUME NEW f \in Files, uart_close(f)
        PROVE  TtyThere'
    <2>1. ~port.susp
      BY <1>6, <1>t DEF uart_close, Thawed
    <2> QED BY <1>6, <2>1, <1>u, <1>d, CloseFields DEF KeepPower, KeepRun
  <1>7. ASSUME NEW f \in Files, tty_release(f)
        PROVE  TtyThere'
    BY <1>7, <1>u, ReleaseFields DEF KeepPower
  <1>8. ASSUME NEW f \in Files, pc[f] = "ioctl"
        PROVE  TtyThere'
    BY <1>8, <1>x DEF Announced, StartsLate
  <1>9. ASSUME NEW f \in Files, NEW what \in Change, NEW page \in BOOLEAN,
               NEW hwok \in BOOLEAN, uart_set_info(f, what, page, hwok)
        PROVE  TtyThere'
    BY <1>8, <1>9 DEF uart_set_info
  <1>10. ASSUME NEW f \in Files, NEW found \in BOOLEAN, NEW page \in BOOLEAN,
                NEW hwok \in BOOLEAN, uart_do_autoconfig(f, found, page, hwok)
         PROVE  TtyThere'
    BY <1>8, <1>10 DEF uart_do_autoconfig
  <1>11. ASSUME NEW f \in Files, uart_set_termios(f)
         PROVE  TtyThere'
    BY <1>11, <1>u, TermiosFields DEF KeepAll, KeepPower
  <1>12. CASE CarrierChange \/ do_tty_hangup \/ RemoveHangup
    BY <1>12, <1>u DEF CarrierChange, do_tty_hangup, RemoveHangup, KeepRun
  <1>13. CASE uart_hangup
    <2>1. CASE "hangup_suspended" \in events
      BY <2>1, <1>x DEF StartsLate
    <2>2. CASE "hangup_suspended" \notin events
      <3>1. ~port.susp
        BY <1>13, <2>2, <1>t DEF uart_hangup, Thawed
      <3> QED BY <1>13, <3>1, <1>u, <1>d, HangupFields DEF KeepPower, KeepRun
    <2> QED BY <2>1, <2>2
  <1>14. CASE uart_suspend_port
    BY <1>0, <1>14, <1>x, SuspendFields DEF TtyThere
  <1>15. ASSUME NEW hwok \in BOOLEAN, uart_resume_port(hwok)
         PROVE  TtyThere'
    BY <1>0, <1>15, <1>x, ResumeFields DEF TtyThere
  <1>16. CASE PortOnly
    BY <1>0, <1>16, <1>x, PortOnlyFields DEF TtyThere, KeepPower
  <1> QED
    BY <1>1, <1>2, <1>3, <1>4, <1>5, <1>6, <1>7, <1>9, <1>10, <1>11, <1>12,
       <1>13, <1>14, <1>15, <1>16
    DEF Next, FileOnly, PortOnly

-----------------------------------------------------------------------------

IInv ==
    /\ Started(port)
    /\ Kinds /\ Sums /\ Asleep /\ Announced
    /\ AllHung /\ Enough
    /\ Backed /\ TtyThere

LEMMA InitIInv == Init => IInv
  <1> SUFFICES ASSUME Init PROVE IInv
    OBVIOUS
  <1>1. Started(port) /\ Kinds /\ Announced /\ Asleep /\ AllHung /\ Backed /\ TtyThere
    <2>1. Started(port)
      BY DEF Init, Started, PortShape
    <2>2. Kinds
      BY DEF Init, Kinds, State
    <2>3. Announced /\ Asleep /\ AllHung
      BY DEF Init, Announced, Asleep, AllHung
    <2>4. Backed /\ TtyThere
      BY DEF Init, Backed, TtyThere, Relies
    <2> QED BY <2>1, <2>2, <2>3, <2>4
  <1>2. Busy = {} /\ Waiting = {} /\ Holders = {}
    BY DEF Init, Busy, Waiting, Holders, Holds
  <1>3. Cardinality(Busy) = 0 /\ Cardinality(Waiting) = 0 /\ Cardinality(Holders) = 0
    BY <1>2, FS_EmptySet
  <1>4. Sums /\ Enough
    BY <1>3, EventsAssumption DEF Init, Sums, Enough
  <1> QED BY <1>1, <1>4 DEF IInv

\* Every file that may use the port is counted and backed, nobody sleeps
\* inside a call of a suspended port, and a port that runs or will be resumed
\* has its tty and buffer.
THEOREM Invariant == Spec => []IInv
  <1>1. IInv /\ [Next]_vars => IInv'
    <2> SUFFICES ASSUME IInv, [Next]_vars PROVE IInv'
      OBVIOUS
    <2>1. Started(port')
      BY StartedStep DEF IInv
    <2>2. Kinds' /\ Sums' /\ Asleep' /\ Announced'
      BY KindsStep, SumsStep, AsleepStep, AnnouncedStep DEF IInv
    <2>3. AllHung' /\ Enough' /\ Backed' /\ TtyThere'
      BY <2>1, AllHungStep, EnoughStep, BackedStep, TtyThereStep DEF IInv
    <2>4. Started(port)'
      BY <2>1 DEF Started
    <2> QED BY <2>2, <2>3, <2>4 DEF IInv
  <1> QED BY <1>1, InitIInv, PTL DEF Spec

\* A file that is open and not hung up has a port behind it that runs, that a
\* resume will start again or whose I/O fails, unless the kernel has oopsed;
\* and it is counted, so that no other close shuts the port down.
THEOREM UsersAreServed == Spec => []UsersServed
  <1>1. IInv => UsersServed
    <2> SUFFICES ASSUME IInv PROVE UsersServed
      OBVIOUS
    <2> DEFINE N == Cardinality(Files)
    <2>1. port \in PortShape /\ port.hw = IF port.init THEN 1 ELSE 0
      BY DEF IInv, Started
    <2>2. /\ IsFiniteSet(Busy) /\ IsFiniteSet(Waiting) /\ IsFiniteSet(Holders)
          /\ Cardinality(Busy) \in Nat /\ Cardinality(Waiting) \in Nat
          /\ Cardinality(Busy) <= N /\ Cardinality(Waiting) <= N /\ N \in Nat
      BY EventsAssumption, FS_Subset, FS_CardinalityType DEF Busy, Waiting, Holders
    <2>3. /\ port.users \in 0 .. N /\ port.blocked \in 0 .. N
          /\ port.count \in 0 .. MaxCount
      BY <2>1, <2>2, EventsAssumption DEF IInv, Sums, PortShape
    <2>4. port.hw \in -1 .. 2
      BY <2>1 DEF PortShape
    <2> HIDE DEF N
    <2>5. port \in PortType
      BY <2>1, <2>3, <2>4 DEF PortShape, PortType, N
    <2>6. TypeOK
      BY <2>5 DEF TypeOK, IInv, Kinds, State
    <2>7. OpenIsBacked
      BY <2>1 DEF OpenIsBacked, IInv, Announced, Backed, Relies, Using, Fit
    <2>8. UsersCounted
      <3> DEFINE U == {f \in Files : Using(f)}
      <3>1. U \subseteq Holders
        BY DEF Holders, Holds, Using
      <3>2. /\ Cardinality(U) <= Cardinality(Holders)
            /\ Cardinality(U) \in Nat /\ Cardinality(Holders) \in Nat
        BY <2>2, <3>1, FS_Subset, FS_CardinalityType
      <3>3. port.count \in Int
        BY <2>1 DEF PortShape
      <3> HIDE DEF U
      <3>4. ~Miscounts => Cardinality(U) <= port.count
        BY <3>2, <3>3 DEF IInv, Enough
      <3> QED BY <3>4 DEF UsersCounted, U
    <2> QED BY <2>6, <2>7, <2>8 DEF UsersServed
  <1> QED BY <1>1, Invariant, PTL

\* A started port, and a scheduled tasklet, find a tty; a started port has its
\* transmit buffer.
THEOREM TtyIsThere == Spec => []StartedHasTty
  <1>1. IInv => StartedHasTty
    BY DEF IInv, TtyThere, StartedHasTty
  <1> QED BY <1>1, Invariant, PTL
=============================================================================
