---------------------------- MODULE SerialDaemon ----------------------------
(* serial_daemon.c: the page that collects what is written to the serial    *)
(* ports and the console, the kernel thread that sends it to the attached   *)
(* daemon over netlink, and the attach and detach commands.                 *)
(*                                                                          *)
(* The file takes no lock, and one buffer serves every port: each load and  *)
(* store of length that another context can come between is a step.  What   *)
(* the compiler may keep in a register is a choice.  sock is set once at    *)
(* boot (the driver is built in) and is left out.  A byte is the number of  *)
(* its arrival.                                                             *)
EXTENDS Integers, Sequences, FiniteSets

CONSTANTS
    PAGE_SIZE,   \* bytes of serial_daemon.buf
    SkbRoom,     \* payload bytes of an skb of NLMSG_DEFAULT_SIZE
    Consoles,    \* contexts in uart_console_write
    Ttys,        \* threads in uart_write
    Pids,        \* processes that may attach
    MaxLen,      \* longest write: UART_XMIT_SIZE - 1 in the code
    MaxCalls,    \* bound: writes and console messages in a behaviour
    AllocFails   \* may nlmsg_new return NULL

Loggers == Consoles \cup Ttys

ASSUME PageAssumption == PAGE_SIZE \in Nat \ {0} /\ SkbRoom \in Nat
ASSUME LenAssumption == MaxLen \in 1..PAGE_SIZE /\ MaxCalls \in Nat
ASSUME PidAssumption == 0 \notin Pids
ASSUME KindAssumption == Consoles \cap Ttys = {}

VARIABLES
    buf, length, pid, done,    \* struct uart_daemon; done is completion.done
    alive,                     \* the processes that exist
    wpc, len, left, reg,       \* writers: step, bytes of this call, bytes of
                               \* the console message to follow, register
    kpc, declared, msg,        \* the kernel thread and its skb
    calls,                     \* writes and messages begun so far
    logged, out, wrapped,      \* history: bytes taken, bytes sent, was the
                               \* buffer ever restarted because it was full,
    overlap                    \* who has met in the middle of a log entry

kvars == <<kpc, declared, msg>>
wvars == <<wpc, len, left, reg, calls>>
hist == <<logged, out, wrapped, overlap>>
daemon_vars == <<buf, length, pid, done, alive, wvars, kvars, hist>>

\* Room for what an unguarded memcpy writes behind the page.
Offsets == 0 .. 2 * PAGE_SIZE - 1

DaemonInit ==
    /\ buf = [i \in Offsets |-> 0]
    /\ length = 0
    /\ pid = 0
    /\ done = 0
    /\ alive = Pids
    /\ wpc = [w \in Loggers |-> "idle"]
    /\ len = [w \in Loggers |-> 0]
    /\ left = [w \in Loggers |-> 0]
    /\ reg = [w \in Loggers |-> 0]
    /\ kpc = "wait"
    /\ declared = 0
    /\ msg = <<>>
    /\ calls = 0
    /\ logged = 0
    /\ out = <<>>
    /\ wrapped = FALSE
    /\ overlap = {}

-----------------------------------------------------------------------------
(* serial_daemon_write and serial_daemon_putchar.                           *)

\* Between the check of length and its update; between the kernel thread's
\* first and last look at it.
Inside(w) == wpc[w] \in {"check", "reset", "copy", "load", "store"}
KInside == kpc \in {"put", "memcpy", "clear"}

\* Whom w meets when it begins an entry.
Met(w) == (IF \E v \in Loggers \ {w} : Inside(v) THEN {"writers"} ELSE {})
          \cup (IF KInside THEN {"thread"} ELSE {})

\* uart_write logs n bytes in one call, uart_console_write calls putchar for
\* each of n characters.
Call(w, n) ==
    /\ wpc[w] = "idle"
    /\ calls < MaxCalls
    /\ calls' = calls + 1
    /\ wpc' = [wpc EXCEPT ![w] = "enter"]
    /\ len' = [len EXCEPT ![w] = IF w \in Consoles THEN 1 ELSE n]
    /\ left' = [left EXCEPT ![w] = IF w \in Consoles THEN n ELSE 1]
    /\ UNCHANGED <<buf, length, pid, done, alive, reg, kvars, hist>>

\* if(sock && pid): without a daemon the call does nothing.  After the last
\* call a console completes; a tty goes on to uart_start, which completes
\* unless it finds nothing to start.
Enter(w) ==
    /\ wpc[w] = "enter"
    /\ \/ /\ left[w] > 0
          /\ left' = [left EXCEPT ![w] = left[w] - 1]
          /\ wpc' = [wpc EXCEPT ![w] = IF pid # 0 THEN "check" ELSE "enter"]
          /\ overlap' = IF pid # 0 THEN overlap \cup Met(w) ELSE overlap
       \/ /\ left[w] = 0
          /\ \/ wpc' = [wpc EXCEPT ![w] = "complete"]
             \/ w \in Ttys /\ wpc' = [wpc EXCEPT ![w] = "idle"]
          /\ UNCHANGED <<left, overlap>>
    /\ UNCHANGED <<buf, length, pid, done, alive, len, reg, calls, kvars, logged,
                   out, wrapped>>

\* if(length + len > PAGE_SIZE).  The mutant forgets len.
CheckFull(w) ==
    /\ wpc[w] = "check"
    /\ wpc' = [wpc EXCEPT ![w] = IF length > PAGE_SIZE THEN "reset" ELSE "copy"]
    /\ reg' = [reg EXCEPT ![w] = length]
    /\ UNCHANGED <<buf, length, pid, done, alive, len, left, calls, kvars, hist>>

Check(w) ==
    /\ wpc[w] = "check"
    /\ wpc' = [wpc EXCEPT ![w] = IF length + len[w] > PAGE_SIZE
                               THEN "reset" ELSE "copy"]
    /\ reg' = [reg EXCEPT ![w] = length]
    /\ UNCHANGED <<buf, length, pid, done, alive, len, left, calls, kvars, hist>>

\*     length = 0;
Restart(w) ==
    /\ wpc[w] = "reset"
    /\ length' = 0
    /\ reg' = [reg EXCEPT ![w] = 0]
    /\ wrapped' = TRUE
    /\ wpc' = [wpc EXCEPT ![w] = "copy"]
    /\ UNCHANGED <<buf, pid, done, alive, len, left, calls, kvars, logged, out,
                   overlap>>

\* memcpy(buf + length, data, len): length is read again, or not.
Copy(w) ==
    /\ wpc[w] = "copy"
    /\ \E off \in {reg[w], length} :
         buf' = [i \in Offsets |-> IF i \in off .. off + len[w] - 1
                                   THEN logged + 1 + i - off ELSE buf[i]]
    /\ logged' = logged + len[w]
    /\ wpc' = [wpc EXCEPT ![w] = "load"]
    /\ UNCHANGED <<length, pid, done, alive, len, left, reg, calls, kvars, out,
                   wrapped, overlap>>

\* length += len: the load ...
Load(w) ==
    /\ wpc[w] = "load"
    /\ reg' = [reg EXCEPT ![w] = length]
    /\ wpc' = [wpc EXCEPT ![w] = "store"]
    /\ UNCHANGED <<buf, length, pid, done, alive, len, left, calls, kvars, hist>>

\* ... and the store.
Store(w) ==
    /\ wpc[w] = "store"
    /\ length' = reg[w] + len[w]
    /\ reg' = [reg EXCEPT ![w] = 0]
    /\ wpc' = [wpc EXCEPT ![w] = "enter"]
    /\ UNCHANGED <<buf, pid, done, alive, len, left, calls, kvars, hist>>

\* The mutant completes for a daemon that is not there.
CompleteSwapped(w) ==
    /\ wpc[w] = "complete"
    /\ done' = IF pid = 0 THEN done + 1 ELSE done
    /\ wpc' = [wpc EXCEPT ![w] = "idle"]
    /\ UNCHANGED <<buf, length, pid, alive, len, left, reg, calls, kvars, hist>>

serial_daemon_complete(w) ==
    /\ wpc[w] = "complete"
    /\ done' = IF pid # 0 THEN done + 1 ELSE done
    /\ wpc' = [wpc EXCEPT ![w] = "idle"]
    /\ UNCHANGED <<buf, length, pid, alive, len, left, reg, calls, kvars, hist>>

-----------------------------------------------------------------------------
(* serial_daemon_kthread, one round of its loop.                            *)

KWait ==
    /\ kpc = "wait"
    /\ done > 0
    /\ done' = done - 1
    /\ kpc' = "test"
    /\ UNCHANGED <<buf, length, pid, alive, wvars, declared, msg, hist>>

\* A failed allocation is printed and then used.
KTest ==
    /\ kpc = "test"
    /\ \/ pid # 0 /\ length # 0 /\ kpc' = "put"
       \/ pid # 0 /\ length # 0 /\ AllocFails /\ kpc' = "oops"
       \/ ~(pid # 0 /\ length # 0) /\ kpc' = "wait"
    /\ overlap' = IF kpc' = "put" /\ \E w \in Loggers : Inside(w)
                  THEN overlap \cup {"thread"} ELSE overlap
    /\ UNCHANGED <<buf, length, pid, done, alive, wvars, declared, msg, logged,
                   out, wrapped>>

\* nlmsg_put: NULL, which the memcpy below writes through, if there is no
\* room for length bytes.
KPut ==
    /\ kpc = "put"
    /\ declared' = length
    /\ kpc' = IF length > SkbRoom THEN "oops" ELSE "memcpy"
    /\ UNCHANGED <<buf, length, pid, done, alive, wvars, msg, hist>>

KCopy ==
    /\ kpc = "memcpy"
    /\ msg' = [i \in 1..length |-> buf[i - 1]]
    /\ kpc' = "clear"
    /\ UNCHANGED <<buf, length, pid, done, alive, wvars, declared, hist>>

\* In the mutant length is not reset.
KForgets ==
    /\ kpc = "clear"
    /\ kpc' = "send"
    /\ UNCHANGED <<buf, length, pid, done, alive, wvars, declared, msg, hist>>

KClear ==
    /\ kpc = "clear"
    /\ length' = 0
    /\ kpc' = "send"
    /\ UNCHANGED <<buf, pid, done, alive, wvars, declared, msg, hist>>

\* netlink_unicast to whoever is attached now.
KSend ==
    /\ kpc = "send"
    /\ out' = out \o msg
    /\ msg' = <<>>
    /\ declared' = 0
    /\ kpc' = "wait"
    /\ UNCHANGED <<buf, length, pid, done, alive, wvars, logged, wrapped, overlap>>

-----------------------------------------------------------------------------
(* serial_daemon_control and serial_daemon_proc_write.                      *)

Attach(p) ==
    /\ p \in alive
    /\ pid' = p
    /\ UNCHANGED <<buf, length, done, alive, wvars, kvars, hist>>

\* CMD_DETTACH, or a number that is no process written to the proc file.
Detach ==
    /\ pid' = 0
    /\ UNCHANGED <<buf, length, done, alive, wvars, kvars, hist>>

\* A daemon that exits without CMD_DETTACH, as telnetd does, stays attached.
Exit(p) ==
    /\ alive' = alive \ {p}
    /\ UNCHANGED <<buf, length, pid, done, wvars, kvars, hist>>

-----------------------------------------------------------------------------

WriterStep(w) ==
    \/ Enter(w) \/ Check(w) \/ Restart(w) \/ Copy(w) \/ Load(w) \/ Store(w)
    \/ serial_daemon_complete(w)

KthreadStep == KWait \/ KTest \/ KPut \/ KCopy \/ KClear \/ KSend

DaemonNext ==
    \/ \E w \in Loggers : \/ \E n \in 1..MaxLen : Call(w, n)
                          \/ WriterStep(w)
    \/ KthreadStep
    \/ \E p \in Pids : Attach(p) \/ Exit(p)
    \/ Detach

DaemonSpec == DaemonInit /\ [][DaemonNext]_daemon_vars

\* A context that has begun a call finishes it, and the scheduler runs the
\* kernel thread.
FairDaemon ==
    /\ DaemonSpec
    /\ \A w \in Loggers : WF_daemon_vars(WriterStep(w))
    /\ WF_daemon_vars(KthreadStep)

-----------------------------------------------------------------------------

\* The variables are of the declared kind.
DaemonTypeOK ==
    /\ buf \in [Offsets -> Nat]
    /\ length \in Nat
    /\ pid \in Pids \cup {0}
    /\ done \in Nat
    /\ alive \subseteq Pids
    /\ wpc \in [Loggers -> {"idle", "enter", "check", "reset", "copy", "load",
                           "store", "complete"}]
    /\ len \in [Loggers -> 0..MaxLen]
    /\ left \in [Loggers -> 0..MaxLen]
    /\ reg \in [Loggers -> Nat]
    /\ kpc \in {"wait", "test", "put", "memcpy", "clear", "send", "oops"}
    /\ declared \in Nat
    /\ calls \in 0..MaxCalls
    /\ logged \in Nat
    /\ wrapped \in BOOLEAN
    /\ overlap \subseteq {"writers", "thread"}

\* "serial daemon buffer size is 4KB": nobody is about to write behind the
\* page, and the kernel thread never reads behind it.
WithinBuffer ==
    /\ length <= PAGE_SIZE
    /\ \A w \in Loggers : wpc[w] = "copy" =>
          reg[w] + len[w] <= PAGE_SIZE /\ length + len[w] <= PAGE_SIZE

\* Without a lock that holds only as long as no two contexts log at the same
\* time; the kernel thread and the daemons may come between at any point.
AloneWithinBuffer == "writers" \notin overlap => WithinBuffer

\* What a lone writer knows about length between its check and its store:
\* the kernel thread may have emptied the buffer, but nobody filled it.
WriterBound ==
    \A w \in Loggers :
        /\ wpc[w] \in {"copy", "load"} => length + len[w] <= PAGE_SIZE
        /\ wpc[w] \in {"copy", "store"} => reg[w] + len[w] <= PAGE_SIZE

\* As long as nobody meets anybody, the thread included, and the buffer was
\* never restarted, what was sent and what is in the buffer are together the
\* bytes that were logged, each once and in order, and the nlmsg_flags of a
\* message give its length.
SentOnceInOrder ==
    overlap = {} =>
        /\ kpc = "send" => declared = Len(msg)
        /\ ~wrapped /\ kpc \in {"wait", "test"} /\ ~(\E w \in Loggers : Inside(w))
           => out \o [i \in 1..length |-> buf[i - 1]] = [i \in 1..logged |-> i]

\* What the console logs does not stay in the buffer: once a message ends
\* with a daemon attached that stays attached, the buffer is emptied, unless
\* the thread dies of a failed allocation or of a message too long for it.
Drained ==
    \A w \in Consoles :
        [](wpc[w] = "complete" /\ length > 0 /\ [](pid # 0)
             => <>(length = 0 \/ kpc = "oops"))
=============================================================================
