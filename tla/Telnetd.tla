------------------------------ MODULE Telnetd ------------------------------
(* telnetd.c: the main loop over the list of sessions, the descriptors it   *)
(* selects on, the accept of new clients, the SIGCHLD handler that may run  *)
(* at any point of it, and the serial log that arrives over netlink.        *)
(*                                                                          *)
(* TelnetdSession models what a pass does to one session's buffers; here a  *)
(* buffer is full or it is not, and a session ends or goes on.  A session   *)
(* and its shell have one name, the shell's pid.                            *)
EXTENDS Integers, SequencesExt

CONSTANTS
    Pids,       \* pids of shells
    MaxClients, \* TELNETD_MAX_CLIENTS
    master_fd,  \* the listening socket
    netlink_fd, \* the socket of the serial daemon
    MaxQueue,   \* bound: waiting clients, and messages netlink holds
    Events      \* what may happen besides clients and shells coming and going

\* "held": a shell leaves its terminal open in another process; "stuck":
\* a shell or a client does not read and a buffer fills up; "error": reads,
\* writes, accept and vfork fail; "nopty": no pty is left.
Event == {"held", "stuck", "error", "nopty"}

\* Lower descriptors are in use when the server opens these two.
ASSUME ServerAssumption ==
    /\ MaxClients \in Nat \ {0} /\ MaxQueue \in Nat \ {0}
    /\ master_fd \in Nat /\ netlink_fd \in Nat /\ master_fd < netlink_fd
    /\ Events \subseteq Event

VARIABLES
    sessions,  \* G.sessions
    tsession,  \* the tsession of each pid that has one
    maxfd,     \* G.maxfd
    pc,        \* where the main loop is
    todo,      \* sessions the current loop over them has not visited
    fds,       \* rdfdset, before and after select()
    raised,    \* history: maxfd covers a client for whom vfork failed
    new,       \* the pid vfork returned, until the session is linked
    proc,      \* what the shells are doing
    slave,     \* terminals somebody still has open
    gone,      \* clients that have closed their connection
    backlog,   \* clients waiting for accept()
    netq       \* messages of the kernel not yet received

loop == <<maxfd, raised, pc, todo, fds, new>>
env == <<proc, slave, gone, backlog, netq>>
vars == <<sessions, tsession, loop, env>>

Linked == {sessions[i] : i \in 1 .. Len(sessions)}

Session == [sock : Nat, pty : Nat, shell_pid : Pids \cup {-1},
            full : SUBSET {1, 2}]

Init ==
    /\ sessions = <<>>
    /\ tsession = <<>>
    /\ maxfd = 0 /\ raised = FALSE /\ pc = "scan" /\ todo = <<>> /\ fds = {} /\ new = {}
    /\ proc = [p \in Pids |-> "none"]
    /\ slave = {} /\ gone = {} /\ backlog = 0 /\ netq = 0

-----------------------------------------------------------------------------
(* Descriptors.                                                             *)

Fds(ps) == {tsession[p].sock : p \in ps} \cup {tsession[p].pty : p \in ps}

\* The kernel hands out the lowest free descriptor.
Lowest(used) ==
    Min({n \in netlink_fd + 1 .. netlink_fd + 1 + Cardinality(used) :
            n \notin used})

\* The largest descriptor of the sessions in ps, 0 without any.
SessionMax(ps) == IF ps = {} THEN 0 ELSE Max(Fds(ps))

\* What maxfd is raised to before select().  netlink_fd does not raise it:
\* maxfd is set to master_fd.  The mutant sets it to netlink_fd.
SelectMaxNetlink(m) ==
    LET a == IF master_fd > m THEN master_fd ELSE m
    IN IF netlink_fd > a THEN netlink_fd ELSE a

SelectMax(m) ==
    LET a == IF master_fd > m THEN master_fd ELSE m
    IN IF netlink_fd > a THEN master_fd ELSE a

-----------------------------------------------------------------------------

\* goto again
Again(list) == pc' = "scan" /\ todo' = list /\ fds' = {}

free_session(p) ==
    /\ \E i \in 1 .. Len(sessions) : /\ sessions[i] = p
                                     /\ sessions' = RemoveAt(sessions, i)
    /\ tsession' = [q \in DOMAIN tsession \ {p} |-> tsession[q]]
    /\ maxfd' = SessionMax(Linked \ {p}) /\ raised' = FALSE
    /\ gone' = gone \ {p}

\* The first loop: sessions whose shell has died are freed, the others are
\* selected on as far as there is room in their buffers.
Scan ==
    /\ pc = "scan" /\ todo # <<>>
    /\ LET p == Head(todo)
       IN \/ /\ tsession[p].shell_pid = -1
             /\ free_session(p)
             /\ UNCHANGED fds
          \/ /\ tsession[p].shell_pid # -1
             /\ fds' = fds \cup {fd \in {tsession[p].sock, tsession[p].pty} :
                                   \/ fd = tsession[p].sock /\ 1 \notin tsession[p].full
                                   \/ fd = tsession[p].pty /\ 2 \notin tsession[p].full}
             /\ UNCHANGED <<sessions, tsession, maxfd, raised, gone>>
    /\ todo' = Tail(todo)
    /\ UNCHANGED <<pc, new, proc, slave, backlog, netq>>

SelectSetup ==
    /\ pc = "scan" /\ todo = <<>>
    /\ fds' = fds \cup {master_fd, netlink_fd}
    /\ maxfd' = SelectMax(maxfd)
    /\ pc' = "call"
    /\ UNCHANGED <<sessions, tsession, raised, todo, new, env>>

\* The process enters select(); a signal before this does not interrupt it.
SelectCall ==
    /\ pc = "call"
    /\ pc' = "blocked"
    /\ UNCHANGED <<sessions, tsession, maxfd, raised, todo, fds, new, env>>

\* Descriptors that are readable whatever the clients and shells say.
Readable ==
    {fd \in fds :
        \/ fd = master_fd /\ backlog > 0
        \/ fd = netlink_fd /\ netq > 0
        \/ \E p \in Linked : \/ fd = tsession[p].sock /\ p \in gone
                             \/ fd = tsession[p].pty /\ p \notin slave}

\* chat: the sessions whose client or shell has said something, or that can
\* be written to.
Select(chat) ==
    /\ pc = "blocked"
    /\ LET r == {fd \in (Readable \cup Fds(chat)) \cap fds : fd <= maxfd}
       IN /\ r # {} \/ chat # {}
          /\ \/ sessions = <<>> /\ master_fd \notin r /\ Again(<<>>)
             \/ /\ sessions # <<>> \/ master_fd \in r
                /\ fds' = r
                /\ pc' = IF master_fd \in r THEN "accept" ELSE "serve"
                /\ todo' = sessions
    /\ UNCHANGED <<sessions, tsession, maxfd, raised, new, env>>

-----------------------------------------------------------------------------
(* New clients.                                                             *)

\* The mutant lets one too many in.
AllowsOneMore == Len(sessions) <= MaxClients

new_session_is_allowed == Len(sessions) < MaxClients

Refuse ==
    /\ pc = "accept"
    /\ \/ backlog > 0 /\ ~new_session_is_allowed /\ backlog' = backlog - 1
       \/ "error" \in Events /\ UNCHANGED backlog
    /\ Again(sessions)
    /\ UNCHANGED <<sessions, tsession, maxfd, raised, new, proc, slave, gone, netq>>

\* xgetpty ends the program when there is no pty.
Die ==
    /\ pc = "accept" /\ backlog > 0 /\ new_session_is_allowed
    /\ "nopty" \in Events
    /\ pc' = "exited"
    /\ UNCHANGED <<sessions, tsession, maxfd, raised, todo, fds, new, env>>

\* make_new_session up to the return from vfork: the shell runs already.
make_new_session(p) ==
    LET sock == Lowest(Fds(Linked))
        pty == Lowest(Fds(Linked) \cup {sock})
    IN /\ pc = "accept" /\ backlog > 0 /\ new_session_is_allowed
       /\ proc[p] = "none" /\ p \notin Linked
       /\ backlog' = backlog - 1
       /\ maxfd' = Max({maxfd, sock, pty})
       /\ tsession' = [q \in DOMAIN tsession \cup {p} |->
                   IF q = p THEN [sock |-> sock, pty |-> pty, shell_pid |-> p,
                                  full |-> {}]
                   ELSE tsession[q]]
       /\ proc' = [proc EXCEPT ![p] = "run"]
       /\ slave' = slave \cup {p}
       /\ new' = {p}
       /\ pc' = "link"
       /\ UNCHANGED <<sessions, raised, todo, fds, gone, netq>>

\* vfork fails; maxfd keeps the descriptors that are closed again.
VforkFails ==
    LET sock == Lowest(Fds(Linked))
        pty == Lowest(Fds(Linked) \cup {sock})
    IN /\ pc = "accept" /\ backlog > 0 /\ new_session_is_allowed
       /\ "error" \in Events
       /\ backlog' = backlog - 1
       /\ maxfd' = Max({maxfd, sock, pty}) /\ raised' = TRUE
       /\ \/ sessions = <<>> /\ Again(<<>>)
          \/ sessions # <<>> /\ pc' = "serve" /\ UNCHANGED <<todo, fds>>
       /\ UNCHANGED <<sessions, tsession, new, proc, slave, gone, netq>>

Link ==
    /\ pc = "link"
    /\ \E p \in new : /\ sessions' = <<p>> \o sessions
                      /\ todo' = <<p>> \o sessions
    /\ new' = {}
    /\ pc' = "serve"
    /\ UNCHANGED <<tsession, maxfd, raised, fds, env>>

-----------------------------------------------------------------------------
(* The second loop, for the session at the head of todo.                    *)

\* The end of a session's turn, list being the sessions after it.
NextSession(list) ==
    \/ Len(todo) > 1 /\ pc' = "serve" /\ todo' = Tail(todo) /\ UNCHANGED fds
    \/ Len(todo) = 1 /\ Again(list)

\* Buffer 1 goes to the pty.  EAGAIN jumps over the serial log.
ServePty(result) ==
    /\ pc = "serve"
    /\ result # "ok" => "error" \in Events
    /\ \/ result = "ok" /\ pc' = "recv"
          /\ UNCHANGED <<sessions, tsession, maxfd, raised, todo, fds, gone>>
       \/ result = "again" /\ pc' = "rest"
          /\ UNCHANGED <<sessions, tsession, maxfd, raised, todo, fds, gone>>
       \/ result = "kill" /\ free_session(Head(todo)) /\ NextSession(sessions')
    /\ UNCHANGED <<new, proc, slave, backlog, netq>>

\* recvmsg blocks until there is a message; it goes to the first session of
\* the list, what its socket does not take is lost.
serial_daemon_recvmsg ==
    /\ pc = "recv"
    /\ \/ netlink_fd \in fds /\ netq > 0 /\ netq' = netq - 1
       \/ netlink_fd \notin fds /\ UNCHANGED netq
    /\ pc' = "rest"
    /\ UNCHANGED <<sessions, tsession, maxfd, raised, todo, fds, new, proc, slave, gone,
                   backlog>>

\* The read of a closed connection returns 0, the read of a terminal that
\* nobody has open fails.  The mutant takes the latter for EAGAIN.
IgnoresHangup(p) == tsession[p].sock \in fds /\ p \in gone

Ended(p) ==
    \/ tsession[p].sock \in fds /\ p \in gone
    \/ tsession[p].pty \in fds /\ p \notin slave

\* Buffer 2 to the socket, the socket to buffer 1, the pty to buffer 2.
\* full: which of the buffers are full afterwards.
ServeRest(full, fails) ==
    /\ pc = "rest"
    /\ fails => "error" \in Events
    /\ full = {} \/ "stuck" \in Events
    /\ LET p == Head(todo)
       IN \/ /\ Ended(p) \/ fails
             /\ free_session(p)
             /\ NextSession(sessions')
          \/ /\ ~Ended(p) /\ ~fails
             /\ tsession' = [tsession EXCEPT ![p].full = full]
             /\ NextSession(sessions)
             /\ UNCHANGED <<sessions, maxfd, raised, gone>>
    /\ UNCHANGED <<new, proc, slave, backlog, netq>>

-----------------------------------------------------------------------------

\* All dead children are reaped; those whose session is in the list are
\* marked.  select() is interrupted if the signal finds the process in it.
handle_sigchld ==
    LET dead == {p \in Pids : proc[p] = "zombie"}
    IN /\ dead # {} /\ pc # "exited"
       /\ proc' = [p \in Pids |-> IF p \in dead THEN "none" ELSE proc[p]]
       /\ tsession' = [p \in DOMAIN tsession |->
                   IF p \in dead \cap Linked THEN [tsession[p] EXCEPT !.shell_pid = -1]
                   ELSE tsession[p]]
       /\ \/ pc = "blocked" /\ Again(sessions)
          \/ pc # "blocked" /\ UNCHANGED <<pc, todo, fds>>
       /\ UNCHANGED <<sessions, maxfd, raised, new, slave, gone, backlog, netq>>

(* Clients, shells and the kernel.                                          *)

Connect ==
    /\ backlog < MaxQueue
    /\ backlog' = backlog + 1
    /\ UNCHANGED <<sessions, tsession, loop, proc, slave, gone, netq>>

ClientCloses(p) ==
    /\ p \in Linked \ gone
    /\ gone' = gone \cup {p}
    /\ UNCHANGED <<sessions, tsession, loop, proc, slave, backlog, netq>>

ShellExits(p, held) ==
    /\ proc[p] = "run"
    /\ held => "held" \in Events
    /\ proc' = [proc EXCEPT ![p] = "zombie"]
    /\ slave' = IF held THEN slave ELSE slave \ {p}
    /\ UNCHANGED <<sessions, tsession, loop, gone, backlog, netq>>

\* serial_daemon_kthread; netlink drops what does not fit.
KernelSends ==
    /\ netq < MaxQueue
    /\ netq' = netq + 1
    /\ UNCHANGED <<sessions, tsession, loop, proc, slave, gone, backlog>>

Server ==
    \/ Scan \/ SelectSetup \/ SelectCall
    \/ Refuse \/ Die \/ VforkFails \/ Link
    \/ \E p \in Pids : make_new_session(p)
    \/ \E result \in {"ok", "again", "kill"} : ServePty(result)
    \/ serial_daemon_recvmsg
    \/ \E full \in SUBSET {1, 2}, fails \in BOOLEAN : ServeRest(full, fails)

Next ==
    \/ Server
    \/ \E chat \in SUBSET Linked : Select(chat)
    \/ handle_sigchld
    \/ Connect
    \/ KernelSends
    \/ \E p \in Pids : ClientCloses(p) \/ \E held \in BOOLEAN : ShellExits(p, held)

Spec == Init /\ [][Next]_vars

\* The server runs whenever it can, select() returns when something is
\* readable, and signals are delivered.
FairSpec ==
    /\ Spec
    /\ WF_vars(Server)
    /\ WF_vars(Select({}))
    /\ WF_vars(handle_sigchld)

-----------------------------------------------------------------------------

\* todo is what is left of the list from some session on.
Visiting ==
    \E k \in 1 .. Len(sessions) + 1 : todo = SubSeq(sessions, k, Len(sessions))

\* The variables are of the declared kind, and the sessions in the list are
\* different ones.
TypeOK ==
    /\ sessions \in Seq(Pids) /\ IsInjective(sessions)
    /\ DOMAIN tsession = Linked \cup new
    /\ \A p \in DOMAIN tsession : tsession[p] \in Session
    /\ maxfd \in Nat /\ raised \in BOOLEAN
    /\ pc \in {"scan", "call", "blocked", "accept", "link", "serve", "recv",
               "rest", "exited"}
    /\ Visiting \/ pc \in {"accept", "link", "exited"}
    /\ fds \subseteq Nat
    /\ new \subseteq Pids
    /\ proc \in [Pids -> {"none", "run", "zombie"}]
    /\ slave \subseteq Pids /\ gone \subseteq Pids
    /\ backlog \in 0 .. MaxQueue /\ netq \in 0 .. MaxQueue

\* select() looks at every descriptor it should: maxfd covers the listening
\* socket, all sessions whatever was freed since it was last computed, and
\* the serial log if there is a session to send it to.
SelectsAll ==
    pc = "blocked" =>
        /\ \A fd \in Fds(Linked) : fd <= maxfd
        /\ master_fd <= maxfd
        /\ sessions # <<>> => netlink_fd <= maxfd

\* Without a session nobody receives the serial log, and select() must not
\* look at it: the loop would spin on the waiting message.  (It does after a
\* failed vfork, which leaves maxfd raised, until a session has ended.)
NoSpin == pc = "blocked" /\ sessions = <<>> /\ ~ raised => netlink_fd > maxfd

\* maxfd is right at every select(), although free_session recomputes it
\* without the listening and netlink sockets and the loop then sets it to
\* master_fd where netlink_fd was meant.
SelectsRight == TypeOK /\ SelectsAll /\ NoSpin

\* recvmsg, which would block the whole server, has a message to receive.
RecvHasMessage == pc = "recv" /\ netlink_fd \in fds => netq > 0

\* A session whose client has closed the connection, or whose terminal
\* nobody has open any more, is freed, if clients do not come without end and
\* the buffers do not stay full.
SessionsEnd ==
    <>[](backlog = 0 /\ \A p \in DOMAIN tsession : tsession[p].full = {}) =>
        \A p \in Pids :
            p \in Linked /\ (p \in gone \/ p \notin slave)
                ~> ~(p \in Linked /\ (p \in gone \/ p \notin slave)) \/ pc = "exited"

\* "we must have this flag to ensure that tsession is closed when cli exit":
\* the SIGCHLD handler, and not the terminal, ends the session.  The code does
\* not keep this: see the README.
ClosedOnExit ==
    <>[](backlog = 0) =>
        \A p \in Pids : p \in Linked /\ proc[p] # "run"
                            ~> ~(p \in Linked /\ proc[p] # "run")
=============================================================================
