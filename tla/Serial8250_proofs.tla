--------------------------- MODULE Serial8250_proofs ---------------------------
(* Proofs about Serial8250, for any number of ports on the line, of rounds    *)
(* and of characters.                                                         *)
EXTENDS Serial8250, FiniteSetTheorems, SequenceTheorems, TLAPS

-----------------------------------------------------------------------------
(* The invariant.                                                            *)

\* Where a port is linked.
Chained == {"request", "init", "txen", "clear", "termios", "open", "lower", "timer",
            "unlink", "unlinking"}

\* ... and where its interrupts have been off since the test of the startup.
Early == {"lookup", "link", "request", "init"}

\* port->lock is held across steps by the startup's test and by the console.
Locks ==
    \A p \in Ports :
        /\ lock[p] = "startup" <=> pc[p] = "txen"
        /\ lock[p] = "console" <=> p = Console /\ con.pc # "idle"

\* The chain holds the linked ports, once each, and the handler is at one.
Links ==
    /\ IsInjective(chain)
    /\ \A p \in Ports : p \in ToSet(chain) <=> pc[p] \in Chained
    /\ irq.pc # "idle" => /\ irq.l \in ToSet(chain)
                          /\ irq.end \in ToSet(chain) \cup {"none"}
    /\ \A p \in Ports : /\ pc[p] # "closed" => opens > 0
                        /\ pc[p] = "link" => ptr[p] # 0
    /\ chain # <<>> => info # 0

\* If no two links or unlinks overlapped: one is in the middle of it at most,
\* and without a handler there is nobody else in the chain.
Alone ==
    ~ overlap =>
        /\ \A p, q \in Ports : pc[p] \in Linking /\ pc[q] \in Linking => p = q
        /\ ~ registered => \A p \in Ports : pc[p] \in Chained => pc[p] \in Linking
        /\ \A p, q \in Ports : pc[p] = "request" /\ pc[q] \in Chained => p = q

\* OUT2 is up, and a timer runs, only while the port is open; a failed open
\* leaves the timer behind.
Silent ==
    \A p \in Ports :
        /\ out2[p] => pc[p] \in {"txen", "clear", "termios", "open", "lower"}
        /\ pc[p] \in {"closed", "test"} /\ timer[p] # "off" => failed[p]
        /\ pc[p] \in {"unlink", "unlinking"} => timer[p] = "off"
        /\ timer[p] # "off" => "THRE" \in bugs[p]

\* The IER of a port without a backup timer: off while it is being linked,
\* and what the driver believes when it is open.  What the console has saved
\* is as good.
Enables ==
    \A p \in Ports : "THRE" \notin bugs[p] =>
        /\ pc[p] \in Early =>
               IF lock[p] = "console" THEN IER[p] = {} /\ con.ier = {} ELSE IER[p] = {}
        /\ pc[p] = "open" =>
               IF lock[p] = "console" THEN con.ier = ier[p] ELSE IER[p] = ier[p]

\* The handler, between its two holds of port->lock: it has not come to a
\* port that is still being linked, and a transmitter it has found empty is
\* empty whenever it can get the lock.
Pushes ==
    /\ irq.pc \in {"handle", "push"} /\ "THRE" \notin bugs[irq.l] =>
           /\ pc[irq.l] \notin Early
           /\ irq.pc = "push" => pc[irq.l] # "txen"
    /\ irq.pc = "push" /\ irq.thre /\ bugs[irq.l] = {} /\ Free(irq.l) => ~ busy[irq.l]
    /\ ~ overrun

\* The characters that receive_chars will make of a FIFO.
Coming(flag, s) == IF flag THEN <<"error">> \o Tail(s) ELSE s

\* From the end of the startup on.
Reported(p) ==
    pc[p] \in {"termios", "open"} /\ ~ cut[p] =>
        /\ saved[p] => rx[p] # <<>>
        /\ told[p] \o Coming(saved[p], rx[p]) = heard[p]
Reports == \A p \in Ports : Reported(p)

\* Where a port is in the chain, and whether q comes from l on, round the
\* chain, before end.
Pos(p) == CHOOSE i \in DOMAIN chain : chain[i] = p
Between(l, end, q) == IF l < end THEN l <= q /\ q < end ELSE l <= q \/ q < end

\* The ports from l on that the handler has not looked at since it was at end.
Unseen(l, end) == {q \in ToSet(chain) : Between(Pos(l), Pos(end), Pos(q))}

\* The line has gone up again, or who keeps it up is still to be looked at.
Round ==
    LineHigh /\ ~ overlap /\ ~ toomuch /\ ~ withdrawn =>
        /\ irq.pc = "idle" => edge
        /\ irq.pc = "scan" /\ irq.end # "none" =>
              edge \/ \E q \in Unseen(irq.l, irq.end) : Drives(q)

IInv == TypeOK /\ Locks /\ Links /\ Alone /\ Silent /\ Enables /\ Pushes /\ Reports /\ Round

-----------------------------------------------------------------------------
(* Types.                                                                    *)

LEMMA LsrType ==
    ASSUME TypeOK, NEW p \in Ports
    PROVE  LsrRead(p) \in [Ports -> Chars] /\ Error(p) \in BOOLEAN
<1>1. rx \in [Ports -> Chars]
  BY DEF TypeOK
<1>2. CASE Error(p)
  <2>1. rx[p] # <<>> /\ rx[p] \in Seq({"ok", "error"})
    BY <1>1, <1>2 DEF Error, Chars
  <2>2. Tail(rx[p]) \in Seq({"ok", "error"})
    BY <2>1, HeadTailProperties
  <2>3. <<"ok">> \o Tail(rx[p]) \in Seq({"ok", "error"})
    BY <2>2
  <2>4. <<"ok">> \o Tail(rx[p]) \in Chars
    BY <2>3 DEF Chars
  <2> QED
    BY <1>1, <1>2, <2>4 DEF LsrRead
<1>3. CASE ~ Error(p)
  BY <1>1, <1>3 DEF LsrRead, Error
<1>4. Error(p) \in BOOLEAN
  BY DEF Error
<1> QED
  BY <1>2, <1>3, <1>4

\* What a reader of the LSR leaves.
LEMMA SaveType ==
    ASSUME TypeOK, NEW p \in Ports, SaveFlags(p)
    PROVE  rx' \in [Ports -> Chars] /\ saved' \in [Ports -> BOOLEAN]
<1>1. LsrRead(p) \in [Ports -> Chars] /\ Error(p) \in BOOLEAN
  BY LsrType
<1> QED
  BY <1>1 DEF SaveFlags, TypeOK

LEMMA TransmitType ==
    ASSUME TypeOK, NEW p \in Ports, NEW thre \in BOOLEAN, transmit_chars(p, thre)
    PROVE  /\ xmit' \in [Ports -> Nat] /\ busy' \in [Ports -> BOOLEAN]
           /\ txint' \in [Ports -> BOOLEAN] /\ overrun' \in BOOLEAN
           /\ ier' \in [Ports -> SUBSET {RX, TX}] /\ IER' \in [Ports -> SUBSET {RX, TX}]
<1>1. xmit' \in [Ports -> Nat]
  BY DEF transmit_chars, TypeOK
<1>2. PICK send \in BOOLEAN, stop \in BOOLEAN :
         /\ busy' = [busy EXCEPT ![p] = @ \/ send]
         /\ txint' = [txint EXCEPT ![p] = @ /\ ~ send]
         /\ ier' = [ier EXCEPT ![p] = IF stop THEN @ \ {TX} ELSE @]
         /\ IER' = [IER EXCEPT ![p] = IF stop THEN ier[p] \ {TX} ELSE @]
  BY DEF transmit_chars
<1>3. busy' \in [Ports -> BOOLEAN] /\ txint' \in [Ports -> BOOLEAN]
  BY <1>2 DEF TypeOK
<1>4. ier' \in [Ports -> SUBSET {RX, TX}] /\ IER' \in [Ports -> SUBSET {RX, TX}]
  BY <1>2 DEF TypeOK
<1>5. overrun' \in BOOLEAN
  BY DEF transmit_chars
<1> QED
  BY <1>1, <1>3, <1>4, <1>5

LEMMA ReceiveType ==
    ASSUME TypeOK, NEW p \in Ports, rx[p] # <<>>, receive_chars(p)
    PROVE  /\ told' \in [Ports -> Chars] /\ rx' \in [Ports -> Chars]
           /\ saved' \in [Ports -> BOOLEAN] /\ cut' \in [Ports -> BOOLEAN]
<1> DEFINE C == {"ok", "error"}
<1>1. PICK s : s = rx[p] /\ s \in Seq(C) /\ s # <<>>
  BY DEF TypeOK, Chars
<1>2. PICK n, rest, head :
         /\ n = IF Len(s) > MaxCount + 1 THEN MaxCount + 1 ELSE Len(s)
         /\ rest = SubSeq(s, n + 1, Len(s))
         /\ head = IF saved[p] THEN "error" ELSE Head(s)
         /\ told' = [told EXCEPT ![p] = @ \o <<head>> \o SubSeq(s, 2, n)]
         /\ rx' = [rx EXCEPT ![p] = IF rest = <<>> THEN rest ELSE <<"ok">> \o Tail(rest)]
         /\ saved' = [saved EXCEPT ![p] = FALSE]
         /\ cut' = [cut EXCEPT ![p] = @ \/ rest # <<>>]
  BY <1>1 DEF receive_chars
<1>3. n \in 1 .. Len(s) /\ Len(s) \in Nat /\ n \in Int
  <2>1. Len(s) \in Nat /\ Len(s) # 0
    BY <1>1, EmptySeq
  <2> QED
    BY <1>2, <2>1, LimitAssumption
<1>4. \A i \in 1 .. Len(s) : s[i] \in C
  BY <1>1
<1>5. rest \in Seq(C)
  <2>1. PICK m : m = n + 1
    OBVIOUS
  <2>2. m \in Int /\ \A i \in m .. Len(s) : s[i] \in C
    BY <1>3, <1>4, <2>1
  <2> QED
    BY <1>2, <1>3, <2>1, <2>2, SubSeqProperties
<1>6. SubSeq(s, 2, n) \in Seq(C)
  <2>1. \A i \in 2 .. n : s[i] \in C
    BY <1>3, <1>4
  <2> QED
    BY <1>3, <2>1, SubSeqProperties
<1>7. head \in C
  BY <1>1, <1>2
<1>8. rest # <<>> => <<"ok">> \o Tail(rest) \in Seq(C)
  <2> SUFFICES ASSUME rest # <<>> PROVE <<"ok">> \o Tail(rest) \in Seq(C)
    OBVIOUS
  <2>1. Tail(rest) \in Seq(C)
    BY <1>5, HeadTailProperties
  <2> QED BY <2>1
<1>9. ASSUME NEW t \in Seq(C) PROVE (t \o <<head>>) \o SubSeq(s, 2, n) \in Seq(C)
  BY <1>6, <1>7
<1>10. rx' \in [Ports -> Chars]
  BY <1>2, <1>5, <1>8 DEF TypeOK, Chars
<1>11. told' \in [Ports -> Chars]
  <2>1. told \in [Ports -> Seq(C)]
    BY DEF TypeOK, Chars
  <2>2. PICK t : t = told[p]
    OBVIOUS
  <2>3. PICK u : u = (t \o <<head>>) \o SubSeq(s, 2, n)
    OBVIOUS
  <2>4. u \in Seq(C)
    BY <1>9, <2>1, <2>2, <2>3
  <2>5. told' = [told EXCEPT ![p] = u]
    BY <1>2, <2>2, <2>3
  <2>6. told' \in [Ports -> Seq(C)]
    BY <2>1, <2>4, <2>5
  <2> QED
    BY <2>6 DEF Chars
<1>12. saved' \in [Ports -> BOOLEAN] /\ cut' \in [Ports -> BOOLEAN]
  BY <1>2 DEF TypeOK
<1> QED
  BY <1>10, <1>11, <1>12

\* transmit_chars and receive_chars, as the handler and the timer call them.
LEMMA HandleType ==
    ASSUME TypeOK, NEW p \in Ports, NEW thre \in BOOLEAN,
           HandleFirst(p) \/ HandleRest(p, thre)
    PROVE  /\ xmit' \in [Ports -> Nat] /\ busy' \in [Ports -> BOOLEAN]
           /\ txint' \in [Ports -> BOOLEAN] /\ overrun' \in BOOLEAN
           /\ ier' \in [Ports -> SUBSET {RX, TX}] /\ IER' \in [Ports -> SUBSET {RX, TX}]
           /\ told' \in [Ports -> Chars] /\ rx' \in [Ports -> Chars]
           /\ saved' \in [Ports -> BOOLEAN] /\ cut' \in [Ports -> BOOLEAN]
<1>1. CASE rx[p] # <<>> /\ HandleFirst(p)
  <2>1. receive_chars(p) /\ UNCHANGED <<xmit, busy, txint, ier, IER, overrun>>
    BY <1>1 DEF HandleFirst
  <2> QED
    BY <1>1, <2>1, ReceiveType DEF TypeOK
<1>2. CASE \E t \in BOOLEAN : transmit_chars(p, t) /\ UNCHANGED <<told, rx, saved, cut>>
  BY <1>2, TransmitType DEF TypeOK
<1>3. ASSUME rx[p] = <<>>, HandleFirst(p)
      PROVE  \E t \in BOOLEAN : transmit_chars(p, t) /\ UNCHANGED <<told, rx, saved, cut>>
  <2>1. transmit_chars(p, ~ busy[p]) /\ UNCHANGED <<told, rx, saved, cut>>
    BY <1>3 DEF HandleFirst
  <2>2. (~ busy[p]) \in BOOLEAN
    BY DEF TypeOK
  <2> QED
    BY <2>1, <2>2, Zenon
<1> QED
  BY <1>1, <1>2, <1>3 DEF HandleRest

\* The port that comes next is one of the chain.
LEMMA NextIsLinked ==
    ASSUME TypeOK, NEW p \in ToSet(chain)
    PROVE  NextInChain(p) \in ToSet(chain) /\ NextInChain(p) \in Ports
<1>1. DOMAIN chain = 1 .. Len(chain) /\ Len(chain) \in Nat
      /\ \A j \in 1 .. Len(chain) : chain[j] \in Ports
  BY DEF TypeOK
<1>2. PICK i : i = CHOOSE j \in DOMAIN chain : chain[j] = p
  OBVIOUS
<1>3. i \in DOMAIN chain
  BY <1>2 DEF ToSet
<1>4. (i % Len(chain)) + 1 \in 1 .. Len(chain)
  BY <1>1, <1>3
<1>5. NextInChain(p) = chain[(i % Len(chain)) + 1]
  BY <1>2 DEF NextInChain
<1> QED
  BY <1>1, <1>4, <1>5 DEF ToSet

\* Where the handler goes.
LEMMA AdvanceType ==
    ASSUME TypeOK, Links, irq.pc # "idle", NEW end \in ToSet(chain) \cup {"none"},
           Advance(end)
    PROVE  /\ irq' \in [pc : {"idle", "scan", "handle", "push"}, l : Ports,
                        end : Ports \cup {"none"}, pass : Nat, thre : BOOLEAN]
           /\ toomuch' \in BOOLEAN
           /\ irq'.pc \in {"idle", "scan"}
           /\ irq'.pc = "scan" => /\ irq'.l = NextInChain(irq.l) /\ irq'.l # end
                                  /\ irq'.end = end /\ irq'.l \in ToSet(chain)
           /\ irq'.pc = "idle" => toomuch' \/ NextInChain(irq.l) = end
           /\ toomuch => toomuch'
<1>0. NextInChain(irq.l) \in Ports /\ NextInChain(irq.l) \in ToSet(chain)
  BY NextIsLinked DEF Links
<1>1. ToSet(chain) \subseteq Ports
  BY DEF TypeOK, ToSet
<1>2. irq.pass \in Nat /\ irq.pass + 1 \in Nat
  BY DEF TypeOK
<1>3. Quiet \in [pc : {"idle", "scan", "handle", "push"}, l : Ports,
                 end : Ports \cup {"none"}, pass : Nat, thre : BOOLEAN] /\ Quiet.pc = "idle"
  BY PortsAssumption DEF Quiet
<1> DEFINE next == NextInChain(irq.l)
           wrap == next = Head(chain)
           dead == wrap /\ irq.pass > PASS_LIMIT
<1>4. /\ irq' = IF dead \/ next = end THEN Quiet
                ELSE [pc |-> "scan", l |-> next, end |-> end, thre |-> FALSE,
                      pass |-> IF wrap THEN irq.pass + 1 ELSE irq.pass]
      /\ toomuch' = (toomuch \/ dead)
  BY DEF Advance
<1>a. toomuch \in BOOLEAN
  BY DEF TypeOK
<1>5. CASE dead \/ next = end
  BY <1>3, <1>4, <1>5, <1>a
<1>6. CASE ~ (dead \/ next = end)
  <2>1. PICK n \in Nat : irq' = [pc |-> "scan", l |-> next, end |-> end, thre |-> FALSE,
                                 pass |-> n]
    BY <1>2, <1>4, <1>6
  <2>2. toomuch' = toomuch
    BY <1>4, <1>6, <1>a
  <2>3. next \in Ports /\ next \in ToSet(chain) /\ next # end
    BY <1>0, <1>6
  <2>4. end \in Ports \cup {"none"}
    BY <1>1
  <2>5. PICK x : x = next
    OBVIOUS
  <2>6. PICK j : j = irq'
    OBVIOUS
  <2>7. j = [pc |-> "scan", l |-> x, end |-> end, thre |-> FALSE, pass |-> n]
    BY <2>1, <2>5, <2>6
  <2>8. /\ j \in [pc : {"idle", "scan", "handle", "push"}, l : Ports,
                  end : Ports \cup {"none"}, pass : Nat, thre : BOOLEAN]
        /\ j.pc = "scan" /\ j.l = x /\ j.end = end
    <3> HIDE DEF next
    <3> QED BY <2>3, <2>4, <2>5, <2>7
  <2> QED
    BY <1>a, <2>2, <2>3, <2>5, <2>6, <2>8
<1> QED
  BY <1>5, <1>6

\* Who drives the line is a fact.
LEMMA LatchType ==
    ASSUME TypeOK, Latch
    PROVE  edge' \in BOOLEAN
BY DEF Latch, LineHigh

LEMMA NextType ==
    ASSUME TypeOK, Links, Next
    PROVE  TypeOK'
<1> USE DEF chip, port, timers, links, history, Step, Forget
<1>0. machine' = machine /\ withdrawn' \in BOOLEAN
  BY DEF Next, TypeOK
<1>1. ASSUME NEW p \in Ports, NEW c \in {"ok", "error"}, CharArrives(p, c)
      PROVE  TypeOK'
  <2>1. edge' \in BOOLEAN
    BY <1>1, LatchType DEF CharArrives
  <2>2. ASSUME NEW s \in Chars PROVE Append(s, c) \in Chars
    BY DEF Chars
  <2>3. rx' \in [Ports -> Chars] /\ heard' \in [Ports -> Chars]
    BY <1>1, <2>2 DEF CharArrives, TypeOK
  <2>4. left' \in 0 .. machine.events
    BY <1>1, PortsAssumption DEF CharArrives, TypeOK
  <2>5. UNCHANGED <<IER, out2, busy, txint, port, timers, links, irq, con, opens, told, cut,
                    failed, overlap, toomuch, overrun, crashed>>
    BY <1>1 DEF CharArrives
  <2> QED
    BY <1>0, <2>1, <2>3, <2>4, <2>5 DEF TypeOK
<1>2. ASSUME NEW p \in Ports, TransmitterEmpties(p) PROVE TypeOK'
  <2>1. edge' \in BOOLEAN
    BY <1>2, LatchType DEF TransmitterEmpties
  <2> QED
    BY <1>0, <1>2, <2>1 DEF TransmitterEmpties, TypeOK
<1>3. ASSUME NEW p \in Ports, StartupBegins(p) PROVE TypeOK'
  <2>1. edge' \in BOOLEAN
    BY <1>3, LatchType DEF StartupBegins
  <2>2. <<>> \in Chars
    BY DEF Chars
  <2>3. rx' \in [Ports -> Chars] /\ heard' \in [Ports -> Chars] /\ told' \in [Ports -> Chars]
    BY <1>3, <2>2 DEF StartupBegins, TypeOK
  <2>4. opens' \in 0 .. machine.opens
    BY <1>3, PortsAssumption DEF StartupBegins, TypeOK
  <2>5. txint' \in [Ports -> BOOLEAN]
    BY <1>3 DEF StartupBegins, TypeOK, IirRead
  <2> QED
    BY <1>0, <1>3, <2>1, <2>3, <2>4, <2>5 DEF StartupBegins, TypeOK
<1>4. ASSUME NEW p \in Ports, SafetyCheckEngaged(p) PROVE TypeOK'
  <2>1. edge' \in BOOLEAN
    BY <1>4, LatchType DEF SafetyCheckEngaged
  <2> QED
    BY <1>0, <1>4, <2>1 DEF SafetyCheckEngaged, TypeOK
<1>5. ASSUME NEW p \in Ports, TestThre(p) PROVE TypeOK'
  <2>1. edge' \in BOOLEAN
    BY <1>5, LatchType DEF TestThre
  <2>2. rx' \in [Ports -> Chars] /\ saved' \in [Ports -> BOOLEAN]
    BY <1>5, SaveType DEF TestThre
  <2>3. bugs' \in [Ports -> SUBSET {"THRE", "TXEN"}]
    BY <1>5 DEF TestThre, TypeOK
  <2>4. timer' \in [Ports -> {"off", "armed", "look", "pending", "noint", "handle", "push",
                               "restore"}]
    BY <1>5 DEF TestThre, TypeOK
  <2> QED
    BY <1>0, <1>5, <2>1, <2>2, <2>3, <2>4 DEF TestThre, TypeOK
<1>6. ASSUME NEW p \in Ports, LinkLookup(p) PROVE TypeOK'
  <2>1. edge' \in BOOLEAN
    BY <1>6, LatchType DEF LinkLookup
  <2>2. info' \in Nat /\ overlap' \in BOOLEAN
    BY <1>6, PortsAssumption DEF LinkLookup, Overlapping, TypeOK
  <2> QED
    BY <1>0, <1>6, <2>1, <2>2 DEF LinkLookup, TypeOK
<1>7. ASSUME NEW p \in Ports, LinkNoMemory(p) PROVE TypeOK'
  <2>1. edge' \in BOOLEAN
    BY <1>7, LatchType DEF LinkNoMemory
  <2> QED
    BY <1>0, <1>7, <2>1 DEF LinkNoMemory, TypeOK
<1>8. ASSUME NEW p \in Ports, LinkAdd(p) PROVE TypeOK'
  <2>1. edge' \in BOOLEAN
    BY <1>8, LatchType DEF LinkAdd
  <2>2. chain' \in Seq(Ports)
    <3>1. chain \in Seq(Ports)
      BY DEF TypeOK
    <3>2. CASE chain = <<>>
      BY <1>8, <3>2 DEF LinkAdd
    <3>3. CASE chain # <<>>
      <4>1. Head(chain) \in Ports /\ Tail(chain) \in Seq(Ports)
        BY <3>1, <3>3, HeadTailProperties
      <4>2. <<Head(chain), p>> \in Seq(Ports)
        BY <4>1
      <4>3. <<Head(chain), p>> \o Tail(chain) \in Seq(Ports)
        BY <4>1, <4>2
      <4> QED
        BY <1>8, <3>3, <4>3 DEF LinkAdd
    <3> QED
      BY <3>2, <3>3
  <2> QED
    BY <1>0, <1>8, <2>1, <2>2 DEF LinkAdd, TypeOK
<1>9. ASSUME NEW p \in Ports, LinkFreed(p) PROVE TypeOK'
  BY <1>0, <1>9 DEF LinkFreed, TypeOK
<1>10. ASSUME NEW p \in Ports, RequestIrq(p) PROVE TypeOK'
  BY <1>0, <1>10 DEF RequestIrq, TypeOK
<1>11. ASSUME NEW p \in Ports, Unlink(p)
       PROVE  chain' \in Seq(Ports) /\ info' \in Nat /\ ptr' \in [Ports -> Nat]
  <2>1. PICK i \in 1 .. Len(chain) : chain' = RemoveAt(chain, i)
    BY <1>11 DEF Unlink
  <2>2. chain \in Seq(Ports)
    BY DEF TypeOK
  <2>3. RemoveAt(chain, i) \in Seq(Ports)
    BY <2>2 DEF RemoveAt
  <2> QED
    BY <1>11, <2>1, <2>3 DEF Unlink, TypeOK
<1>12. ASSUME NEW p \in Ports, RequestFails(p) PROVE TypeOK'
  <2>1. edge' \in BOOLEAN
    BY <1>12, LatchType DEF RequestFails
  <2>2. chain' \in Seq(Ports) /\ info' \in Nat /\ ptr' \in [Ports -> Nat]
    BY <1>11, <1>12 DEF RequestFails
  <2>5. pc' \in [Ports -> {"closed", "test", "lookup", "link", "request", "init", "txen", "clear",
                            "termios", "open", "lower", "timer", "unlink", "unlinking"}]
    BY <1>12 DEF RequestFails, TypeOK
  <2>6. failed' \in [Ports -> BOOLEAN]
    BY <1>12 DEF RequestFails, TypeOK
  <2>7. UNCHANGED <<chip, ier, bugs, saved, lock, xmit, timers, registered, irq, con, opens,
                    left, heard, told, cut, overlap, toomuch, overrun, crashed>>
    BY <1>12 DEF RequestFails
  <2> QED
    BY <1>0, <2>1, <2>2, <2>5, <2>7, <2>6, SMTT(60) DEF TypeOK
<1>13. ASSUME NEW p \in Ports, NEW new \in SUBSET {RX, TX}, WriteIER(p, new)
       PROVE  IER' \in [Ports -> SUBSET {RX, TX}] /\ txint' \in [Ports -> BOOLEAN]
  BY <1>13 DEF WriteIER, Enabled, TypeOK
<1>14. ASSUME NEW p \in Ports, TestTxenBegins(p) PROVE TypeOK'
  <2>1. edge' \in BOOLEAN
    BY <1>14, LatchType DEF TestTxenBegins
  <2>2. IER' \in [Ports -> SUBSET {RX, TX}] /\ txint' \in [Ports -> BOOLEAN]
    BY <1>13, <1>14 DEF TestTxenBegins
  <2>5. pc' \in [Ports -> {"closed", "test", "lookup", "link", "request", "init", "txen", "clear",
                            "termios", "open", "lower", "timer", "unlink", "unlinking"}]
    BY <1>14 DEF TestTxenBegins, TypeOK
  <2>6. lock' \in [Ports -> {"none", "console", "startup"}] /\ out2' \in [Ports -> BOOLEAN]
    BY <1>14 DEF TestTxenBegins, TypeOK
  <2>7. UNCHANGED <<rx, busy, ier, bugs, saved, xmit, timers, links, irq, con, opens, left,
                    history>>
    BY <1>14 DEF TestTxenBegins
  <2> QED
    BY <1>0, <2>1, <2>2, <2>5, <2>7, <2>6 DEF TypeOK
<1>15. ASSUME NEW p \in Ports, TestTxenEnds(p) PROVE TypeOK'
  <2>1. edge' \in BOOLEAN
    BY <1>15, LatchType DEF TestTxenEnds
  <2>2. rx' \in [Ports -> Chars]
    BY <1>15, LsrType DEF TestTxenEnds
  <2>3. txint' \in [Ports -> BOOLEAN] /\ IER' \in [Ports -> SUBSET {RX, TX}]
    BY <1>15 DEF TestTxenEnds, IirRead, TypeOK
  <2>4. bugs' \in [Ports -> SUBSET {"THRE", "TXEN"}]
    BY <1>15 DEF TestTxenEnds, TypeOK
  <2> QED
    BY <1>0, <1>15, <2>1, <2>2, <2>3, <2>4 DEF TestTxenEnds, TypeOK
<1>16. ASSUME NEW p \in Ports, EnableInterrupts(p) PROVE TypeOK'
  <2>1. edge' \in BOOLEAN
    BY <1>16, LatchType DEF EnableInterrupts
  <2>2. <<>> \in Chars
    BY DEF Chars
  <2>3. rx' \in [Ports -> Chars] /\ heard' \in [Ports -> Chars] /\ told' \in [Ports -> Chars]
    BY <1>16, <2>2 DEF EnableInterrupts, TypeOK
  <2>4. txint' \in [Ports -> BOOLEAN]
    BY <1>16 DEF EnableInterrupts, TypeOK, IirRead
  <2> QED
    BY <1>0, <1>16, <2>1, <2>3, <2>4 DEF EnableInterrupts, TypeOK
<1>17. ASSUME NEW p \in Ports, serial8250_set_termios(p) PROVE TypeOK'
  <2>1. edge' \in BOOLEAN
    BY <1>17, LatchType DEF serial8250_set_termios
  <2>2. IER' \in [Ports -> SUBSET {RX, TX}] /\ txint' \in [Ports -> BOOLEAN]
    BY <1>13, <1>17 DEF serial8250_set_termios, TypeOK
  <2>5. pc' \in [Ports -> {"closed", "test", "lookup", "link", "request", "init", "txen", "clear",
                            "termios", "open", "lower", "timer", "unlink", "unlinking"}]
    BY <1>17 DEF serial8250_set_termios, TypeOK
  <2>6. failed' \in [Ports -> BOOLEAN]
    BY <1>17 DEF serial8250_set_termios, TypeOK
  <2>7. UNCHANGED <<out2, rx, busy, ier, bugs, saved, lock, xmit, timers, links, irq, con, opens,
                    left, heard, told, cut, overlap, toomuch, overrun, crashed>>
    BY <1>17 DEF serial8250_set_termios
  <2> QED
    BY <1>0, <2>1, <2>2, <2>5, <2>7, <2>6 DEF TypeOK
<1>18. ASSUME NEW p \in Ports, ShutdownBegins(p) PROVE TypeOK'
  <2>1. edge' \in BOOLEAN
    BY <1>18, LatchType DEF ShutdownBegins
  <2>2. IER' \in [Ports -> SUBSET {RX, TX}] /\ txint' \in [Ports -> BOOLEAN]
    BY <1>13, <1>18 DEF ShutdownBegins
  <2>5. pc' \in [Ports -> {"closed", "test", "lookup", "link", "request", "init", "txen", "clear",
                            "termios", "open", "lower", "timer", "unlink", "unlinking"}]
    BY <1>18 DEF ShutdownBegins, TypeOK
  <2>6. ier' \in [Ports -> SUBSET {RX, TX}]
    BY <1>18 DEF ShutdownBegins, TypeOK
  <2>7. UNCHANGED <<out2, rx, busy, bugs, saved, lock, xmit, timers, links, irq, con, opens, left,
                    history>>
    BY <1>18 DEF ShutdownBegins
  <2> QED
    BY <1>0, <2>1, <2>2, <2>5, <2>7, <2>6 DEF TypeOK
<1>19. ASSUME NEW p \in Ports, LowerOut2(p) PROVE TypeOK'
  <2>1. edge' \in BOOLEAN
    BY <1>19, LatchType DEF LowerOut2
  <2>2. <<>> \in Chars
    BY DEF Chars
  <2> QED
    BY <1>0, <1>19, <2>1, <2>2 DEF LowerOut2, TypeOK
<1>20. ASSUME NEW p \in Ports, DelTimerSync(p) PROVE TypeOK'
  <2>1. edge' \in BOOLEAN
    BY <1>20, LatchType DEF DelTimerSync
  <2> QED
    BY <1>0, <1>20, <2>1 DEF DelTimerSync, TypeOK
<1>21. ASSUME NEW p \in Ports, UnlinkBegins(p) PROVE TypeOK'
  <2>1. registered' \in BOOLEAN /\ edge' \in BOOLEAN /\ overlap' \in BOOLEAN
    BY <1>21 DEF UnlinkBegins, Overlapping, TypeOK
  <2> QED
    BY <1>0, <1>21, <2>1 DEF UnlinkBegins, TypeOK
<1>22. ASSUME NEW p \in Ports, UnlinkEnds(p) PROVE TypeOK'
  <2>1. edge' \in BOOLEAN
    BY <1>22, LatchType DEF UnlinkEnds
  <2>2. chain' \in Seq(Ports) /\ info' \in Nat /\ ptr' \in [Ports -> Nat]
    BY <1>11, <1>22 DEF UnlinkEnds
  <2>5. pc' \in [Ports -> {"closed", "test", "lookup", "link", "request", "init", "txen", "clear",
                            "termios", "open", "lower", "timer", "unlink", "unlinking"}]
    BY <1>22 DEF UnlinkEnds, TypeOK
  <2>6. xmit' \in [Ports -> Nat]
    BY <1>22 DEF UnlinkEnds, TypeOK
  <2>7. UNCHANGED <<chip, ier, bugs, saved, lock, timers, registered, irq, con, opens, left, history>>
    BY <1>22 DEF UnlinkEnds
  <2> QED
    BY <1>0, <2>1, <2>2, <2>5, <2>7, <2>6, SMTT(60) DEF TypeOK
<1>23. ASSUME NEW p \in Ports, TimerFires(p) PROVE TypeOK'
  <2>1. edge' \in BOOLEAN
    BY <1>23, LatchType DEF TimerFires
  <2>2. IER' \in [Ports -> SUBSET {RX, TX}] /\ txint' \in [Ports -> BOOLEAN]
    BY <1>13, <1>23 DEF TimerFires
  <2>3. tsave' \in [Ports -> [ier : SUBSET {RX, TX}, thre : BOOLEAN]]
    BY <1>23 DEF TimerFires, TypeOK
  <2>4. timer' \in [Ports -> {"off", "armed", "look", "pending", "noint", "handle", "push",
                               "restore"}]
    BY <1>23 DEF TimerFires, TypeOK
  <2>5. UNCHANGED <<out2, rx, busy, port, links, irq, con, opens, left, history>>
    BY <1>23 DEF TimerFires
  <2> QED
    BY <1>0, <2>1, <2>2, <2>3, <2>4, <2>5, SMTT(60) DEF TypeOK
<1>24. ASSUME NEW p \in Ports, TimerLooks(p) PROVE TypeOK'
  <2>1. edge' \in BOOLEAN
    BY <1>24, LatchType DEF TimerLooks
  <2>2. txint' \in [Ports -> BOOLEAN]
    BY <1>24 DEF TimerLooks, IirRead, TypeOK
  <2>3. timer' \in [Ports -> {"off", "armed", "look", "pending", "noint", "handle", "push",
                               "restore"}]
    BY <1>24 DEF TimerLooks, TypeOK
  <2>4. UNCHANGED <<IER, out2, rx, busy, port, tsave, links, irq, con, opens, left, history>>
    BY <1>24 DEF TimerLooks
  <2> QED
    BY <1>0, <2>1, <2>2, <2>3, <2>4, SMTT(60) DEF TypeOK
<1>25. ASSUME NEW p \in Ports, TimerDecides(p) PROVE TypeOK'
  <2>1. edge' \in BOOLEAN
    BY <1>25, LatchType DEF TimerDecides
  <2>2. rx' \in [Ports -> Chars] /\ saved' \in [Ports -> BOOLEAN]
    BY <1>25, SaveType DEF TimerDecides
  <2>3. timer' \in [Ports -> {"off", "armed", "look", "pending", "noint", "handle", "push",
                               "restore"}]
    BY <1>25 DEF TimerDecides, TypeOK
  <2>4. UNCHANGED <<IER, out2, busy, txint, pc, ier, bugs, lock, xmit, tsave, links, irq, con,
                    opens, left, history>>
    BY <1>25 DEF TimerDecides
  <2> QED
    BY <1>0, <2>1, <2>2, <2>3, <2>4, SMTT(60) DEF TypeOK
<1>26. ASSUME NEW p \in Ports, TimerHandles(p) \/ TimerPushed(p) PROVE TypeOK'
  <2>1. edge' \in BOOLEAN
    BY <1>26, LatchType DEF TimerHandles, TimerPushed
  <2>2. /\ xmit' \in [Ports -> Nat] /\ busy' \in [Ports -> BOOLEAN]
        /\ txint' \in [Ports -> BOOLEAN] /\ overrun' \in BOOLEAN
        /\ ier' \in [Ports -> SUBSET {RX, TX}] /\ IER' \in [Ports -> SUBSET {RX, TX}]
        /\ told' \in [Ports -> Chars] /\ rx' \in [Ports -> Chars]
        /\ saved' \in [Ports -> BOOLEAN] /\ cut' \in [Ports -> BOOLEAN]
    <3>1. tsave[p].thre \in BOOLEAN
      BY DEF TypeOK
    <3>2. PICK t \in BOOLEAN : HandleFirst(p) \/ HandleRest(p, t)
      BY <1>26, <3>1, Zenon DEF TimerHandles, TimerPushed
    <3> QED
      BY <3>2, HandleType
  <2>3. timer' \in [Ports -> {"off", "armed", "look", "pending", "noint", "handle", "push",
                               "restore"}]
    <3>1. PICK t \in {"push", "restore"} : timer' = [timer EXCEPT ![p] = t]
      <4>1. CASE rx[p] # <<>> /\ TimerHandles(p)
        BY <4>1 DEF TimerHandles
      <4>2. CASE rx[p] = <<>> /\ TimerHandles(p)
        BY <4>2 DEF TimerHandles
      <4>3. CASE TimerPushed(p)
        BY <4>3 DEF TimerPushed
      <4> QED BY <1>26, <4>1, <4>2, <4>3
    <3> QED
      BY <3>1 DEF TypeOK
  <2>4. tsave' \in [Ports -> [ier : SUBSET {RX, TX}, thre : BOOLEAN]]
    <3>1. CASE TimerHandles(p)
      <4>1. PICK t \in BOOLEAN : tsave' = [tsave EXCEPT ![p].thre = t]
        <5>1. tsave' = [tsave EXCEPT ![p].thre = ~ busy[p]] /\ (~ busy[p]) \in BOOLEAN
          BY <3>1 DEF TimerHandles
        <5> QED BY <5>1, Zenon
      <4>2. [tsave[p] EXCEPT !.thre = t] \in [ier : SUBSET {RX, TX}, thre : BOOLEAN]
        <5>1. PICK x : x = tsave[p]
          OBVIOUS
        <5>2. x \in [ier : SUBSET {RX, TX}, thre : BOOLEAN]
          BY <5>1 DEF TypeOK
        <5>3. [x EXCEPT !.thre = t] \in [ier : SUBSET {RX, TX}, thre : BOOLEAN]
          BY <5>2
        <5> QED BY <5>1, <5>3
      <4>3. tsave' = [tsave EXCEPT ![p] = [tsave[p] EXCEPT !.thre = t]]
        BY <4>1
      <4>4. PICK r : r = [tsave[p] EXCEPT !.thre = t]
        OBVIOUS
      <4> QED
        BY <4>2, <4>3, <4>4 DEF TypeOK
    <3>2. CASE TimerPushed(p)
      BY <3>2 DEF TimerPushed, TypeOK
    <3> QED
      BY <1>26, <3>1, <3>2
  <2>5. UNCHANGED <<out2, pc, bugs, lock, links, con, opens, left, heard, failed, overlap,
                    crashed, irq, toomuch>>
    BY <1>26 DEF TimerHandles, TimerPushed, Handling
  <2> QED
    BY <1>0, <2>1, <2>2, <2>3, <2>4, <2>5, SMTT(60) DEF TypeOK
<1>27. ASSUME NEW p \in Ports, TimerRestores(p) PROVE TypeOK'
  <2>1. edge' \in BOOLEAN
    BY <1>27, LatchType DEF TimerRestores
  <2>2. IER' \in [Ports -> SUBSET {RX, TX}] /\ txint' \in [Ports -> BOOLEAN]
    <3>1. tsave[p].ier \in SUBSET {RX, TX}
      BY DEF TypeOK
    <3> QED BY <1>13, <1>27, <3>1 DEF TimerRestores
  <2>3. tsave' \in [Ports -> [ier : SUBSET {RX, TX}, thre : BOOLEAN]]
    BY <1>27 DEF TimerRestores, TypeOK
  <2>4. timer' \in [Ports -> {"off", "armed", "look", "pending", "noint", "handle", "push",
                               "restore"}]
    BY <1>27 DEF TimerRestores, TypeOK
  <2>5. UNCHANGED <<out2, rx, busy, port, links, irq, con, opens, left, history>>
    BY <1>27 DEF TimerRestores
  <2> QED
    BY <1>0, <2>1, <2>2, <2>3, <2>4, <2>5, SMTT(60) DEF TypeOK
<1>28. ASSUME NEW p \in Ports, NEW n \in 1 .. 2, serial8250_start_tx(p, n) PROVE TypeOK'
  <2>1. edge' \in BOOLEAN
    BY <1>28, LatchType DEF serial8250_start_tx
  <2>2. rx' \in [Ports -> Chars] /\ saved' \in [Ports -> BOOLEAN]
    BY <1>28, SaveType DEF serial8250_start_tx, TypeOK
  <2>3. xmit' \in [Ports -> Nat] /\ left' \in 0 .. machine.events
    <3>1. PICK m \in Nat : xmit' = [xmit EXCEPT ![p] = m]
      <4>1. xmit[p] + n \in Nat /\ (xmit[p] + n) - 1 \in Nat
        BY DEF TypeOK
      <4>2. xmit' = [xmit EXCEPT ![p] = (xmit[p] + n) - 1] \/ xmit' = [xmit EXCEPT ![p] = xmit[p] + n]
        BY <1>28 DEF serial8250_start_tx
      <4> QED
        BY <4>1, <4>2
    <3>2. left' = left - n /\ left >= n /\ left \in 0 .. machine.events
      BY <1>28 DEF serial8250_start_tx, TypeOK
    <3>3. machine.events \in Nat
      BY PortsAssumption DEF TypeOK
    <3> QED
      BY <3>1, <3>2, <3>3 DEF TypeOK
  <2>4. ier' \in [Ports -> SUBSET {RX, TX}]
    BY <1>28 DEF serial8250_start_tx, TypeOK
  <2>5. IER' \in [Ports -> SUBSET {RX, TX}]
    BY <1>28, <2>4 DEF serial8250_start_tx, TypeOK
  <2>6. busy' \in [Ports -> BOOLEAN] /\ txint' \in [Ports -> BOOLEAN]
    BY <1>28 DEF serial8250_start_tx, Enabled, TypeOK
  <2>7. UNCHANGED <<out2, pc, bugs, lock, timers, links, irq, con, opens, history>>
    BY <1>28 DEF serial8250_start_tx
  <2> QED
    BY <1>0, <2>1, <2>2, <2>3, <2>4, <2>5, <2>6, <2>7, SMTT(60) DEF TypeOK
<1>29. ASSUME NEW p \in Ports, serial8250_tx_empty(p) PROVE TypeOK'
  <2>1. edge' \in BOOLEAN
    BY <1>29, LatchType DEF serial8250_tx_empty
  <2>2. rx' \in [Ports -> Chars] /\ saved' \in [Ports -> BOOLEAN]
    BY <1>29, SaveType DEF serial8250_tx_empty
  <2>3. UNCHANGED <<IER, out2, busy, txint, pc, ier, bugs, lock, xmit, timers, links, irq, con,
                    opens, left, history>>
    BY <1>29 DEF serial8250_tx_empty
  <2> QED
    BY <1>0, <2>1, <2>2, <2>3, SMTT(60) DEF TypeOK
<1> DEFINE IRQ == [pc : {"idle", "scan", "handle", "push"}, l : Ports,
                   end : Ports \cup {"none"}, pass : Nat, thre : BOOLEAN]
<1>30. ASSUME Enter PROVE TypeOK'
  <2>1. irq' \in IRQ
    <3>1. Head(chain) \in Ports
      BY <1>30 DEF Enter, TypeOK
    <3> QED
      BY <1>30, <3>1, PortsAssumption DEF Enter, Quiet
  <2>2. UNCHANGED <<chip, port, timers, links, con, opens, left, history>> /\ edge' \in BOOLEAN
    BY <1>30 DEF Enter
  <2> QED
    BY <1>0, <2>1, <2>2, SMTT(60) DEF TypeOK
<1>31. ASSUME Scan PROVE TypeOK'
  <2>1. edge' \in BOOLEAN
    BY <1>31, LatchType DEF Scan
  <2>2. txint' \in [Ports -> BOOLEAN]
    BY <1>31 DEF Scan, IirRead, TypeOK
  <2>3. irq' \in IRQ /\ toomuch' \in BOOLEAN
    <3>1. CASE irq' = [irq EXCEPT !.pc = "handle"] /\ UNCHANGED toomuch
      BY <3>1 DEF TypeOK
    <3>2. CASE Advance(IF irq.end = "none" THEN irq.l ELSE irq.end)
      <4>1. PICK e : e = IF irq.end = "none" THEN irq.l ELSE irq.end
        OBVIOUS
      <4>2. irq.pc # "idle" /\ e \in ToSet(chain) \cup {"none"} /\ Advance(e)
        BY <1>31, <3>2, <4>1 DEF Scan, Links
      <4> QED
        BY <4>2, AdvanceType
    <3> QED
      BY <1>31, <3>1, <3>2 DEF Scan
  <2>4. UNCHANGED <<IER, out2, rx, busy, port, timers, links, con, opens, left, heard, told,
                    cut, failed, overlap, overrun, crashed>>
    BY <1>31 DEF Scan
  <2> QED
    BY <1>0, <2>1, <2>2, <2>3, <2>4, SMTT(60) DEF TypeOK
<1>32. ASSUME HandleInterrupt \/ AfterPush PROVE TypeOK'
  <2>1. edge' \in BOOLEAN
    BY <1>32, LatchType DEF HandleInterrupt, AfterPush
  <2>2. /\ xmit' \in [Ports -> Nat] /\ busy' \in [Ports -> BOOLEAN]
        /\ txint' \in [Ports -> BOOLEAN] /\ overrun' \in BOOLEAN
        /\ ier' \in [Ports -> SUBSET {RX, TX}] /\ IER' \in [Ports -> SUBSET {RX, TX}]
        /\ told' \in [Ports -> Chars] /\ rx' \in [Ports -> Chars]
        /\ saved' \in [Ports -> BOOLEAN] /\ cut' \in [Ports -> BOOLEAN]
    <3>1. irq.thre \in BOOLEAN /\ irq.l \in Ports
      BY DEF TypeOK
    <3>2. PICK t \in BOOLEAN : HandleFirst(irq.l) \/ HandleRest(irq.l, t)
      BY <1>32, <3>1, Zenon DEF HandleInterrupt, AfterPush
    <3> QED
      BY <3>1, <3>2, HandleType
  <2>3. irq' \in IRQ /\ toomuch' \in BOOLEAN
    <3>1. CASE irq' = [irq EXCEPT !.pc = "push", !.thre = ~ busy[irq.l]] /\ UNCHANGED toomuch
      BY <3>1 DEF TypeOK
    <3>2. CASE Advance(EndAfterService(irq.end))
      <4>1. irq.pc # "idle" /\ "none" \in ToSet(chain) \cup {"none"} /\ Advance("none")
        BY <1>32, <3>2 DEF HandleInterrupt, AfterPush, EndAfterService
      <4> QED
        BY <4>1, AdvanceType
    <3> QED
      BY <1>32, <3>1, <3>2 DEF HandleInterrupt, AfterPush
  <2>4. UNCHANGED <<out2, pc, bugs, lock, links, con, opens, left, heard, failed, overlap,
                    crashed, timers>>
    BY <1>32 DEF HandleInterrupt, AfterPush, Handling
  <2> QED
    BY <1>0, <2>1, <2>2, <2>3, <2>4, SMTT(60) DEF TypeOK
<1>33. ASSUME ConsoleWrite PROVE TypeOK'
  <2>0. Console \in Ports
    BY PortsAssumption
  <2>1. edge' \in BOOLEAN
    BY <1>33, LatchType DEF ConsoleWrite, ConsoleBegins, wait_for_xmitr,
       serial8250_console_putchar, ConsoleRestores
  <2>2. CASE ConsoleBegins
    <3>1. IER' \in [Ports -> SUBSET {RX, TX}] /\ txint' \in [Ports -> BOOLEAN]
      BY <1>13, <2>0, <2>2 DEF ConsoleBegins
    <3>2. con' \in [pc : {"idle", "put", "restore"}, ier : SUBSET {RX, TX}]
      BY <2>0, <2>2 DEF ConsoleBegins, TypeOK
    <3>3. lock' \in [Ports -> {"none", "console", "startup"}] /\ left' \in 0 .. machine.events
      BY <2>0, <2>2, PortsAssumption DEF ConsoleBegins, TypeOK
    <3>4. UNCHANGED <<out2, rx, busy, pc, ier, bugs, saved, xmit, timers, links, irq, opens,
                      history>>
      BY <2>2 DEF ConsoleBegins
    <3> QED
      BY <1>0, <2>1, <3>1, <3>2, <3>3, <3>4, SMTT(60) DEF TypeOK
  <2>3. CASE wait_for_xmitr
    <3>1. rx' \in [Ports -> Chars] /\ saved' \in [Ports -> BOOLEAN]
      BY <2>0, <2>3, SaveType DEF wait_for_xmitr
    <3>2. UNCHANGED <<IER, out2, busy, txint, pc, ier, bugs, lock, xmit, timers, links, irq,
                      con, opens, left, history>>
      BY <2>3 DEF wait_for_xmitr
    <3> QED
      BY <1>0, <2>1, <3>1, <3>2, SMTT(60) DEF TypeOK
  <2>4. CASE serial8250_console_putchar
    <3>1. rx' \in [Ports -> Chars] /\ saved' \in [Ports -> BOOLEAN]
      BY <2>0, <2>4, SaveType DEF serial8250_console_putchar
    <3>2. /\ busy' \in [Ports -> BOOLEAN] /\ txint' \in [Ports -> BOOLEAN]
          /\ con' \in [pc : {"idle", "put", "restore"}, ier : SUBSET {RX, TX}]
      BY <2>4 DEF serial8250_console_putchar, TypeOK
    <3>3. UNCHANGED <<IER, out2, pc, ier, bugs, lock, xmit, timers, links, irq, opens, left,
                      history>>
      BY <2>4 DEF serial8250_console_putchar
    <3> QED
      BY <1>0, <2>1, <3>1, <3>2, <3>3, SMTT(60) DEF TypeOK
  <2>5. CASE ConsoleRestores
    <3>1. rx' \in [Ports -> Chars] /\ saved' \in [Ports -> BOOLEAN]
      BY <2>0, <2>5, SaveType DEF ConsoleRestores
    <3>2. IER' \in [Ports -> SUBSET {RX, TX}] /\ txint' \in [Ports -> BOOLEAN]
      <4>1. con.ier \in SUBSET {RX, TX}
        BY DEF TypeOK
      <4> QED BY <1>13, <2>0, <2>5, <4>1 DEF ConsoleRestores
    <3>3. /\ lock' \in [Ports -> {"none", "console", "startup"}]
          /\ con' \in [pc : {"idle", "put", "restore"}, ier : SUBSET {RX, TX}]
      BY <2>5 DEF ConsoleRestores, NoPrint, TypeOK
    <3>4. UNCHANGED <<out2, busy, pc, ier, bugs, xmit, timers, links, irq, opens, left, history>>
      BY <2>5 DEF ConsoleRestores
    <3> QED
      BY <1>0, <2>1, <3>1, <3>2, <3>3, <3>4, SMTT(60) DEF TypeOK
  <2> QED
    BY <1>33, <2>2, <2>3, <2>4, <2>5 DEF ConsoleWrite
<1> QED
  BY <1>1, <1>2, <1>3, <1>4, <1>5, <1>6, <1>7, <1>8, <1>9, <1>10, <1>12, <1>14, <1>15, <1>16,
     <1>17, <1>18, <1>19, <1>20, <1>21, <1>22, <1>23, <1>24, <1>25, <1>26, <1>27, <1>28, <1>29,
     <1>30, <1>31, <1>32, <1>33, Zenon DEF Next, Startup, Shutdown, BackupTimer

-----------------------------------------------------------------------------
(* Opens, closes and the console; and everything else.                       *)

\* Characters, the handler, the timers and the calls on an open port leave
\* alone who is linked, who holds a lock and which timers run.
Elsewhere ==
    /\ UNCHANGED <<pc, lock, con, links, opens, overlap, out2, bugs, failed>>
    /\ \A p \in Ports : timer'[p] = "off" <=> timer[p] = "off"

LEMMA Kinds ==
    ASSUME TypeOK, Next
    PROVE  \/ \E p \in Ports : Startup(p) \/ Shutdown(p) \/ serial8250_set_termios(p)
           \/ ConsoleWrite
           \/ Elsewhere
<1> USE DEF chip, port, timers, links, history
<1>1. ASSUME NEW p \in Ports, NEW c \in {"ok", "error"}, CharArrives(p, c) PROVE Elsewhere
  BY <1>1 DEF CharArrives, Elsewhere
<1>2. ASSUME NEW p \in Ports, TransmitterEmpties(p) PROVE Elsewhere
  BY <1>2 DEF TransmitterEmpties, Elsewhere
<1>3. ASSUME NEW p \in Ports, BackupTimer(p) PROVE Elsewhere
  <2>1. CASE TimerFires(p)
    BY <2>1 DEF TimerFires, Elsewhere, TypeOK
  <2>2. CASE TimerLooks(p)
    BY <2>2 DEF TimerLooks, Elsewhere, TypeOK
  <2>3. CASE TimerDecides(p)
    BY <2>3 DEF TimerDecides, Elsewhere, TypeOK
  <2>4. CASE TimerHandles(p)
    BY <2>4 DEF TimerHandles, Handling, Elsewhere, TypeOK
  <2>5. CASE TimerPushed(p)
    BY <2>5 DEF TimerPushed, Handling, Elsewhere, TypeOK
  <2>6. CASE TimerRestores(p)
    BY <2>6 DEF TimerRestores, Elsewhere, TypeOK
  <2> QED
    BY <1>3, <2>1, <2>2, <2>3, <2>4, <2>5, <2>6 DEF BackupTimer
<1>4. ASSUME NEW p \in Ports, NEW n \in 1 .. 2, serial8250_start_tx(p, n) PROVE Elsewhere
  BY <1>4 DEF serial8250_start_tx, Elsewhere
<1>5. ASSUME NEW p \in Ports, serial8250_tx_empty(p) PROVE Elsewhere
  BY <1>5 DEF serial8250_tx_empty, Elsewhere
<1>6. CASE Enter
  BY <1>6 DEF Enter, Elsewhere
<1>7. CASE Scan
  BY <1>7 DEF Scan, Elsewhere
<1>8. CASE HandleInterrupt
  BY <1>8 DEF HandleInterrupt, Handling, Elsewhere
<1>9. CASE AfterPush
  BY <1>9 DEF AfterPush, Handling, Elsewhere
<1> QED
  BY <1>1, <1>2, <1>3, <1>4, <1>5, <1>6, <1>7, <1>8, <1>9, Zenon DEF Next

LEMMA NextLocks ==
    ASSUME TypeOK, Locks, Next
    PROVE  Locks'
<1> USE DEF port, Step, Locks, TypeOK
<1>0. Console \in Ports
  BY PortsAssumption
<1>2. ASSUME NEW p \in Ports, Startup(p) PROVE Locks'
  <2>1. CASE \/ StartupBegins(p) \/ SafetyCheckEngaged(p) \/ TestThre(p) \/ LinkLookup(p)
             \/ LinkNoMemory(p) \/ RequestIrq(p) \/ RequestFails(p) \/ EnableInterrupts(p)
    BY <2>1 DEF StartupBegins, SafetyCheckEngaged, TestThre, LinkLookup, LinkNoMemory,
       RequestIrq, RequestFails, EnableInterrupts
  <2>2. CASE LinkAdd(p)
    BY <2>2 DEF LinkAdd
  <2>3. CASE LinkFreed(p)
    BY <2>3 DEF LinkFreed
  <2>4. CASE TestTxenBegins(p)
    BY <2>4 DEF TestTxenBegins, Free
  <2>5. CASE TestTxenEnds(p)
    BY <2>5 DEF TestTxenEnds
  <2> QED
    BY <1>2, <2>1, <2>2, <2>3, <2>4, <2>5 DEF Startup
<1>3. ASSUME NEW p \in Ports, Shutdown(p) \/ serial8250_set_termios(p) PROVE Locks'
  BY <1>3 DEF Shutdown, ShutdownBegins, LowerOut2, DelTimerSync, UnlinkBegins, UnlinkEnds,
     serial8250_set_termios
<1>4. CASE ConsoleWrite
  <2>1. CASE ConsoleBegins
    BY <1>0, <2>1 DEF ConsoleBegins, Free
  <2>2. CASE wait_for_xmitr
    BY <2>2 DEF wait_for_xmitr
  <2>3. CASE serial8250_console_putchar
    BY <2>3 DEF serial8250_console_putchar
  <2>4. CASE ConsoleRestores
    BY <1>0, <2>4 DEF ConsoleRestores, NoPrint
  <2> QED
    BY <1>4, <2>1, <2>2, <2>3, <2>4 DEF ConsoleWrite
<1>5. CASE Elsewhere
  BY <1>5 DEF Elsewhere
<1> QED
  BY <1>2, <1>3, <1>4, <1>5, Kinds

LEMMA NextSilent ==
    ASSUME TypeOK, Silent, Next
    PROVE  Silent'
<1> USE DEF chip, port, timers, history, Step, Silent, TypeOK
<1>2. ASSUME NEW p \in Ports, Startup(p) PROVE Silent'
  <2>1. CASE StartupBegins(p) \/ SafetyCheckEngaged(p)
    BY <2>1 DEF StartupBegins, SafetyCheckEngaged
  <2>2. CASE TestThre(p)
    BY <2>2 DEF TestThre
  <2>3. CASE LinkLookup(p)
    BY <2>3 DEF LinkLookup
  <2>a. CASE LinkNoMemory(p)
    BY <2>a DEF LinkNoMemory
  <2>4. CASE RequestIrq(p) \/ RequestFails(p)
    BY <2>4 DEF RequestIrq, RequestFails
  <2>5. CASE LinkAdd(p)
    BY <2>5 DEF LinkAdd
  <2>6. CASE LinkFreed(p)
    BY <2>6 DEF LinkFreed
  <2>7. CASE TestTxenBegins(p)
    BY <2>7 DEF TestTxenBegins
  <2>8. CASE TestTxenEnds(p)
    BY <2>8 DEF TestTxenEnds
  <2>9. CASE EnableInterrupts(p)
    BY <2>9 DEF EnableInterrupts
  <2> QED
    BY <1>2, <2>1, <2>2, <2>3, <2>a, <2>4, <2>5, <2>6, <2>7, <2>8, <2>9 DEF Startup
<1>3. ASSUME NEW p \in Ports, Shutdown(p) \/ serial8250_set_termios(p) PROVE Silent'
  <2>1. CASE ShutdownBegins(p) \/ LowerOut2(p)
    BY <2>1 DEF ShutdownBegins, LowerOut2
  <2>2. CASE DelTimerSync(p)
    BY <2>2 DEF DelTimerSync
  <2>3. CASE UnlinkBegins(p) \/ UnlinkEnds(p)
    BY <2>3 DEF UnlinkBegins, UnlinkEnds
  <2>4. CASE serial8250_set_termios(p)
    BY <2>4 DEF serial8250_set_termios
  <2> QED
    BY <1>3, <2>1, <2>2, <2>3, <2>4 DEF Shutdown
<1>4. CASE ConsoleWrite
  BY <1>4 DEF ConsoleWrite, ConsoleBegins, wait_for_xmitr, serial8250_console_putchar,
     ConsoleRestores
<1>5. CASE Elsewhere
  BY <1>5 DEF Elsewhere
<1> QED
  BY <1>2, <1>3, <1>4, <1>5, Kinds

-----------------------------------------------------------------------------
(* The chain.                                                                *)

\* A port that is put behind the head of the chain.
LEMMA Inserted ==
    ASSUME TypeOK, IsInjective(chain), NEW p \in Ports, p \notin ToSet(chain), LinkAdd(p)
    PROVE  IsInjective(chain') /\ ToSet(chain') = ToSet(chain) \cup {p}
<1>0. PICK s, t, l : s = chain /\ t = chain' /\ l = Len(s)
  OBVIOUS
<1>1. /\ s \in Seq(Ports) /\ l \in Nat /\ DOMAIN s = 1..l
      /\ \A i \in 1..l : s[i] \in Ports /\ s[i] # p
      /\ \A i, j \in 1..l : s[i] = s[j] => i = j
  <2>1. s \in Seq(Ports)
    BY <1>0 DEF TypeOK
  <2>2. IsInjective(s) /\ p \notin ToSet(s)
    BY <1>0
  <2> QED
    BY <1>0, <2>1, <2>2 DEF IsInjective, ToSet
<1>2. /\ t \in Seq(Ports) /\ Len(t) = l + 1
      /\ \A j \in 1 .. l + 1 :
            \/ j = 1 /\ l > 0 /\ t[j] = s[1]
            \/ j = 1 /\ l = 0 /\ t[j] = p
            \/ j = 2 /\ t[j] = p
            \/ j > 2 /\ t[j] = s[j - 1]
  <2>1. CASE s = <<>>
    <3>1. t = <<p>> /\ l = 0
      BY <1>0, <2>1 DEF LinkAdd
    <3> QED
      BY <3>1
  <2>2. CASE s # <<>>
    <3>1. PICK a, b : a = <<Head(s), p>> /\ b = Tail(s)
      OBVIOUS
    <3>2. t = a \o b
      BY <1>0, <2>2, <3>1 DEF LinkAdd
    <3>3. l > 0
      <4>1. l # 0
        BY <1>0, <1>1, <2>2, EmptySeq
      <4> QED BY <1>1, <4>1
    <3>4. a \in Seq(Ports) /\ Len(a) = 2 /\ a[1] = s[1] /\ a[2] = p
      <4>1. Head(s) = s[1] /\ s[1] \in Ports
        BY <1>0, <1>1, <2>2, <3>3
      <4> QED BY <3>1, <4>1
    <3>5. b \in Seq(Ports) /\ Len(b) = l - 1 /\ \A j \in 1 .. l - 1 : b[j] = s[j + 1]
      BY <1>0, <1>1, <2>2, <3>1, HeadTailProperties
    <3>6. /\ a \o b \in Seq(Ports) /\ Len(a \o b) = Len(a) + Len(b)
          /\ \A i \in 1 .. Len(a) + Len(b) :
                (a \o b)[i] = IF i <= Len(a) THEN a[i] ELSE b[i - Len(a)]
      BY <3>4, <3>5, ConcatProperties, Zenon
    <3>7. Len(a) + Len(b) = l + 1
      BY <1>1, <3>4, <3>5
    <3>8. ASSUME NEW j \in 1 .. l + 1, j > 2 PROVE t[j] = s[j - 1]
      <4>1. j - 2 \in 1 .. l - 1 /\ ~(j <= 2) /\ (j - 2) + 1 = j - 1
        BY <1>1, <3>8
      <4>2. t[j] = b[j - 2]
        BY <3>2, <3>4, <3>6, <3>7, <4>1
      <4> QED BY <3>5, <4>1, <4>2
    <3>9. t[1] = s[1] /\ t[2] = p
      <4>1. 1 \in 1 .. l + 1 /\ 2 \in 1 .. l + 1 /\ 1 <= 2 /\ 2 <= 2
        BY <1>1, <3>3
      <4> QED BY <3>2, <3>4, <3>6, <3>7, <4>1
    <3> QED
      BY <1>1, <3>2, <3>3, <3>6, <3>7, <3>8, <3>9
  <2> QED BY <2>1, <2>2
<1>3. ASSUME NEW i \in 1 .. l + 1, NEW j \in 1 .. l + 1, t[i] = t[j] PROVE i = j
  <2>1. ASSUME NEW k \in 1 .. l + 1, k > 2 PROVE k - 1 \in 2..l /\ t[k] = s[k - 1]
    BY <1>1, <1>2, <2>1
  <2>2. l > 0 => 1 \in 1..l
    BY <1>1
  <2>3. \A k \in 1 .. l + 1 :
           \/ k = (IF l > 0 THEN 2 ELSE 1) /\ t[k] = p
           \/ k = 1 /\ l > 0 /\ t[k] = s[1]
           \/ k > 2 /\ k - 1 \in 2..l /\ t[k] = s[k - 1]
    BY <1>1, <1>2, <2>1
  <2>4. \A k \in 2..l : k \in 1..l
    BY <1>1
  <2> QED
    BY <1>1, <1>3, <2>2, <2>3, <2>4
<1>4. DOMAIN t = 1 .. l + 1
  BY <1>1, <1>2
<1>5. IsInjective(t)
  BY <1>3, <1>4 DEF IsInjective
<1>6. ASSUME NEW x PROVE x \in ToSet(t) <=> x \in ToSet(s) \cup {p}
  <2>1. ASSUME NEW j \in 1 .. l + 1 PROVE t[j] = p \/ \E i \in 1..l : t[j] = s[i]
    <3>1. l > 0 => 1 \in 1..l
      BY <1>1
    <3>2. j > 2 => j - 1 \in 1..l
      BY <1>1
    <3> QED BY <1>2, <3>1, <3>2
  <2>2. \E j \in 1 .. l + 1 : t[j] = p
    <3>1. CASE l = 0
      <4>1. 1 \in 1 .. l + 1
        BY <3>1
      <4> QED BY <1>2, <3>1, <4>1
    <3>2. CASE l > 0
      <4>1. 2 \in 1 .. l + 1
        BY <1>1, <3>2
      <4>2. t[2] = p
        BY <1>2, <4>1
      <4> QED BY <4>1, <4>2
    <3> QED BY <1>1, <3>1, <3>2
  <2>3. ASSUME NEW i \in 1..l PROVE \E j \in 1 .. l + 1 : t[j] = s[i]
    <3>1. CASE i = 1
      <4>1. 1 \in 1 .. l + 1 /\ l > 0
        BY <1>1, <3>1
      <4>2. t[1] = s[1]
        BY <1>2, <4>1
      <4> QED BY <3>1, <4>1, <4>2
    <3>2. CASE i > 1
      <4>1. i + 1 \in 1 .. l + 1 /\ i + 1 > 2 /\ (i + 1) - 1 = i
        BY <1>1, <3>2
      <4>2. t[i + 1] = s[(i + 1) - 1]
        BY <1>2, <4>1
      <4> QED BY <4>1, <4>2
    <3> QED BY <3>1, <3>2
  <2>4. x \in ToSet(t) <=> \E j \in 1 .. l + 1 : x = t[j]
    BY <1>4 DEF ToSet
  <2>5. x \in ToSet(s) <=> \E i \in 1..l : x = s[i]
    BY <1>1 DEF ToSet
  <2> QED
    BY <2>1, <2>2, <2>3, <2>4, <2>5
<1> QED
  BY <1>0, <1>5, <1>6

\* A port that is taken out of it.
LEMMA Removed ==
    ASSUME TypeOK, IsInjective(chain), NEW p \in Ports, Unlink(p)
    PROVE  /\ IsInjective(chain') /\ ToSet(chain') = ToSet(chain) \ {p}
           /\ p \in ToSet(chain)
<1>0. PICK s, t, l : s = chain /\ t = chain' /\ l = Len(s)
  OBVIOUS
<1>1. /\ s \in Seq(Ports) /\ l \in Nat /\ DOMAIN s = 1..l
      /\ \A i \in 1..l : s[i] \in Ports
      /\ \A i, j \in 1..l : s[i] = s[j] => i = j
  <2>1. s \in Seq(Ports) /\ IsInjective(s)
    BY <1>0 DEF TypeOK
  <2> QED
    BY <1>0, <2>1 DEF IsInjective
<1>2. PICK k \in 1..l : s[k] = p /\ t = RemoveAt(s, k)
  BY <1>0 DEF Unlink
<1>3. PICK a, b, j1, k1 : /\ j1 = k - 1 /\ k1 = k + 1
                          /\ a = SubSeq(s, 1, j1) /\ b = SubSeq(s, k1, l)
  OBVIOUS
<1>4. a \in Seq(Ports) /\ Len(a) = k - 1 /\ \A i \in 1 .. k - 1 : a[i] = s[i]
  <2>1. j1 \in Int /\ \A i \in 1..j1 : s[i] \in Ports
    BY <1>1, <1>3
  <2> QED
    BY <1>1, <1>3, <2>1, SubSeqProperties
<1>5. b \in Seq(Ports) /\ Len(b) = l - k /\ \A i \in 1 .. l - k : b[i] = s[k + i]
  <2>1. k1 \in Int /\ \A i \in k1..l : s[i] \in Ports
    BY <1>1, <1>3
  <2>2. /\ b \in Seq(Ports) /\ Len(b) = IF k1 <= l THEN l - k1 + 1 ELSE 0
        /\ \A i \in 1 .. l - k1 + 1 : b[i] = s[k1 + i - 1]
    BY <1>1, <1>3, <2>1, SubSeqProperties
  <2>3. (IF k1 <= l THEN l - k1 + 1 ELSE 0) = l - k /\ l - k1 + 1 = l - k
    BY <1>1, <1>3
  <2>4. ASSUME NEW i \in 1 .. l - k PROVE k1 + i - 1 = k + i
    BY <1>1, <1>3
  <2> QED
    BY <2>2, <2>3, <2>4
<1>6. t = a \o b
  BY <1>0, <1>2, <1>3 DEF RemoveAt
<1>7. /\ t \in Seq(Ports) /\ Len(t) = l - 1
      /\ \A i \in 1 .. l - 1 : t[i] = IF i <= k - 1 THEN a[i] ELSE b[i - (k - 1)]
  <2>1. /\ t \in Seq(Ports) /\ Len(t) = Len(a) + Len(b)
        /\ \A i \in 1 .. Len(a) + Len(b) :
              t[i] = IF i <= Len(a) THEN a[i] ELSE b[i - Len(a)]
    <3>1. /\ a \o b \in Seq(Ports) /\ Len(a \o b) = Len(a) + Len(b)
          /\ \A i \in 1 .. Len(a) + Len(b) :
                (a \o b)[i] = IF i <= Len(a) THEN a[i] ELSE b[i - Len(a)]
      BY <1>4, <1>5, ConcatProperties, Zenon
    <3> QED
      BY <1>6, <3>1, Zenon
  <2>2. Len(a) + Len(b) = l - 1
    BY <1>1, <1>4, <1>5
  <2> QED
    BY <1>4, <2>1, <2>2
<1>8. ASSUME NEW j \in 1 .. l - 1 PROVE t[j] = IF j < k THEN s[j] ELSE s[j + 1]
  <2>1. CASE j < k
    <3>1. j \in 1 .. k - 1 /\ j <= k - 1
      BY <1>1, <2>1
    <3> QED BY <1>4, <1>7, <2>1, <3>1
  <2>2. CASE ~(j < k)
    <3>1. j - (k - 1) \in 1 .. l - k /\ ~(j <= k - 1) /\ k + (j - (k - 1)) = j + 1
      BY <1>1, <2>2
    <3> QED BY <1>5, <1>7, <2>2, <3>1
  <2> QED BY <2>1, <2>2
<1>9. ASSUME NEW i \in 1 .. l - 1, NEW j \in 1 .. l - 1, t[i] = t[j] PROVE i = j
  <2>1. /\ i \in 1..l /\ i + 1 \in 1..l /\ j \in 1..l /\ j + 1 \in 1..l
    BY <1>1
  <2>2. /\ t[i] = IF i < k THEN s[i] ELSE s[i + 1]
        /\ t[j] = IF j < k THEN s[j] ELSE s[j + 1]
    BY <1>8
  <2>3. (IF i < k THEN i ELSE i + 1) = (IF j < k THEN j ELSE j + 1)
    BY <1>1, <1>9, <2>1, <2>2
  <2> QED
    BY <1>1, <2>1, <2>3
<1>10. DOMAIN t = 1 .. l - 1
  BY <1>7
<1>11. IsInjective(t)
  BY <1>9, <1>10 DEF IsInjective
<1>12. ASSUME NEW x PROVE x \in ToSet(t) <=> x \in ToSet(s) \ {p}
  <2>1. ASSUME NEW j \in 1 .. l - 1 PROVE \E i \in 1..l : t[j] = s[i] /\ i # k
    <3>1. CASE j < k
      <4>1. j \in 1..l /\ j # k
        BY <1>1, <3>1
      <4> QED BY <1>8, <3>1, <4>1
    <3>2. CASE ~(j < k)
      <4>1. j + 1 \in 1..l /\ j + 1 # k
        BY <1>1, <3>2
      <4> QED BY <1>8, <3>2, <4>1
    <3> QED BY <3>1, <3>2
  <2>2. ASSUME NEW i \in 1..l, i # k PROVE \E j \in 1 .. l - 1 : t[j] = s[i]
    <3>1. CASE i < k
      <4>1. i \in 1 .. l - 1
        BY <1>1, <3>1
      <4> QED BY <1>8, <3>1, <4>1
    <3>2. CASE i > k
      <4>1. i - 1 \in 1 .. l - 1 /\ ~(i - 1 < k) /\ (i - 1) + 1 = i
        BY <1>1, <3>2
      <4>2. t[i - 1] = s[(i - 1) + 1]
        BY <1>8, <4>1
      <4> QED BY <4>1, <4>2
    <3> QED BY <1>1, <2>2, <3>1, <3>2
  <2>3. \A i \in 1..l : s[i] = p <=> i = k
    BY <1>1, <1>2
  <2>4. x \in ToSet(t) <=> \E j \in 1 .. l - 1 : x = t[j]
    BY <1>10 DEF ToSet
  <2>5. x \in ToSet(s) <=> \E i \in 1..l : x = s[i]
    BY <1>1 DEF ToSet
  <2> QED
    BY <2>1, <2>2, <2>3, <2>4, <2>5
<1>13. p \in ToSet(s)
  BY <1>1, <1>2 DEF ToSet
<1> QED
  BY <1>0, <1>11, <1>12, <1>13

\* Only the handler itself moves the handler.
LEMMA HandlerMoves ==
    ASSUME Next
    PROVE  irq' = irq \/ Enter \/ Scan \/ HandleInterrupt \/ AfterPush
<1> USE DEF Handling
<1>1. ASSUME NEW p \in Ports, NEW c \in {"ok", "error"}, CharArrives(p, c) PROVE irq' = irq
  BY <1>1 DEF CharArrives
<1>2. ASSUME NEW p \in Ports, TransmitterEmpties(p) \/ BackupTimer(p) PROVE irq' = irq
  BY <1>2 DEF TransmitterEmpties, BackupTimer, TimerFires, TimerLooks, TimerDecides,
     TimerHandles, TimerPushed, TimerRestores
<1>3. ASSUME NEW p \in Ports, Startup(p) PROVE irq' = irq
  BY <1>3 DEF Startup, StartupBegins, SafetyCheckEngaged, TestThre, LinkLookup, LinkNoMemory,
     LinkAdd, LinkFreed, RequestIrq, RequestFails, TestTxenBegins, TestTxenEnds,
     EnableInterrupts
<1>4. ASSUME NEW p \in Ports, Shutdown(p) PROVE irq' = irq
  BY <1>4 DEF Shutdown, ShutdownBegins, LowerOut2, DelTimerSync, UnlinkBegins, UnlinkEnds
<1>5. ASSUME NEW p \in Ports, NEW n \in 1 .. 2, serial8250_start_tx(p, n) PROVE irq' = irq
  BY <1>5 DEF serial8250_start_tx
<1>6. ASSUME NEW p \in Ports, serial8250_tx_empty(p) \/ serial8250_set_termios(p)
      PROVE  irq' = irq
  BY <1>6 DEF serial8250_tx_empty, serial8250_set_termios
<1>7. ASSUME ConsoleWrite PROVE irq' = irq
  BY <1>7 DEF ConsoleWrite, ConsoleBegins, wait_for_xmitr, serial8250_console_putchar,
     ConsoleRestores
<1> QED
  BY <1>1, <1>2, <1>3, <1>4, <1>5, <1>6, <1>7, Zenon DEF Next

\* The handler moves along the chain.
LEMMA HandlerLinked ==
    ASSUME TypeOK, Links, Enter \/ Scan \/ HandleInterrupt \/ AfterPush
    PROVE  irq'.pc # "idle" => /\ irq'.l \in ToSet(chain)
                               /\ irq'.end \in ToSet(chain) \cup {"none"}
<1>0. /\ irq \in [pc : {"idle", "scan", "handle", "push"}, l : Ports,
                  end : Ports \cup {"none"}, pass : Nat, thre : BOOLEAN]
      /\ irq.pc # "idle" => /\ irq.l \in ToSet(chain)
                            /\ irq.end \in ToSet(chain) \cup {"none"}
  BY DEF TypeOK, Links
<1>1. CASE Enter
  <2>1. Head(chain) \in ToSet(chain)
    <3>1. chain \in Seq(Ports) /\ chain # <<>>
      BY <1>1 DEF Enter, TypeOK
    <3>2. 1 \in DOMAIN chain /\ Head(chain) = chain[1]
      BY <3>1
    <3> QED BY <3>2 DEF ToSet
  <2>2. irq'.l = Head(chain) /\ irq'.end = "none"
    BY <1>1 DEF Enter, Quiet
  <2> QED
    BY <2>1, <2>2
<1>2. ASSUME irq.pc # "idle", NEW e \in ToSet(chain) \cup {"none"}, Advance(e)
      PROVE  irq'.pc # "idle" => /\ irq'.l \in ToSet(chain)
                                 /\ irq'.end \in ToSet(chain) \cup {"none"}
  BY <1>2, AdvanceType
<1>3. CASE Scan
  <2>1. CASE irq' = [irq EXCEPT !.pc = "handle"]
    BY <1>0, <1>3, <2>1 DEF Scan
  <2>2. CASE Advance(IF irq.end = "none" THEN irq.l ELSE irq.end)
    <3>1. PICK e : e = IF irq.end = "none" THEN irq.l ELSE irq.end
      OBVIOUS
    <3>2. irq.pc # "idle" /\ e \in ToSet(chain) \cup {"none"} /\ Advance(e)
      BY <1>0, <1>3, <2>2, <3>1 DEF Scan
    <3> QED
      BY <1>2, <3>2
  <2> QED
    BY <1>3, <2>1, <2>2 DEF Scan
<1>4. CASE HandleInterrupt \/ AfterPush
  <2>1. CASE irq' = [irq EXCEPT !.pc = "push", !.thre = ~ busy[irq.l]]
    BY <1>0, <1>4, <2>1 DEF HandleInterrupt, AfterPush
  <2>2. CASE Advance(EndAfterService(irq.end))
    <3>1. irq.pc # "idle" /\ "none" \in ToSet(chain) \cup {"none"} /\ Advance("none")
      BY <1>4, <2>2 DEF HandleInterrupt, AfterPush, EndAfterService
    <3> QED
      BY <1>2, <3>1
  <2> QED
    BY <1>4, <2>1, <2>2 DEF HandleInterrupt, AfterPush
<1> QED
  BY <1>1, <1>3, <1>4

LEMMA NextLinks ==
    ASSUME TypeOK, Links, Next
    PROVE  Links'
<1> USE DEF chip, port, timers, links, history, Step
<1>0. /\ IsInjective(chain) /\ \A p \in Ports : p \in ToSet(chain) <=> pc[p] \in Chained
      /\ \A p \in Ports : /\ pc[p] # "closed" => opens > 0
                          /\ pc[p] = "link" => ptr[p] # 0
      /\ chain # <<>> => info # 0
      /\ pc \in [Ports -> {"closed", "test", "lookup", "link", "request", "init", "txen",
                           "clear", "termios", "open", "lower", "timer", "unlink", "unlinking"}]
      /\ opens \in Nat /\ info \in Nat /\ ptr \in [Ports -> Nat]
  BY PortsAssumption DEF Links, TypeOK
<1> DEFINE Ch == /\ IsInjective(chain')
                 /\ \A p \in Ports : p \in ToSet(chain') <=> pc'[p] \in Chained
                 /\ \A p \in Ports : /\ pc'[p] # "closed" => opens' > 0
                                     /\ pc'[p] = "link" => ptr'[p] # 0
                 /\ chain' # <<>> => info' # 0
<1>1. ASSUME NEW p \in Ports, Unlink(p), pc' = [pc EXCEPT ![p] = "closed"], opens' = opens
      PROVE  Ch
  <2>1. /\ IsInjective(chain') /\ ToSet(chain') = ToSet(chain) \ {p}
        /\ p \in ToSet(chain)
    BY <1>0, <1>1, Removed
  <2>2. chain # <<>>
    BY <2>1 DEF ToSet
  <2>3. ptr' = [ptr EXCEPT ![p] = 0] /\ (chain' # <<>> => info' = info)
    BY <1>1 DEF Unlink
  <2> QED
    BY <1>0, <1>1, <2>1, <2>2, <2>3 DEF Chained
<1>2. ASSUME NEW p \in Ports, Startup(p) PROVE Ch
  <2>1. CASE StartupBegins(p)
    BY <1>0, <2>1 DEF StartupBegins, Chained
  <2>2. CASE SafetyCheckEngaged(p) \/ TestThre(p) \/ LinkNoMemory(p)
    BY <1>0, <2>2 DEF SafetyCheckEngaged, TestThre, LinkNoMemory, Chained
  <2>3. CASE LinkLookup(p)
    BY <1>0, <2>3 DEF LinkLookup, Chained
  <2>4. CASE LinkAdd(p)
    <3>1. p \notin ToSet(chain) /\ info # 0
      BY <1>0, <2>4 DEF LinkAdd, Chained
    <3>2. IsInjective(chain') /\ ToSet(chain') = ToSet(chain) \cup {p}
      BY <1>0, <2>4, <3>1, Inserted
    <3>3. UNCHANGED <<info, ptr, opens>> /\ pc[p] = "link"
      BY <2>4 DEF LinkAdd
    <3>4. \E x \in {"request", "init"} : pc' = [pc EXCEPT ![p] = x]
      BY <2>4 DEF LinkAdd
    <3> QED
      BY <1>0, <3>1, <3>2, <3>3, <3>4 DEF Chained
  <2>5. CASE LinkFreed(p)
    BY <1>0, <2>5 DEF LinkFreed
  <2>6. CASE RequestIrq(p) \/ TestTxenBegins(p) \/ TestTxenEnds(p) \/ EnableInterrupts(p)
    BY <1>0, <2>6 DEF RequestIrq, TestTxenBegins, TestTxenEnds, EnableInterrupts, Chained
  <2>7. CASE RequestFails(p)
    BY <1>1, <2>7 DEF RequestFails
  <2> QED
    BY <1>2, <2>1, <2>2, <2>3, <2>4, <2>5, <2>6, <2>7 DEF Startup
<1>3. ASSUME NEW p \in Ports, Shutdown(p) \/ serial8250_set_termios(p) PROVE Ch
  <2>1. CASE ShutdownBegins(p) \/ LowerOut2(p) \/ DelTimerSync(p) \/ UnlinkBegins(p)
    BY <1>0, <2>1 DEF ShutdownBegins, LowerOut2, DelTimerSync, UnlinkBegins, Chained
  <2>2. CASE UnlinkEnds(p)
    BY <1>1, <2>2 DEF UnlinkEnds
  <2>3. CASE serial8250_set_termios(p)
    BY <1>0, <2>3 DEF serial8250_set_termios, Chained
  <2> QED
    BY <1>3, <2>1, <2>2, <2>3 DEF Shutdown
<1>4. ASSUME ConsoleWrite PROVE Ch
  BY <1>0, <1>4 DEF ConsoleWrite, ConsoleBegins, wait_for_xmitr, serial8250_console_putchar,
     ConsoleRestores
<1>5. ASSUME Elsewhere PROVE Ch
  BY <1>0, <1>5 DEF Elsewhere
<1>6. Ch
  <2> HIDE DEF Ch
  <2> QED BY <1>2, <1>3, <1>4, <1>5, Kinds
<1>7. chain' = chain \/ irq.pc = "idle"
  <2>1. ASSUME NEW p \in Ports, Startup(p) PROVE chain' = chain \/ irq.pc = "idle"
    BY <2>1 DEF Startup, StartupBegins, SafetyCheckEngaged, TestThre, LinkLookup, LinkNoMemory,
       LinkAdd, LinkFreed, RequestIrq, RequestFails, TestTxenBegins, TestTxenEnds,
       EnableInterrupts, Unlink
  <2>2. ASSUME NEW p \in Ports, Shutdown(p) \/ serial8250_set_termios(p)
        PROVE  chain' = chain \/ irq.pc = "idle"
    BY <2>2 DEF Shutdown, ShutdownBegins, LowerOut2, DelTimerSync, UnlinkBegins, UnlinkEnds,
       Unlink, serial8250_set_termios
  <2>3. CASE ConsoleWrite
    BY <2>3 DEF ConsoleWrite, ConsoleBegins, wait_for_xmitr, serial8250_console_putchar,
       ConsoleRestores
  <2>4. CASE Elsewhere
    BY <2>4 DEF Elsewhere
  <2> QED
    BY <2>1, <2>2, <2>3, <2>4, Kinds
<1>8. irq'.pc # "idle" => /\ irq'.l \in ToSet(chain')
                          /\ irq'.end \in ToSet(chain') \cup {"none"}
  <2>1. CASE irq' = irq
    BY <1>7, <2>1 DEF Links
  <2>2. CASE Enter \/ Scan \/ HandleInterrupt \/ AfterPush
    <3>1. chain' = chain
      BY <2>2 DEF Enter, Scan, HandleInterrupt, AfterPush, Handling
    <3> QED
      BY <2>2, <3>1, HandlerLinked
  <2> QED
    BY <2>1, <2>2, HandlerMoves
<1> QED
  BY <1>6, <1>8 DEF Links

\* One link or unlink at a time, if none has overlapped.
LEMMA NextAlone ==
    ASSUME TypeOK, Links, Alone, Next
    PROVE  Alone'
<1> USE DEF chip, port, timers, links, history, Step
<1> SUFFICES ASSUME ~ overlap' PROVE
        /\ \A p, q \in Ports : pc'[p] \in Linking /\ pc'[q] \in Linking => p = q
        /\ ~ registered' => \A p \in Ports : pc'[p] \in Chained => pc'[p] \in Linking
        /\ \A p, q \in Ports : pc'[p] = "request" /\ pc'[q] \in Chained => p = q
  BY DEF Alone
<1> DEFINE Al == /\ \A p, q \in Ports : pc'[p] \in Linking /\ pc'[q] \in Linking => p = q
                 /\ ~ registered' => \A p \in Ports : pc'[p] \in Chained => pc'[p] \in Linking
                 /\ \A p, q \in Ports : pc'[p] = "request" /\ pc'[q] \in Chained => p = q
<1>0. /\ pc \in [Ports -> {"closed", "test", "lookup", "link", "request", "init", "txen",
                           "clear", "termios", "open", "lower", "timer", "unlink", "unlinking"}]
      /\ overlap \in BOOLEAN /\ registered \in BOOLEAN
      /\ \A p \in Ports : p \in ToSet(chain) <=> pc[p] \in Chained
  BY DEF TypeOK, Links
<1>1. ~ overlap => /\ \A p, q \in Ports : pc[p] \in Linking /\ pc[q] \in Linking => p = q
                   /\ ~ registered => \A p \in Ports : pc[p] \in Chained => pc[p] \in Linking
                   /\ \A p, q \in Ports : pc[p] = "request" /\ pc[q] \in Chained => p = q
  BY DEF Alone
<1>2. ASSUME NEW p \in Ports, Startup(p) PROVE Al
  <2>1. CASE StartupBegins(p) \/ SafetyCheckEngaged(p) \/ TestThre(p) \/ LinkNoMemory(p)
    BY <1>0, <1>1, <2>1 DEF StartupBegins, SafetyCheckEngaged, TestThre, LinkNoMemory, Chained,
       Linking
  <2>2. CASE LinkLookup(p)
    <3>1. /\ ~ overlap /\ \A q \in Ports \ {p} : pc[q] \notin Linking
          /\ pc[p] = "lookup" /\ pc' = [pc EXCEPT ![p] = "link"] /\ registered' = registered
      BY <1>0, <2>2 DEF LinkLookup, Overlapping
    <3> QED
      BY <1>0, <1>1, <3>1 DEF Chained, Linking
  <2>3. CASE LinkAdd(p)
    <3>1. ~ overlap /\ registered' = registered /\ pc[p] = "link" /\ p \notin ToSet(chain)
      BY <1>0, <2>3 DEF LinkAdd, Chained
    <3>2. CASE chain = <<>>
      <4>1. \A q \in Ports : pc[q] \notin Chained
        <5>1. ToSet(chain) = {}
          BY <3>2 DEF ToSet
        <5> QED BY <1>0, <5>1
      <4>2. pc' = [pc EXCEPT ![p] = "request"]
        BY <2>3, <3>2 DEF LinkAdd
      <4> QED
        BY <1>0, <1>1, <3>1, <4>1, <4>2 DEF Chained, Linking
    <3>3. CASE chain # <<>>
      <4>1. PICK r \in Ports : pc[r] \in Chained
        <5>1. chain \in Seq(Ports)
          BY DEF TypeOK
        <5>2. 1 \in DOMAIN chain /\ chain[1] \in Ports
          BY <3>3, <5>1
        <5>3. chain[1] \in ToSet(chain)
          BY <5>2 DEF ToSet
        <5> QED BY <1>0, <5>2, <5>3
      <4>2. pc' = [pc EXCEPT ![p] = "init"]
        BY <2>3, <3>3 DEF LinkAdd
      <4>3. registered
        BY <1>1, <3>1, <4>1 DEF Chained, Linking
      <4>4. \A q \in Ports : pc[q] # "request"
        BY <1>1, <3>1 DEF Linking
      <4> QED
        BY <1>0, <1>1, <3>1, <4>2, <4>3, <4>4 DEF Chained, Linking
    <3> QED
      BY <3>2, <3>3
  <2>4. CASE LinkFreed(p)
    BY <1>0, <1>1, <2>4 DEF LinkFreed
  <2>5. CASE RequestIrq(p)
    BY <1>0, <1>1, <2>5 DEF RequestIrq, Chained, Linking
  <2>6. CASE RequestFails(p)
    BY <1>0, <1>1, <2>6 DEF RequestFails, Chained, Linking
  <2>7. CASE TestTxenBegins(p) \/ TestTxenEnds(p) \/ EnableInterrupts(p)
    BY <1>0, <1>1, <2>7 DEF TestTxenBegins, TestTxenEnds, EnableInterrupts, Chained, Linking
  <2> QED
    BY <1>2, <2>1, <2>2, <2>3, <2>4, <2>5, <2>6, <2>7 DEF Startup
<1>3. ASSUME NEW p \in Ports, Shutdown(p) \/ serial8250_set_termios(p) PROVE Al
  <2>1. CASE ShutdownBegins(p) \/ LowerOut2(p) \/ DelTimerSync(p) \/ serial8250_set_termios(p)
    BY <1>0, <1>1, <2>1 DEF ShutdownBegins, LowerOut2, DelTimerSync, serial8250_set_termios,
       Chained, Linking
  <2>2. CASE UnlinkBegins(p)
    <3>1. /\ ~ overlap /\ \A q \in Ports \ {p} : pc[q] \notin Linking
          /\ pc[p] = "unlink" /\ pc' = [pc EXCEPT ![p] = "unlinking"]
          /\ registered' = (registered /\ Len(chain) # 1)
      BY <1>0, <2>2 DEF UnlinkBegins, Overlapping
    <3>2. ASSUME Len(chain) = 1, NEW q \in Ports, pc[q] \in Chained PROVE q = p
      <4>1. p \in ToSet(chain) /\ q \in ToSet(chain)
        BY <1>0, <3>1, <3>2 DEF Chained
      <4>2. DOMAIN chain = 1 .. 1
        BY <3>2 DEF TypeOK
      <4> QED BY <4>1, <4>2 DEF ToSet
    <3> QED
      BY <1>0, <1>1, <3>1, <3>2 DEF Chained, Linking
  <2>3. CASE UnlinkEnds(p)
    BY <1>0, <1>1, <2>3 DEF UnlinkEnds, Chained, Linking
  <2> QED
    BY <1>3, <2>1, <2>2, <2>3 DEF Shutdown
<1>4. ASSUME ConsoleWrite PROVE Al
  BY <1>1, <1>4 DEF ConsoleWrite, ConsoleBegins, wait_for_xmitr, serial8250_console_putchar,
     ConsoleRestores
<1>5. ASSUME Elsewhere PROVE Al
  BY <1>1, <1>5 DEF Elsewhere
<1> HIDE DEF Al
<1>6. Al
  BY <1>2, <1>3, <1>4, <1>5, Kinds
<1> QED
  BY <1>6 DEF Al

-----------------------------------------------------------------------------
(* The interrupt enable register.                                            *)

\* serial8250_handle_port keeps the register and the driver's copy together.
LEMMA HandleEnables ==
    ASSUME TypeOK, NEW p \in Ports, NEW thre, HandleFirst(p) \/ HandleRest(p, thre)
    PROVE  /\ \A q \in Ports \ {p} : IER'[q] = IER[q] /\ ier'[q] = ier[q]
           /\ IER[p] = ier[p] => IER'[p] = ier'[p]
           /\ Free(p)
<1>1. ASSUME NEW t, transmit_chars(p, t)
      PROVE  /\ \A q \in Ports \ {p} : IER'[q] = IER[q] /\ ier'[q] = ier[q]
             /\ IER[p] = ier[p] => IER'[p] = ier'[p]
  BY <1>1 DEF transmit_chars, TypeOK
<1> QED
  BY <1>1 DEF HandleFirst, HandleRest

LEMMA NextEnables ==
    ASSUME TypeOK, Locks, Silent, Enables, Pushes, Next
    PROVE  Enables'
<1> USE DEF chip, port, timers, links, history, Step
<1>0. /\ pc \in [Ports -> {"closed", "test", "lookup", "link", "request", "init", "txen",
                           "clear", "termios", "open", "lower", "timer", "unlink", "unlinking"}]
      /\ ier \in [Ports -> SUBSET {RX, TX}] /\ IER \in [Ports -> SUBSET {RX, TX}]
      /\ bugs \in [Ports -> SUBSET {"THRE", "TXEN"}]
      /\ lock \in [Ports -> {"none", "console", "startup"}]
      /\ Console \in Ports /\ irq.l \in Ports
      /\ con \in [pc : {"idle", "put", "restore"}, ier : SUBSET {RX, TX}]
  BY PortsAssumption DEF TypeOK
<1>1. ASSUME NEW p \in Ports, Startup(p) PROVE Enables'
  <2>1. CASE StartupBegins(p) \/ SafetyCheckEngaged(p) \/ LinkNoMemory(p)
    BY <1>0, <2>1 DEF StartupBegins, SafetyCheckEngaged, LinkNoMemory, Enables, Early
  <2>2. CASE TestThre(p)
    <3>1. /\ pc' = [pc EXCEPT ![p] = "lookup"] /\ IER' = [IER EXCEPT ![p] = {}]
          /\ lock[p] = "none" /\ UNCHANGED <<ier, lock, con>>
          /\ \A q \in Ports : "THRE" \in bugs[q] => "THRE" \in bugs'[q]
      BY <1>0, <2>2 DEF TestThre, Free
    <3> QED
      BY <1>0, <3>1 DEF Enables, Early
  <2>3. CASE LinkLookup(p)
    BY <1>0, <2>3 DEF LinkLookup, Enables, Early
  <2>4. CASE LinkAdd(p)
    <3>1. /\ \E x \in {"request", "init"} : pc' = [pc EXCEPT ![p] = x]
          /\ UNCHANGED <<IER, ier, lock, con, bugs>> /\ pc[p] = "link"
      BY <2>4 DEF LinkAdd
    <3> QED
      BY <1>0, <3>1 DEF Enables, Early
  <2>5. CASE LinkFreed(p)
    BY <2>5 DEF LinkFreed, Enables
  <2>6. CASE RequestIrq(p) \/ RequestFails(p)
    BY <1>0, <2>6 DEF RequestIrq, RequestFails, Enables, Early
  <2>7. CASE TestTxenBegins(p)
    BY <1>0, <2>7 DEF TestTxenBegins, WriteIER, Free, Enables, Early
  <2>8. CASE TestTxenEnds(p)
    <3>1. /\ pc' = [pc EXCEPT ![p] = "clear"] /\ IER' = [IER EXCEPT ![p] = {}]
          /\ lock' = [lock EXCEPT ![p] = "none"] /\ UNCHANGED <<ier, con>>
          /\ \A q \in Ports : "THRE" \in bugs[q] => "THRE" \in bugs'[q]
      BY <1>0, <2>8 DEF TestTxenEnds
    <3> QED
      BY <1>0, <3>1 DEF Enables, Early
  <2>9. CASE EnableInterrupts(p)
    BY <1>0, <2>9 DEF EnableInterrupts, Enables, Early
  <2> QED
    BY <1>1, <2>1, <2>2, <2>3, <2>4, <2>5, <2>6, <2>7, <2>8, <2>9 DEF Startup
<1>2. ASSUME NEW p \in Ports, Shutdown(p) \/ serial8250_set_termios(p) PROVE Enables'
  <2>1. CASE ShutdownBegins(p)
    BY <1>0, <2>1 DEF ShutdownBegins, WriteIER, Enables, Early
  <2>2. CASE LowerOut2(p) \/ DelTimerSync(p) \/ UnlinkBegins(p) \/ UnlinkEnds(p)
    BY <1>0, <2>2 DEF LowerOut2, DelTimerSync, UnlinkBegins, UnlinkEnds, Enables, Early
  <2>3. CASE serial8250_set_termios(p)
    BY <1>0, <2>3 DEF serial8250_set_termios, WriteIER, Free, Enables, Early
  <2> QED
    BY <1>2, <2>1, <2>2, <2>3 DEF Shutdown
<1>3. CASE ConsoleWrite
  <2>0. \A q \in Ports : lock[q] = "console" <=> q = Console /\ con.pc # "idle"
    BY DEF Locks
  <2>1. CASE ConsoleBegins
    <3>1. /\ IER' = [IER EXCEPT ![Console] = {}] /\ con'.ier = IER[Console]
          /\ lock' = [lock EXCEPT ![Console] = "console"] /\ lock[Console] = "none"
          /\ UNCHANGED <<pc, ier, bugs>>
      BY <2>1 DEF ConsoleBegins, WriteIER, Free
    <3>2. \A q \in Ports : lock[q] # "console"
      BY <2>0, <2>1 DEF ConsoleBegins
    <3> QED
      BY <1>0, <3>1, <3>2 DEF Enables, Early
  <2>2. CASE wait_for_xmitr
    BY <2>2 DEF wait_for_xmitr, Enables
  <2>3. CASE serial8250_console_putchar
    <3>1. con'.ier = con.ier /\ UNCHANGED <<IER, pc, ier, bugs, lock>>
      BY <1>0, <2>3 DEF serial8250_console_putchar
    <3> QED
      BY <3>1 DEF Enables
  <2>4. CASE ConsoleRestores
    <3>1. /\ IER' = [IER EXCEPT ![Console] = con.ier] /\ lock[Console] = "console"
          /\ lock' = [lock EXCEPT ![Console] = "none"]
          /\ UNCHANGED <<pc, ier, bugs>>
      BY <1>0, <2>0, <2>4 DEF ConsoleRestores, WriteIER
    <3>2. \A q \in Ports \ {Console} : lock[q] # "console"
      BY <2>0
    <3> QED
      BY <1>0, <3>1, <3>2 DEF Enables, Early
  <2> QED
    BY <1>3, <2>1, <2>2, <2>3, <2>4 DEF ConsoleWrite
<1>4. ASSUME NEW p \in Ports, NEW thre, HandleFirst(p) \/ HandleRest(p, thre),
             "THRE" \notin bugs[p] => pc[p] \notin Early,
             UNCHANGED <<pc, bugs, lock, con>>
      PROVE  Enables'
  <2>1. /\ \A q \in Ports \ {p} : IER'[q] = IER[q] /\ ier'[q] = ier[q]
        /\ IER[p] = ier[p] => IER'[p] = ier'[p]
        /\ lock[p] = "none"
    BY <1>4, HandleEnables DEF Free
  <2> QED
    BY <1>0, <1>4, <2>1 DEF Enables
<1>5. CASE HandleInterrupt \/ AfterPush
  <2>1. UNCHANGED <<pc, bugs, lock, con>>
    BY <1>5 DEF HandleInterrupt, AfterPush, Handling
  <2>2. "THRE" \notin bugs[irq.l] => pc[irq.l] \notin Early
    BY <1>5 DEF HandleInterrupt, AfterPush, Pushes
  <2>3. \E t : HandleFirst(irq.l) \/ HandleRest(irq.l, t)
    BY <1>5 DEF HandleInterrupt, AfterPush
  <2> QED
    BY <1>0, <1>4, <2>1, <2>2, <2>3
<1>6. ASSUME NEW p \in Ports, BackupTimer(p) PROVE Enables'
  <2>0. timer[p] # "off"
    BY <1>6 DEF BackupTimer, TimerFires, TimerLooks, TimerDecides, TimerHandles, TimerPushed,
       TimerRestores
  <2>1. "THRE" \in bugs[p]
    BY <2>0 DEF Silent
  <2>2. CASE TimerHandles(p) \/ TimerPushed(p)
    <3>1. UNCHANGED <<pc, bugs, lock, con>>
      BY <2>2 DEF TimerHandles, TimerPushed, Handling
    <3>2. \E t : HandleFirst(p) \/ HandleRest(p, t)
      BY <2>2 DEF TimerHandles, TimerPushed
    <3> QED
      BY <1>4, <2>1, <3>1, <3>2
  <2>3. CASE TimerFires(p) \/ TimerRestores(p)
    <3>1. /\ UNCHANGED <<pc, bugs, lock, con, ier>>
          /\ \E x : IER' = [IER EXCEPT ![p] = x]
      BY <2>3 DEF TimerFires, TimerRestores, WriteIER
    <3> QED
      BY <1>0, <2>1, <3>1 DEF Enables
  <2>4. CASE TimerLooks(p) \/ TimerDecides(p)
    BY <2>4 DEF TimerLooks, TimerDecides, Enables
  <2> QED
    BY <1>6, <2>2, <2>3, <2>4 DEF BackupTimer
<1>7. ASSUME NEW p \in Ports, NEW n \in 1 .. 2, serial8250_start_tx(p, n) PROVE Enables'
  <2>1. PICK on \in BOOLEAN, last \in BOOLEAN :
           /\ on = (TX \notin ier[p])
           /\ last => on
           /\ ier' = [ier EXCEPT ![p] = IF last THEN @ ELSE @ \cup {TX}]
           /\ IER' = [IER EXCEPT ![p] = IF on THEN ier'[p] ELSE @]
    <3> DEFINE on == TX \notin ier[p]
               last == (on /\ "TXEN" \in bugs[p] /\ ~ busy[p]) /\ xmit[p] + n = 1
    <3>1. /\ ier' = [ier EXCEPT ![p] = IF last THEN @ ELSE @ \cup {TX}]
          /\ IER' = [IER EXCEPT ![p] = IF on THEN ier'[p] ELSE @]
      BY <1>7 DEF serial8250_start_tx
    <3>2. on \in BOOLEAN /\ last \in BOOLEAN /\ (last => on)
      OBVIOUS
    <3> HIDE DEF last
    <3> QED
      BY <3>1, <3>2
  <2>2. /\ UNCHANGED <<pc, bugs, lock, con>> /\ pc[p] = "open" /\ lock[p] = "none"
    BY <1>7 DEF serial8250_start_tx, Free
  <2>3. IER[p] = ier[p] => IER'[p] = ier'[p]
    <3>1. CASE on
      BY <1>0, <2>1, <3>1
    <3>2. CASE ~ on
      <4>1. TX \in ier[p] /\ ~ last
        BY <2>1, <3>2
      <4>2. ier[p] \cup {TX} = ier[p]
        BY <4>1
      <4>3. ier'[p] = ier[p] /\ IER'[p] = IER[p]
        BY <1>0, <2>1, <3>2, <4>1, <4>2
      <4> QED BY <4>3
    <3> QED BY <2>1, <3>1, <3>2
  <2>4. \A q \in Ports \ {p} : IER'[q] = IER[q] /\ ier'[q] = ier[q]
    BY <1>0, <2>1
  <2> QED
    BY <1>0, <2>2, <2>3, <2>4 DEF Enables, Early
<1>8. ASSUME NEW p \in Ports, NEW c \in {"ok", "error"}, CharArrives(p, c) PROVE Enables'
  BY <1>8 DEF CharArrives, Enables
<1>9. ASSUME NEW p \in Ports, TransmitterEmpties(p) \/ serial8250_tx_empty(p) PROVE Enables'
  BY <1>9 DEF TransmitterEmpties, serial8250_tx_empty, Enables
<1>10. CASE Enter \/ Scan
  BY <1>10 DEF Enter, Scan, Enables
<1> QED
  BY <1>1, <1>2, <1>3, <1>5, <1>6, <1>7, <1>8, <1>9, <1>10, Zenon DEF Next

-----------------------------------------------------------------------------
(* The transmitter.                                                          *)

\* serial8250_handle_port, and who may find the transmitter busy.
LEMMA HandleTransmits ==
    ASSUME TypeOK, NEW p \in Ports, NEW thre \in BOOLEAN, ~ overrun,
           \/ HandleFirst(p)
           \/ HandleRest(p, thre) /\ (thre /\ bugs[p] = {} => ~ busy[p])
    PROVE  /\ ~ overrun'
           /\ \A q \in Ports \ {p} : busy'[q] = busy[q]
           /\ HandleFirst(p) /\ rx[p] # <<>> => busy' = busy
           /\ Free(p)
<1>1. ASSUME NEW t \in BOOLEAN, transmit_chars(p, t), t /\ bugs[p] = {} => ~ busy[p]
      PROVE  ~ overrun' /\ \A q \in Ports \ {p} : busy'[q] = busy[q]
  BY <1>1 DEF transmit_chars, TypeOK
<1>2. CASE HandleFirst(p) /\ rx[p] # <<>>
  BY <1>2 DEF HandleFirst
<1>3. CASE HandleFirst(p) /\ rx[p] = <<>>
  <2>1. PICK t \in BOOLEAN : t = ~ busy[p]
    OBVIOUS
  <2>2. transmit_chars(p, t) /\ Free(p)
    BY <1>3, <2>1 DEF HandleFirst
  <2> QED
    BY <1>1, <1>3, <2>1, <2>2
<1>4. CASE HandleRest(p, thre) /\ ~ HandleFirst(p)
  BY <1>1, <1>4 DEF HandleRest
<1> QED
  BY <1>2, <1>3, <1>4

LEMMA NextPushes ==
    ASSUME TypeOK, Locks, Links, Silent, Enables, Pushes, Next
    PROVE  Pushes'
<1> USE DEF chip, port, timers, links, history, Step
<1>0. /\ pc \in [Ports -> {"closed", "test", "lookup", "link", "request", "init", "txen",
                           "clear", "termios", "open", "lower", "timer", "unlink", "unlinking"}]
      /\ bugs \in [Ports -> SUBSET {"THRE", "TXEN"}] /\ busy \in [Ports -> BOOLEAN]
      /\ lock \in [Ports -> {"none", "console", "startup"}]
      /\ Console \in Ports /\ irq.l \in Ports /\ overrun \in BOOLEAN
      /\ irq.pc # "idle" => pc[irq.l] \in Chained
      /\ ~ overrun
  BY PortsAssumption DEF TypeOK, Links, Pushes
<1> DEFINE l == irq.l
           Push == irq.pc = "push" /\ irq.thre /\ bugs[l] = {} /\ lock[l] = "none"
           In == irq.pc \in {"handle", "push"} /\ "THRE" \notin bugs[l]
<1>1. ASSUME irq' = irq, ~ overrun',
             \/ pc'[l] = pc[l]
             \/ pc'[l] \notin Early \cup {"txen"}
             \/ pc[l] \in {"test", "lookup"} \/ (pc[l] = "link" /\ irq.pc = "idle")
             \/ pc[l] \in Early \ {"link"},
             "THRE" \in bugs[l] => "THRE" \in bugs'[l],
             \/ bugs'[l] # {}
             \/ lock'[l] # "none"
             \/ bugs'[l] = bugs[l] /\ lock'[l] = lock[l] /\ busy'[l] = busy[l]
             \/ ~ busy'[l]
             \/ pc[l] = "txen"
      PROVE  Pushes'
  <2>1. pc[l] \in {"test", "lookup", "link"} => irq.pc = "idle"
    BY <1>0 DEF Chained
  <2>2. In => pc[l] \notin Early /\ (irq.pc = "push" => pc[l] # "txen")
    BY DEF Pushes
  <2>3. Push => ~ busy[l]
    BY DEF Pushes, Free
  <2>4. irq.pc \in {"handle", "push"} /\ "THRE" \notin bugs'[l] =>
            pc'[l] \notin Early /\ (irq.pc = "push" => pc'[l] # "txen")
    BY <1>1, <2>1, <2>2 DEF Early
  <2>5. irq.pc = "push" /\ irq.thre /\ bugs'[l] = {} /\ lock'[l] = "none" => ~ busy'[l]
    BY <1>1, <2>2, <2>3
  <2> QED
    BY <1>1, <2>4, <2>5 DEF Pushes, Free
<1>2. ASSUME NEW p \in Ports, Startup(p) PROVE Pushes'
  <2>1. CASE \/ StartupBegins(p) \/ SafetyCheckEngaged(p) \/ LinkLookup(p) \/ LinkNoMemory(p)
             \/ RequestIrq(p) \/ RequestFails(p)
    <3>1. UNCHANGED <<irq, overrun, bugs, lock, busy>>
      BY <2>1 DEF StartupBegins, SafetyCheckEngaged, LinkLookup, LinkNoMemory, RequestIrq,
         RequestFails
    <3>2. \/ pc'[l] = pc[l] \/ pc'[l] \notin Early \cup {"txen"}
          \/ pc[l] \in {"test", "lookup"} \/ pc[l] \in Early \ {"link"}
      BY <1>0, <2>1 DEF StartupBegins, SafetyCheckEngaged, LinkLookup, LinkNoMemory, RequestIrq,
         RequestFails, Early
    <3> QED
      BY <1>0, <1>1, <3>1, <3>2
  <2>2. CASE TestThre(p)
    <3>1. /\ UNCHANGED <<irq, overrun, lock, busy>> /\ pc' = [pc EXCEPT ![p] = "lookup"]
          /\ pc[p] = "test" /\ \A q \in Ports : "THRE" \in bugs[q] => "THRE" \in bugs'[q]
          /\ \A q \in Ports : bugs'[q] = bugs[q] \/ bugs'[q] # {}
      BY <1>0, <2>2 DEF TestThre
    <3>2. /\ pc'[l] = pc[l] \/ pc[l] = "test"
          /\ "THRE" \in bugs[l] => "THRE" \in bugs'[l]
          /\ bugs'[l] # {} \/ (bugs'[l] = bugs[l] /\ lock'[l] = lock[l] /\ busy'[l] = busy[l])
      BY <1>0, <3>1
    <3> QED
      BY <1>0, <1>1, <3>1, <3>2
  <2>3. CASE LinkAdd(p)
    <3>1. UNCHANGED <<irq, overrun, bugs, lock, busy>> /\ irq.pc = "idle"
      BY <2>3 DEF LinkAdd
    <3> QED
      BY <1>0, <3>1 DEF Pushes
  <2>4. CASE LinkFreed(p)
    BY <2>4 DEF LinkFreed, Pushes, Free
  <2>5. CASE TestTxenBegins(p)
    <3>1. UNCHANGED <<irq, overrun, bugs, busy>> /\ pc' = [pc EXCEPT ![p] = "txen"]
          /\ pc[p] = "init" /\ lock' = [lock EXCEPT ![p] = "startup"]
      BY <2>5 DEF TestTxenBegins
    <3> QED
      BY <1>0, <1>1, <3>1 DEF Early
  <2>6. CASE TestTxenEnds(p)
    <3>1. /\ UNCHANGED <<irq, overrun, busy>> /\ pc' = [pc EXCEPT ![p] = "clear"]
          /\ pc[p] = "txen" /\ lock' = [lock EXCEPT ![p] = "none"]
          /\ \A q \in Ports : "THRE" \in bugs[q] => "THRE" \in bugs'[q]
          /\ \A q \in Ports \ {p} : bugs'[q] = bugs[q]
      BY <1>0, <2>6 DEF TestTxenEnds
    <3>2. /\ pc'[l] = pc[l] \/ pc'[l] = "clear"
          /\ "THRE" \in bugs[l] => "THRE" \in bugs'[l]
          /\ \/ bugs'[l] = bugs[l] /\ lock'[l] = lock[l] /\ busy'[l] = busy[l]
             \/ pc[l] = "txen"
      BY <1>0, <3>1
    <3> QED
      BY <1>0, <1>1, <3>1, <3>2 DEF Early
  <2>7. CASE EnableInterrupts(p)
    <3>1. UNCHANGED <<irq, overrun, bugs, lock, busy>> /\ pc' = [pc EXCEPT ![p] = "termios"]
      BY <2>7 DEF EnableInterrupts
    <3> QED
      BY <1>0, <1>1, <3>1 DEF Early
  <2> QED
    BY <1>2, <2>1, <2>2, <2>3, <2>4, <2>5, <2>6, <2>7 DEF Startup
<1>3. ASSUME NEW p \in Ports, Shutdown(p) \/ serial8250_set_termios(p) PROVE Pushes'
  <2>1. UNCHANGED <<irq, overrun, bugs, lock, busy>>
    BY <1>3 DEF Shutdown, ShutdownBegins, LowerOut2, DelTimerSync, UnlinkBegins, UnlinkEnds,
       serial8250_set_termios
  <2>2. \E x \in {"open", "lower", "timer", "unlink", "unlinking", "closed"} :
           pc' = [pc EXCEPT ![p] = x]
    BY <1>3 DEF Shutdown, ShutdownBegins, LowerOut2, DelTimerSync, UnlinkBegins, UnlinkEnds,
       serial8250_set_termios
  <2> QED
    BY <1>0, <1>1, <2>1, <2>2 DEF Early
<1>4. CASE ConsoleWrite
  <2>1. CASE ConsoleBegins
    <3>1. UNCHANGED <<irq, overrun, bugs, pc, busy>>
          /\ lock' = [lock EXCEPT ![Console] = "console"]
      BY <2>1 DEF ConsoleBegins
    <3> QED
      BY <1>0, <1>1, <3>1
  <2>2. CASE wait_for_xmitr
    BY <2>2 DEF wait_for_xmitr, Pushes, Free
  <2>3. CASE serial8250_console_putchar
    <3>1. UNCHANGED <<irq, overrun, bugs, pc, lock>> /\ lock[Console] = "console"
          /\ busy' = [busy EXCEPT ![Console] = TRUE]
      BY <1>0, <2>3 DEF serial8250_console_putchar, Locks
    <3> QED
      BY <1>0, <1>1, <3>1
  <2>4. CASE ConsoleRestores
    <3>1. UNCHANGED <<irq, overrun, bugs, pc, busy>> /\ ~ busy[Console]
          /\ lock' = [lock EXCEPT ![Console] = "none"]
      BY <2>4 DEF ConsoleRestores
    <3> QED
      BY <1>0, <1>1, <3>1
  <2> QED
    BY <1>4, <2>1, <2>2, <2>3, <2>4 DEF ConsoleWrite
<1>5. ASSUME NEW p \in Ports, BackupTimer(p) PROVE Pushes'
  <2>0. timer[p] # "off" /\ irq' = irq /\ UNCHANGED <<pc, bugs, lock>>
    BY <1>5 DEF BackupTimer, TimerFires, TimerLooks, TimerDecides, TimerHandles, TimerPushed,
       TimerRestores, Handling
  <2>1. "THRE" \in bugs[p]
    BY <2>0 DEF Silent
  <2>2. ~ overrun' /\ \A q \in Ports \ {p} : busy'[q] = busy[q]
    <3>1. CASE TimerHandles(p) \/ TimerPushed(p)
      <4>1. \/ HandleFirst(p)
            \/ HandleRest(p, tsave[p].thre) /\ bugs[p] # {}
        BY <2>1, <3>1 DEF TimerHandles, TimerPushed
      <4>2. tsave[p].thre \in BOOLEAN
        BY DEF TypeOK
      <4> QED
        BY <1>0, <4>1, <4>2, HandleTransmits
    <3>2. CASE TimerFires(p) \/ TimerLooks(p) \/ TimerDecides(p) \/ TimerRestores(p)
      BY <1>0, <3>2 DEF TimerFires, TimerLooks, TimerDecides, TimerRestores
    <3> QED
      BY <1>5, <3>1, <3>2 DEF BackupTimer
  <2> QED
    BY <1>0, <1>1, <2>0, <2>1, <2>2
<1>6. ASSUME NEW p \in Ports, NEW n \in 1 .. 2, serial8250_start_tx(p, n) PROVE Pushes'
  <2>1. UNCHANGED <<irq, overrun, bugs, pc, lock>>
    BY <1>6 DEF serial8250_start_tx
  <2>2. \A q \in Ports : busy'[q] = busy[q] \/ "TXEN" \in bugs[q]
    BY <1>0, <1>6 DEF serial8250_start_tx
  <2> QED
    BY <1>0, <1>1, <2>1, <2>2
<1>7. ASSUME NEW p \in Ports, NEW c \in {"ok", "error"}, CharArrives(p, c) PROVE Pushes'
  BY <1>7 DEF CharArrives, Pushes, Free
<1>8. ASSUME NEW p \in Ports, TransmitterEmpties(p) PROVE Pushes'
  <2>1. UNCHANGED <<irq, overrun, bugs, pc, lock>> /\ busy' = [busy EXCEPT ![p] = FALSE]
    BY <1>8 DEF TransmitterEmpties
  <2> QED
    BY <1>0, <1>1, <2>1
<1>9. ASSUME NEW p \in Ports, serial8250_tx_empty(p) PROVE Pushes'
  BY <1>9 DEF serial8250_tx_empty, Pushes, Free
<1>10. ASSUME irq'.pc \in {"idle", "scan"}, ~ overrun' PROVE Pushes'
  BY <1>10 DEF Pushes
<1>11. CASE Enter
  BY <1>0, <1>10, <1>11 DEF Enter, Quiet
<1>12. CASE Scan
  <2>1. UNCHANGED <<overrun, bugs, lock, pc, busy>> /\ irq.pc = "scan"
    BY <1>12 DEF Scan
  <2>2. CASE Interrupting(irq.l)
    <3>1. irq' = [irq EXCEPT !.pc = "handle"]
      BY <1>12, <2>2 DEF Scan
    <3>2. irq'.l = irq.l /\ irq'.pc = "handle"
      BY <3>1 DEF TypeOK
    <3>3. IER[irq.l] # {}
      BY <2>2 DEF Interrupting
    <3>4. "THRE" \notin bugs[irq.l] => pc[irq.l] \notin Early
      BY <1>0, <3>3 DEF Enables
    <3> QED
      BY <1>0, <2>1, <3>2, <3>4 DEF Pushes
  <2>3. CASE ~ Interrupting(irq.l)
    <3>1. PICK e : e = IF irq.end = "none" THEN irq.l ELSE irq.end
      OBVIOUS
    <3>2. irq.pc # "idle" /\ e \in ToSet(chain) \cup {"none"} /\ Advance(e)
      BY <1>12, <2>1, <2>3, <3>1 DEF Scan, Links
    <3>3. irq'.pc \in {"idle", "scan"}
      BY <3>2, AdvanceType
    <3> QED
      BY <1>0, <1>10, <2>1, <3>3
  <2> QED
    BY <2>2, <2>3
<1>13. CASE HandleInterrupt \/ AfterPush
  <2>0. UNCHANGED <<pc, bugs, lock>> /\ irq.pc \in {"handle", "push"}
    BY <1>13 DEF HandleInterrupt, AfterPush, Handling
  <2>1. \/ HandleFirst(irq.l)
        \/ /\ HandleRest(irq.l, irq.thre)
           /\ irq.thre /\ bugs[irq.l] = {} => ~ busy[irq.l]
    BY <1>13 DEF HandleInterrupt, AfterPush, Pushes, HandleRest
  <2>2. irq.thre \in BOOLEAN
    BY DEF TypeOK
  <2>3. ~ overrun' /\ Free(irq.l) /\ (HandleFirst(irq.l) /\ rx[irq.l] # <<>> => busy' = busy)
    BY <1>0, <2>1, <2>2, HandleTransmits
  <2>4. CASE HandleInterrupt /\ rx[irq.l] # <<>>
    <3>1. irq' = [irq EXCEPT !.pc = "push", !.thre = ~ busy[irq.l]] /\ busy' = busy
      BY <2>3, <2>4 DEF HandleInterrupt
    <3>2. irq'.l = irq.l /\ irq'.pc = "push" /\ irq'.thre = ~ busy[irq.l]
      BY <3>1 DEF TypeOK
    <3>3. "THRE" \notin bugs[irq.l] => pc[irq.l] \notin Early
      BY <2>0 DEF Pushes
    <3>4. pc[irq.l] # "txen"
      BY <1>0, <2>3 DEF Locks, Free
    <3> QED
      BY <1>0, <2>0, <2>3, <3>1, <3>2, <3>3, <3>4 DEF Pushes
  <2>5. CASE Advance(EndAfterService(irq.end))
    <3>1. irq.pc # "idle" /\ "none" \in ToSet(chain) \cup {"none"} /\ Advance("none")
      BY <2>0, <2>5 DEF EndAfterService
    <3>2. irq'.pc \in {"idle", "scan"}
      BY <3>1, AdvanceType
    <3> QED
      BY <1>10, <2>3, <3>2
  <2> QED
    BY <1>13, <2>4, <2>5 DEF HandleInterrupt, AfterPush
<1> QED
  BY <1>2, <1>3, <1>4, <1>5, <1>6, <1>7, <1>8, <1>9, <1>11, <1>12, <1>13, Zenon DEF Next

-----------------------------------------------------------------------------
(* The characters.                                                           *)

\* One more character.
LEMMA OneMore ==
    ASSUME NEW C, NEW t \in Seq(C), NEW s \in Seq(C), NEW c \in C
    PROVE  t \o Append(s, c) = Append(t \o s, c)
<1>1. Append(s, c) = s \o <<c>>
  BY AppendIsConcat
<1>2. <<c>> \in Seq(C) /\ t \o s \in Seq(C)
  BY ConcatProperties
<1>3. Append(t \o s, c) = (t \o s) \o <<c>>
  BY <1>2, AppendIsConcat
<1>4. (t \o s) \o <<c>> = t \o (s \o <<c>>)
  BY <1>2, ConcatAssociative
<1> QED
  BY <1>1, <1>3, <1>4

\* A character that arrives is heard, and will be told.
LEMMA ArrivesComing ==
    ASSUME NEW t \in Seq({"ok", "error"}), NEW s \in Seq({"ok", "error"}),
           NEW c \in {"ok", "error"}, NEW flag \in BOOLEAN, flag => s # <<>>
    PROVE  t \o Coming(flag, Append(s, c)) = Append(t \o Coming(flag, s), c)
<1>1. CASE flag
  <2>1. Tail(Append(s, c)) = Append(Tail(s), c)
    BY <1>1, HeadTailAppend
  <2>2. Tail(s) \in Seq({"ok", "error"})
    BY <1>1, HeadTailProperties
  <2>3. <<"error">> \in Seq({"ok", "error"})
    OBVIOUS
  <2>4. <<"error">> \o Append(Tail(s), c) = Append(<<"error">> \o Tail(s), c)
    BY <2>2, <2>3, OneMore
  <2>5. <<"error">> \o Tail(s) \in Seq({"ok", "error"})
    BY <2>2, <2>3, ConcatProperties
  <2>6. t \o Append(<<"error">> \o Tail(s), c) = Append(t \o (<<"error">> \o Tail(s)), c)
    BY <2>5, OneMore
  <2> QED
    BY <1>1, <2>1, <2>4, <2>6 DEF Coming
<1>2. CASE ~ flag
  BY <1>2, OneMore DEF Coming
<1> QED
  BY <1>1, <1>2

\* An error that is taken out of the chip and kept is still to come.
LEMMA SavedComing ==
    ASSUME NEW s \in Seq({"ok", "error"}), s # <<>>, Head(s) = "error", NEW flag \in BOOLEAN
    PROVE  Coming(flag, s) = <<"error">> \o Tail(<<"ok">> \o Tail(s))
<1>1. Tail(s) \in Seq({"ok", "error"})
  BY HeadTailProperties
<1>2. PICK u \in Seq({"ok", "error"}) : u = Tail(s)
  BY <1>1
<1>3. Tail(<<"ok">> \o u) = u
  OBVIOUS
<1>4. s = <<"error">> \o u
  BY <1>2
<1> QED
  BY <1>2, <1>3, <1>4 DEF Coming

\* What receive_chars tells, if it tells everything, is what was to come.
LEMMA AllTold ==
    ASSUME NEW t \in Seq({"ok", "error"}), NEW s \in Seq({"ok", "error"}), s # <<>>,
           NEW flag \in BOOLEAN, NEW head, head = IF flag THEN "error" ELSE Head(s)
    PROVE  (t \o <<head>>) \o SubSeq(s, 2, Len(s)) = t \o Coming(flag, s)
<1>1. PICK u : u = Tail(s)
  OBVIOUS
<1>2. u \in Seq({"ok", "error"}) /\ SubSeq(s, 2, Len(s)) = u /\ Head(s) \in {"ok", "error"}
  BY <1>1, HeadTailProperties, TailIsSubSeq
<1>3. head \in {"ok", "error"}
  BY <1>2
<1>4. Coming(flag, s) = <<head>> \o u
  <2>1. CASE flag
    BY <1>1, <2>1 DEF Coming
  <2>2. CASE ~ flag
    <3>1. s = <<Head(s)>> \o u
      BY <1>1
    <3> QED
      BY <2>2, <3>1 DEF Coming
  <2> QED BY <2>1, <2>2
<1>5. <<head>> \in Seq({"ok", "error"})
  BY <1>3
<1>6. (t \o <<head>>) \o u = t \o (<<head>> \o u)
  BY <1>2, <1>5, ConcatAssociative
<1> QED
  BY <1>2, <1>4, <1>6

\* A reader of the LSR keeps what it takes.
LEMMA SaveReports ==
    ASSUME TypeOK, NEW p \in Ports, SaveFlags(p)
    PROVE  /\ \A q \in Ports \ {p} : rx'[q] = rx[q] /\ saved'[q] = saved[q]
           /\ (saved[p] => rx[p] # <<>>) =>
                 /\ saved'[p] => rx'[p] # <<>>
                 /\ Coming(saved'[p], rx'[p]) = Coming(saved[p], rx[p])
<1>1. PICK s : s = rx[p] /\ s \in Seq({"ok", "error"})
  BY DEF TypeOK, Chars
<1>2. PICK flag \in BOOLEAN : flag = saved[p]
  BY DEF TypeOK
<1>3. rx \in [Ports -> Chars] /\ saved \in [Ports -> BOOLEAN]
  BY DEF TypeOK
<1>4. CASE Error(p)
  <2>1. rx' = [rx EXCEPT ![p] = <<"ok">> \o Tail(s)] /\ s # <<>> /\ Head(s) = "error"
    BY <1>1, <1>4 DEF SaveFlags, LsrRead, Error
  <2>2. saved' = [saved EXCEPT ![p] = TRUE]
    BY <1>3, <1>4 DEF SaveFlags
  <2>3. rx'[p] = <<"ok">> \o Tail(s) /\ saved'[p]
        /\ \A q \in Ports \ {p} : rx'[q] = rx[q] /\ saved'[q] = saved[q]
    BY <1>3, <2>1, <2>2
  <2>4. Tail(s) \in Seq({"ok", "error"})
    BY <1>1, <2>1, HeadTailProperties
  <2>5. <<"ok">> \o Tail(s) # <<>>
    BY <2>4
  <2>6. Coming(flag, s) = <<"error">> \o Tail(<<"ok">> \o Tail(s))
    BY <1>1, <2>1, SavedComing
  <2>7. Coming(saved'[p], rx'[p]) = <<"error">> \o Tail(<<"ok">> \o Tail(s))
    BY <2>3 DEF Coming
  <2> QED
    BY <1>1, <1>2, <2>3, <2>5, <2>6, <2>7
<1>5. CASE ~ Error(p)
  <2>1. rx' = rx
    BY <1>5 DEF SaveFlags, LsrRead
  <2>2. Error(p) \in BOOLEAN
    BY DEF Error
  <2>3. saved'[p] = saved[p] /\ \A q \in Ports \ {p} : saved'[q] = saved[q]
    BY <1>3, <1>5, <2>2 DEF SaveFlags
  <2> QED
    BY <2>1, <2>3
<1> QED
  BY <1>4, <1>5

\* receive_chars leaves nothing behind, or has stopped at max_count.
LEMMA ReceiveReports ==
    ASSUME TypeOK, NEW p \in Ports, rx[p] # <<>>, receive_chars(p)
    PROVE  /\ \A q \in Ports \ {p} : /\ rx'[q] = rx[q] /\ saved'[q] = saved[q]
                                     /\ told'[q] = told[q] /\ cut'[q] = cut[q]
           /\ cut[p] => cut'[p]
           /\ ~ cut'[p] => /\ ~ saved'[p]
                           /\ told'[p] \o Coming(saved'[p], rx'[p]) = told[p] \o Coming(saved[p], rx[p])
<1> DEFINE C == {"ok", "error"}
<1>0. /\ rx \in [Ports -> Seq(C)] /\ told \in [Ports -> Seq(C)]
      /\ saved \in [Ports -> BOOLEAN] /\ cut \in [Ports -> BOOLEAN]
  BY DEF TypeOK, Chars
<1>1. PICK s : s = rx[p] /\ s \in Seq(C) /\ s # <<>>
  BY <1>0
<1>2. PICK n, rest, head :
         /\ n = IF Len(s) > MaxCount + 1 THEN MaxCount + 1 ELSE Len(s)
         /\ rest = SubSeq(s, n + 1, Len(s))
         /\ head = IF saved[p] THEN "error" ELSE Head(s)
         /\ told' = [told EXCEPT ![p] = @ \o <<head>> \o SubSeq(s, 2, n)]
         /\ rx' = [rx EXCEPT ![p] = IF rest = <<>> THEN rest ELSE <<"ok">> \o Tail(rest)]
         /\ saved' = [saved EXCEPT ![p] = FALSE]
         /\ cut' = [cut EXCEPT ![p] = @ \/ rest # <<>>]
  BY <1>1 DEF receive_chars
<1>3. /\ \A q \in Ports \ {p} : /\ rx'[q] = rx[q] /\ saved'[q] = saved[q]
                                /\ told'[q] = told[q] /\ cut'[q] = cut[q]
      /\ cut[p] => cut'[p]
      /\ ~ cut'[p] => rest = <<>>
      /\ ~ saved'[p]
  BY <1>0, <1>2
<1>4. ASSUME rest = <<>>
      PROVE  told'[p] \o Coming(saved'[p], rx'[p]) = told[p] \o Coming(saved[p], rx[p])
  <2>1. Len(s) \in Nat /\ (Len(s) > MaxCount + 1 => n = MaxCount + 1) /\ MaxCount \in Nat
    BY <1>1, <1>2, LimitAssumption
  <2>2. n = Len(s)
    <3>1. CASE Len(s) > MaxCount + 1
      <4>1. n \in Int /\ n + 1 \in Int /\ n + 1 <= Len(s) /\ n \in Nat
        BY <2>1, <3>1
      <4>2. \A i \in n + 1 .. Len(s) : s[i] \in C
        BY <1>1, <2>1, <4>1
      <4>a. PICK m \in Int : m = n + 1
        BY <4>1
      <4>b. \A i \in m .. Len(s) : s[i] \in C
        BY <4>2, <4>a
      <4>c. Len(SubSeq(s, m, Len(s))) = IF m <= Len(s) THEN Len(s) - m + 1 ELSE 0
        BY <2>1, <4>b, SubSeqProperties
      <4>3. Len(rest) >= 1
        BY <1>2, <2>1, <4>1, <4>a, <4>c
      <4>4. Len(rest) = 0
        BY <1>4
      <4> QED
        BY <2>1, <4>1, <4>3, <4>4
    <3>2. CASE ~ (Len(s) > MaxCount + 1)
      BY <1>2, <3>2
    <3> QED BY <3>1, <3>2
  <2>3. PICK t \in Seq(C) : t = told[p]
    BY <1>0
  <2>4. PICK flag \in BOOLEAN : flag = saved[p]
    BY <1>0
  <2>5. PICK u : u = (t \o <<head>>) \o SubSeq(s, 2, Len(s))
    OBVIOUS
  <2>6. told' = [told EXCEPT ![p] = u]
    BY <1>2, <2>2, <2>3, <2>5
  <2>7. told'[p] = u
    BY <1>0, <2>6
  <2>8. head = IF flag THEN "error" ELSE Head(s)
    BY <1>2, <2>4
  <2>9. u = t \o Coming(flag, s)
    <3>1. (t \o <<head>>) \o SubSeq(s, 2, Len(s)) = t \o Coming(flag, s)
      BY <1>1, <2>8, AllTold, Zenon
    <3> QED BY <2>5, <3>1
  <2>10. rx'[p] = <<>> /\ ~ saved'[p]
    BY <1>0, <1>2, <1>4
  <2>11. Coming(saved'[p], rx'[p]) = <<>>
    BY <2>10 DEF Coming
  <2>12. u \in Seq(C)
    <3>1. head \in C
      BY <1>1, <2>8, HeadTailProperties
    <3>2. SubSeq(s, 2, Len(s)) \in Seq(C)
      BY <1>1, HeadTailProperties, TailIsSubSeq
    <3> QED
      BY <2>3, <2>5, <3>1, <3>2
  <2>13. u \o <<>> = u
    BY <2>12, ConcatEmptySeq
  <2> QED
    BY <1>1, <2>3, <2>4, <2>7, <2>9, <2>11, <2>13
<1> QED
  BY <1>3, <1>4

LEMMA NextReports ==
    ASSUME TypeOK, Reports, Next
    PROVE  Reports'
<1> USE DEF chip, port, timers, links, history, Step, Forget
<1>0. /\ pc \in [Ports -> {"closed", "test", "lookup", "link", "request", "init", "txen",
                           "clear", "termios", "open", "lower", "timer", "unlink", "unlinking"}]
      /\ rx \in [Ports -> Chars] /\ heard \in [Ports -> Chars] /\ told \in [Ports -> Chars]
      /\ saved \in [Ports -> BOOLEAN] /\ cut \in [Ports -> BOOLEAN]
      /\ Console \in Ports /\ irq.l \in Ports
  BY PortsAssumption DEF TypeOK
<1> DEFINE On(p) == pc[p] \in {"termios", "open"}
           Kept(q) == /\ rx'[q] = rx[q] /\ saved'[q] = saved[q] /\ told'[q] = told[q]
                      /\ heard'[q] = heard[q] /\ cut'[q] = cut[q]
           Off(q) == pc'[q] \notin {"termios", "open"}
\* A step that leaves the characters alone.
<1>1. ASSUME \A q \in Ports : Off(q) \/ (On(q) /\ Kept(q))
      PROVE  Reports'
  BY <1>1 DEF Reports, Reported
\* A reader of the LSR.
<1>2. ASSUME NEW p \in Ports, SaveFlags(p), UNCHANGED <<told, heard, cut, pc>>
      PROVE  Reports'
  <2>1. /\ \A q \in Ports \ {p} : rx'[q] = rx[q] /\ saved'[q] = saved[q]
        /\ (saved[p] => rx[p] # <<>>) =>
              /\ saved'[p] => rx'[p] # <<>>
              /\ Coming(saved'[p], rx'[p]) = Coming(saved[p], rx[p])
    BY <1>2, SaveReports
  <2>2. ASSUME NEW q \in Ports PROVE Reported(q)'
    <3>1. Reported(q)
      BY DEF Reports
    <3>2. CASE q = p
      BY <1>2, <2>1, <3>1, <3>2 DEF Reported
    <3>3. CASE q # p
      BY <1>2, <2>1, <3>1, <3>3 DEF Reported
    <3> QED BY <3>2, <3>3
  <2> QED
    BY <2>2 DEF Reports
\* serial8250_handle_port.
<1>3. ASSUME NEW p \in Ports, NEW thre, HandleFirst(p) \/ HandleRest(p, thre),
             UNCHANGED <<pc, heard>>
      PROVE  Reports'
  <2>1. CASE HandleFirst(p) /\ rx[p] # <<>>
    <3>1. receive_chars(p)
      BY <2>1 DEF HandleFirst
    <3>2. /\ \A q \in Ports \ {p} : /\ rx'[q] = rx[q] /\ saved'[q] = saved[q]
                                    /\ told'[q] = told[q] /\ cut'[q] = cut[q]
          /\ cut[p] => cut'[p]
          /\ ~ cut'[p] => /\ ~ saved'[p]
                          /\ told'[p] \o Coming(saved'[p], rx'[p]) = told[p] \o Coming(saved[p], rx[p])
      BY <2>1, <3>1, ReceiveReports
    <3>3. ASSUME NEW q \in Ports PROVE Reported(q)'
      <4>1. Reported(q)
        BY DEF Reports
      <4>2. CASE q = p
        BY <1>3, <3>2, <4>1, <4>2 DEF Reported
      <4>3. CASE q # p
        BY <1>3, <3>2, <4>1, <4>3 DEF Reported
      <4> QED BY <4>2, <4>3
    <3> QED
      BY <3>3 DEF Reports
  <2>2. CASE UNCHANGED <<told, rx, saved, cut>>
    BY <1>1, <1>3, <2>2
  <2> QED
    BY <1>3, <2>1, <2>2 DEF HandleFirst, HandleRest
<1>4. ASSUME NEW p \in Ports, NEW c \in {"ok", "error"}, CharArrives(p, c) PROVE Reports'
  <2>1. PICK s : s = rx[p] /\ s \in Seq({"ok", "error"})
    BY <1>0 DEF Chars
  <2>2. PICK t : t = told[p] /\ t \in Seq({"ok", "error"})
    BY <1>0 DEF Chars
  <2>3. PICK flag \in BOOLEAN : flag = saved[p]
    BY <1>0
  <2>4. PICK h : h = heard[p]
    OBVIOUS
  <2>5. /\ rx' = [rx EXCEPT ![p] = Append(s, c)] /\ heard' = [heard EXCEPT ![p] = Append(h, c)]
        /\ UNCHANGED <<pc, saved, told, cut>>
    BY <1>4, <2>1, <2>4 DEF CharArrives
  <2>6. rx'[p] = Append(s, c) /\ heard'[p] = Append(h, c)
        /\ \A q \in Ports \ {p} : rx'[q] = rx[q] /\ heard'[q] = heard[q]
    BY <1>0, <2>5
  <2>7. Append(s, c) # <<>>
    BY <2>1, AppendProperties
  <2>8. (flag => s # <<>>) => t \o Coming(flag, Append(s, c)) = Append(t \o Coming(flag, s), c)
    BY <2>1, <2>2, ArrivesComing
  <2>9. ASSUME NEW q \in Ports PROVE Reported(q)'
    <3>1. Reported(q)
      BY DEF Reports
    <3>2. CASE q = p
      BY <2>1, <2>2, <2>3, <2>4, <2>5, <2>6, <2>7, <2>8, <3>1, <3>2 DEF Reported
    <3>3. CASE q # p
      BY <2>5, <2>6, <3>1, <3>3 DEF Reported
    <3> QED BY <3>2, <3>3
  <2> QED
    BY <2>9 DEF Reports
<1>5. ASSUME NEW p \in Ports, Startup(p) PROVE Reports'
  <2>1. CASE EnableInterrupts(p)
    <3>1. /\ rx'[p] = <<>> /\ heard'[p] = <<>> /\ told'[p] = <<>> /\ saved'[p] = FALSE
          /\ \A q \in Ports \ {p} : Kept(q) /\ pc'[q] = pc[q]
      BY <1>0, <2>1 DEF EnableInterrupts
    <3>2. told'[p] \o Coming(saved'[p], rx'[p]) = heard'[p]
      BY <3>1 DEF Coming
    <3>3. ASSUME NEW q \in Ports PROVE Reported(q)'
      <4>1. Reported(q)
        BY DEF Reports
      <4>2. CASE q = p
        BY <3>1, <3>2, <4>2 DEF Reported
      <4>3. CASE q # p
        BY <3>1, <4>1, <4>3 DEF Reported
      <4> QED BY <4>2, <4>3
    <3> QED
      BY <3>3 DEF Reports
  <2>2. CASE \/ StartupBegins(p) \/ SafetyCheckEngaged(p) \/ LinkLookup(p)
             \/ LinkNoMemory(p) \/ LinkAdd(p) \/ RequestIrq(p) \/ RequestFails(p)
             \/ TestTxenBegins(p)
    <3>1. /\ \A q \in Ports \ {p} : Kept(q) /\ pc'[q] = pc[q]
          /\ Off(p)
      BY <1>0, <2>2 DEF StartupBegins, SafetyCheckEngaged, LinkLookup, LinkNoMemory,
         LinkAdd, RequestIrq, RequestFails, TestTxenBegins
    <3> QED
      BY <1>1, <3>1
  <2>3. CASE TestThre(p) \/ TestTxenEnds(p)
    <3>1. /\ \A q \in Ports \ {p} : pc'[q] = pc[q]
          /\ Off(p) /\ UNCHANGED <<told, heard, cut>>
      BY <1>0, <2>3 DEF TestThre, TestTxenEnds
    <3>2. \A q \in Ports \ {p} : rx'[q] = rx[q] /\ saved'[q] = saved[q]
      BY <1>0, <2>3 DEF TestThre, TestTxenEnds, SaveFlags, LsrRead
    <3> QED
      BY <1>1, <3>1, <3>2
  <2>4. CASE LinkFreed(p)
    BY <1>1, <2>4 DEF LinkFreed
  <2> QED
    BY <1>5, <2>1, <2>2, <2>3, <2>4 DEF Startup
<1>6. ASSUME NEW p \in Ports, Shutdown(p) \/ serial8250_set_termios(p) PROVE Reports'
  <2>1. /\ \A q \in Ports \ {p} : Kept(q) /\ pc'[q] = pc[q]
        /\ Off(p) \/ (On(p) /\ Kept(p))
    BY <1>0, <1>6 DEF Shutdown, ShutdownBegins, LowerOut2, DelTimerSync, UnlinkBegins, UnlinkEnds,
       serial8250_set_termios
  <2> QED
    BY <1>1, <2>1
<1>7. ASSUME NEW p \in Ports, BackupTimer(p) PROVE Reports'
  <2>1. CASE TimerHandles(p) \/ TimerPushed(p)
    <3>1. UNCHANGED <<pc, heard>>
      BY <2>1 DEF TimerHandles, TimerPushed, Handling
    <3>2. \E t : HandleFirst(p) \/ HandleRest(p, t)
      BY <2>1 DEF TimerHandles, TimerPushed
    <3> QED
      BY <1>3, <3>1, <3>2
  <2>2. CASE TimerDecides(p)
    BY <1>2, <2>2 DEF TimerDecides
  <2>3. CASE TimerFires(p) \/ TimerLooks(p) \/ TimerRestores(p)
    BY <1>1, <2>3 DEF TimerFires, TimerLooks, TimerRestores
  <2> QED
    BY <1>7, <2>1, <2>2, <2>3 DEF BackupTimer
<1>8. ASSUME NEW p \in Ports, NEW n \in 1 .. 2, serial8250_start_tx(p, n) PROVE Reports'
  <2>1. UNCHANGED <<told, heard, cut, pc>> /\ (SaveFlags(p) \/ UNCHANGED <<rx, saved>>)
    BY <1>8 DEF serial8250_start_tx
  <2> QED
    BY <1>1, <1>2, <2>1
<1>9. ASSUME NEW p \in Ports, TransmitterEmpties(p) \/ serial8250_tx_empty(p) PROVE Reports'
  <2>1. UNCHANGED <<told, heard, cut, pc>> /\ (SaveFlags(p) \/ UNCHANGED <<rx, saved>>)
    BY <1>9 DEF TransmitterEmpties, serial8250_tx_empty
  <2> QED
    BY <1>1, <1>2, <2>1
<1>10. CASE Enter \/ Scan
  BY <1>1, <1>10 DEF Enter, Scan
<1>11. CASE HandleInterrupt \/ AfterPush
  <2>1. UNCHANGED <<pc, heard>>
    BY <1>11 DEF HandleInterrupt, AfterPush, Handling
  <2>2. \E t : HandleFirst(irq.l) \/ HandleRest(irq.l, t)
    BY <1>11 DEF HandleInterrupt, AfterPush
  <2> QED
    BY <1>0, <1>3, <2>1, <2>2
<1>12. CASE ConsoleWrite
  <2>1. UNCHANGED <<told, heard, cut, pc>> /\ (SaveFlags(Console) \/ UNCHANGED <<rx, saved>>)
    BY <1>12 DEF ConsoleWrite, ConsoleBegins, wait_for_xmitr, serial8250_console_putchar,
       ConsoleRestores
  <2> QED
    BY <1>0, <1>1, <1>2, <2>1
<1> QED
  BY <1>4, <1>5, <1>6, <1>7, <1>8, <1>9, <1>10, <1>11, <1>12, Zenon DEF Next

-----------------------------------------------------------------------------
(* The line.                                                                 *)

\* Who keeps the line up is linked.
LEMMA DriversLinked ==
    ASSUME Links, Silent, NEW q \in Ports, Drives(q)
    PROVE  q \in ToSet(chain) /\ pc[q] \in {"txen", "clear", "termios", "open", "lower"}
BY DEF Drives, Links, Silent, Chained

\* The place of a port, and of the one that comes next.
LEMMA Places ==
    ASSUME TypeOK, Links, NEW p \in ToSet(chain)
    PROVE  /\ Pos(p) \in 1 .. Len(chain) /\ chain[Pos(p)] = p
           /\ Pos(NextInChain(p)) = (Pos(p) % Len(chain)) + 1
<1>1. DOMAIN chain = 1 .. Len(chain) /\ Len(chain) \in Nat
  BY DEF TypeOK
<1>2. \E i \in DOMAIN chain : chain[i] = p
  BY DEF ToSet
<1>3. Pos(p) \in DOMAIN chain /\ chain[Pos(p)] = p
  BY <1>2 DEF Pos
<1>4. PICK i : i = Pos(p)
  OBVIOUS
<1>5. PICK j : j = (i % Len(chain)) + 1
  OBVIOUS
<1>6. j \in DOMAIN chain
  BY <1>1, <1>3, <1>4, <1>5
<1>7. NextInChain(p) = chain[j]
  BY <1>4, <1>5 DEF NextInChain, Pos
<1>8. Pos(chain[j]) \in DOMAIN chain /\ chain[Pos(chain[j])] = chain[j]
  BY <1>6 DEF Pos
<1>9. Pos(chain[j]) = j
  BY <1>6, <1>8 DEF Links, IsInjective
<1> QED
  BY <1>1, <1>3, <1>4, <1>5, <1>7, <1>9

\* One step round the chain leaves out the port it comes from.
LEMMA StepRound ==
    ASSUME NEW n \in Nat, NEW l \in 1 .. n, NEW end \in 1 .. n, NEW q \in 1 .. n,
           Between(l, end, q), q # l
    PROVE  (l % n) + 1 # end /\ Between((l % n) + 1, end, q)
<1>1. CASE l = n
  <2>1. (l % n) + 1 = 1
    BY <1>1
  <2> QED
    BY <1>1, <2>1 DEF Between
<1>2. CASE l # n
  <2>1. (l % n) + 1 = l + 1
    BY <1>2
  <2> QED
    BY <1>2, <2>1 DEF Between
<1> QED
  BY <1>1, <1>2

\* The handler has looked at l and goes on: a port that it had still to look
\* at, and that is not l, is one that it has still to look at.
LEMMA StillUnseen ==
    ASSUME TypeOK, Links, NEW l \in ToSet(chain), NEW end \in ToSet(chain),
           NEW q \in Unseen(l, end), q # l
    PROVE  NextInChain(l) # end /\ q \in Unseen(NextInChain(l), end)
<1>1. q \in ToSet(chain) /\ Between(Pos(l), Pos(end), Pos(q))
  BY DEF Unseen
<1>2. /\ Pos(l) \in 1 .. Len(chain) /\ chain[Pos(l)] = l
      /\ Pos(end) \in 1 .. Len(chain)
      /\ Pos(q) \in 1 .. Len(chain) /\ chain[Pos(q)] = q
      /\ Pos(NextInChain(l)) = (Pos(l) % Len(chain)) + 1
      /\ Len(chain) \in Nat
  BY <1>1, Places DEF TypeOK
<1>3. Pos(q) # Pos(l)
  BY <1>2
<1>4. /\ Pos(NextInChain(l)) # Pos(end)
      /\ Between(Pos(NextInChain(l)), Pos(end), Pos(q))
  BY <1>1, <1>2, <1>3, StepRound
<1> QED
  BY <1>1, <1>4 DEF Unseen

\* What everyone else does: the line is watched, and the chain stands still
\* while the handler is at work.
Watched ==
    /\ irq' = irq /\ Latch /\ toomuch' = toomuch /\ (overlap => overlap')
    /\ irq.pc # "idle" => chain' = chain

LEMMA LineWatched ==
    ASSUME Next
    PROVE  \/ Enter \/ Scan \/ HandleInterrupt \/ AfterPush
           \/ \E p \in Ports : RequestIrq(p) \/ UnlinkBegins(p) \/ LinkFreed(p)
           \/ Watched
<1> USE DEF Handling, links, history
<1>1. ASSUME NEW p \in Ports, NEW c \in {"ok", "error"}, CharArrives(p, c) PROVE Watched
  BY <1>1 DEF CharArrives, Watched
<1>2. ASSUME NEW p \in Ports, TransmitterEmpties(p) \/ BackupTimer(p) PROVE Watched
  BY <1>2 DEF TransmitterEmpties, BackupTimer, TimerFires, TimerLooks, TimerDecides,
     TimerHandles, TimerPushed, TimerRestores, Watched
<1>3. ASSUME NEW p \in Ports, Startup(p)
      PROVE  RequestIrq(p) \/ LinkFreed(p) \/ Watched
  <2>1. CASE \/ StartupBegins(p) \/ SafetyCheckEngaged(p) \/ TestThre(p) \/ LinkNoMemory(p)
             \/ TestTxenBegins(p) \/ TestTxenEnds(p) \/ EnableInterrupts(p)
    BY <2>1 DEF StartupBegins, SafetyCheckEngaged, TestThre, LinkNoMemory, TestTxenBegins,
       TestTxenEnds, EnableInterrupts, Watched
  <2>2. CASE LinkLookup(p)
    BY <2>2 DEF LinkLookup, Overlapping, Watched
  <2>3. CASE LinkAdd(p)
    BY <2>3 DEF LinkAdd, Watched
  <2>4. CASE RequestFails(p)
    BY <2>4 DEF RequestFails, Unlink, Watched
  <2> QED
    BY <1>3, <2>1, <2>2, <2>3, <2>4 DEF Startup
<1>4. ASSUME NEW p \in Ports, Shutdown(p) PROVE UnlinkBegins(p) \/ Watched
  <2>1. CASE ShutdownBegins(p) \/ LowerOut2(p) \/ DelTimerSync(p)
    BY <2>1 DEF ShutdownBegins, LowerOut2, DelTimerSync, Watched
  <2>2. CASE UnlinkEnds(p)
    BY <2>2 DEF UnlinkEnds, Unlink, Watched
  <2> QED
    BY <1>4, <2>1, <2>2 DEF Shutdown
<1>5. ASSUME NEW p \in Ports, NEW n \in 1 .. 2, serial8250_start_tx(p, n) PROVE Watched
  BY <1>5 DEF serial8250_start_tx, Watched
<1>6. ASSUME NEW p \in Ports, serial8250_tx_empty(p) \/ serial8250_set_termios(p)
      PROVE  Watched
  BY <1>6 DEF serial8250_tx_empty, serial8250_set_termios, Watched
<1>7. ASSUME ConsoleWrite PROVE Watched
  BY <1>7 DEF ConsoleWrite, ConsoleBegins, wait_for_xmitr, serial8250_console_putchar,
     ConsoleRestores, Watched
<1> QED
  BY <1>1, <1>2, <1>3, <1>4, <1>5, <1>6, <1>7, Zenon DEF Next

LEMMA NextRound ==
    ASSUME TypeOK, Links, Alone, Silent, Round, Next
    PROVE  Round'
<1>0. /\ edge \in BOOLEAN /\ overlap \in BOOLEAN /\ toomuch \in BOOLEAN /\ withdrawn \in BOOLEAN
      /\ irq \in [pc : {"idle", "scan", "handle", "push"}, l : Ports,
                  end : Ports \cup {"none"}, pass : Nat, thre : BOOLEAN]
      /\ "none" \notin Ports /\ ToSet(chain) \subseteq Ports
      /\ \A q \in Ports : /\ q \in ToSet(chain) <=> pc[q] \in Chained
                          /\ Drives(q) => /\ q \in ToSet(chain)
                                          /\ pc[q] \in {"txen", "clear", "termios", "open", "lower"}
  BY PortsAssumption, DriversLinked DEF TypeOK, Links, ToSet
<1>1. withdrawn' = (withdrawn \/ (irq.pc # "idle" /\ irq' = irq /\
                       \E p \in Ports : Drives(p) /\ ~ Drives(p)'))
  BY DEF Next
\* A step that leaves the handler where it is.
<1>2. CASE Watched
  <2> SUFFICES ASSUME LineHigh', ~ overlap', ~ toomuch', ~ withdrawn' PROVE Round'
    BY DEF Round
  <2>1. irq' = irq /\ ~ overlap /\ ~ toomuch /\ ~ withdrawn
    BY <1>0, <1>1, <1>2 DEF Watched
  <2>2. edge' = (edge \/ (~ LineHigh /\ LineHigh'))
    BY <1>2 DEF Watched, Latch
  <2>3. CASE edge'
    BY <2>3 DEF Round
  <2>4. CASE ~ edge'
    <3>1. LineHigh /\ ~ edge
      BY <2>2, <2>4
    <3>2. irq.pc # "idle"
      BY <2>1, <3>1 DEF Round
    <3>3. chain' = chain /\ \A q \in Ports : Drives(q) => Drives(q)'
      BY <1>1, <1>2, <2>1, <3>2 DEF Watched
    <3>4. ASSUME irq.pc = "scan", irq.end # "none"
          PROVE  \E q \in Unseen(irq.l, irq.end)' : Drives(q)'
      <4>1. PICK q \in Unseen(irq.l, irq.end) : Drives(q)
        BY <2>1, <3>1, <3>4 DEF Round
      <4>2. q \in Ports
        BY <1>0 DEF Unseen
      <4>3. q \in Unseen(irq.l, irq.end)'
        BY <2>1, <3>3 DEF Unseen, Pos
      <4> QED BY <3>3, <4>1, <4>2, <4>3
    <3> QED
      BY <2>1, <3>2, <3>4 DEF Round
  <2> QED BY <2>3, <2>4
\* Nobody has the line up.
<1>3. ASSUME \A q \in Ports : ~ Drives(q), UNCHANGED chip PROVE Round'
  <2>1. ~ LineHigh'
    BY <1>3 DEF LineHigh, Drives, Interrupting, chip
  <2> QED
    BY <2>1 DEF Round
\* Nothing that Round speaks of has changed, but for the history.
<1>4. ASSUME UNCHANGED <<chip, irq, edge, chain, toomuch>>, overlap => overlap' PROVE Round'
  <2>1. withdrawn => withdrawn'
    BY <1>1
  <2>2. /\ LineHigh' <=> LineHigh
        /\ Unseen(irq.l, irq.end)' = Unseen(irq.l, irq.end)
        /\ \A q \in Ports : Drives(q)' <=> Drives(q)
    BY <1>4 DEF LineHigh, Drives, Interrupting, chip, Unseen, Pos
  <2>3. Unseen(irq.l, irq.end) \subseteq Ports
    BY <1>0 DEF Unseen
  <2> QED
    BY <1>4, <2>1, <2>2, <2>3 DEF Round
<1>5. ASSUME NEW p \in Ports, LinkFreed(p) PROVE Round'
  BY <1>4, <1>5 DEF LinkFreed, links
<1>6. ASSUME NEW p \in Ports, RequestIrq(p) PROVE Round'
  <2>1. CASE overlap
    <3>1. overlap'
      BY <1>6, <2>1 DEF RequestIrq, history
    <3> QED BY <3>1 DEF Round
  <2>2. CASE ~ overlap
    <3>1. pc[p] = "request" /\ UNCHANGED chip
      BY <1>6 DEF RequestIrq, Step
    <3>2. ASSUME NEW q \in Ports, Drives(q) PROVE FALSE
      <4>1. pc[q] \in Chained /\ pc[q] # "request"
        BY <1>0, <3>2
      <4>2. p = q
        BY <2>2, <3>1, <4>1 DEF Alone
      <4> QED BY <3>1, <4>1, <4>2
    <3> QED BY <1>3, <3>1, <3>2
  <2> QED BY <2>1, <2>2
<1>7. ASSUME NEW p \in Ports, UnlinkBegins(p) PROVE Round'
  <2>1. /\ UNCHANGED <<chip, irq, chain, toomuch>> /\ pc[p] = "unlink"
        /\ edge' = (edge /\ Len(chain) # 1) /\ (overlap => overlap')
    BY <1>7 DEF UnlinkBegins, Step, Overlapping
  <2>2. CASE Len(chain) # 1
    <3>1. edge' = edge
      BY <1>0, <2>1, <2>2
    <3> QED
      BY <1>4, <2>1, <3>1
  <2>3. CASE Len(chain) = 1
    <3>1. ASSUME NEW q \in Ports, Drives(q) PROVE FALSE
      <4>1. q \in ToSet(chain) /\ p \in ToSet(chain) /\ q # p
        BY <1>0, <2>1, <3>1 DEF Chained
      <4>2. DOMAIN chain = {1}
        BY <2>3 DEF TypeOK
      <4> QED
        BY <4>1, <4>2 DEF ToSet
    <3> QED BY <1>3, <2>1, <3>1
  <2> QED BY <2>2, <2>3
<1>8. CASE Enter
  <2>1. irq'.pc = "scan" /\ irq'.end = "none"
    BY <1>8 DEF Enter, Quiet
  <2> QED
    BY <2>1 DEF Round
\* A port that is silent stays as it is, and one that is not is still ahead.
<1>9. CASE Scan
  <2>0. irq.pc = "scan" /\ irq.l \in ToSet(chain) /\ irq.end \in ToSet(chain) \cup {"none"}
    BY <1>9 DEF Scan, Links
  <2>1. CASE Interrupting(irq.l)
    <3>1. irq' = [irq EXCEPT !.pc = "handle"]
      BY <1>9, <2>1 DEF Scan
    <3>2. irq'.pc = "handle"
      BY <1>0, <3>1
    <3> QED
      BY <3>2 DEF Round
  <2>2. CASE ~ Interrupting(irq.l)
    <3> SUFFICES ASSUME LineHigh', ~ overlap', ~ toomuch', ~ withdrawn' PROVE Round'
      BY DEF Round
    <3>1. PICK e : e = IF irq.end = "none" THEN irq.l ELSE irq.end
      OBVIOUS
    <3>2. e \in ToSet(chain) /\ Advance(e)
      BY <1>9, <2>0, <2>2, <3>1 DEF Scan
    <3>3. UNCHANGED <<IER, out2, rx, busy, chain, overlap>> /\ Latch /\ txint' = IirRead(irq.l)
      BY <1>9 DEF Scan, links
    <3>4. txint' = txint
      BY <1>0, <2>2, <3>3 DEF IirRead, Interrupting, TypeOK
    <3>5. \A q \in Ports : Drives(q)' <=> Drives(q)
      BY <3>3, <3>4 DEF Drives, Interrupting
    <3>6. /\ irq'.pc \in {"idle", "scan"}
          /\ irq'.pc = "scan" => irq'.l = NextInChain(irq.l) /\ irq'.end = e
          /\ irq'.pc = "idle" => toomuch' \/ NextInChain(irq.l) = e
          /\ toomuch => toomuch'
      BY <2>0, <3>2, AdvanceType
    <3>7. ~ overlap /\ ~ toomuch /\ ~ withdrawn /\ LineHigh
      BY <1>1, <3>3, <3>5, <3>6 DEF LineHigh
    <3>8. CASE edge
      <4>1. edge'
        BY <3>3, <3>8 DEF Latch
      <4> QED BY <4>1 DEF Round
    <3>9. CASE ~ edge
      <4>1. PICK q \in Unseen(irq.l, e) : Drives(q) /\ q \in Ports
        <5>1. CASE irq.end = "none"
          <6>1. PICK q \in Ports : Drives(q)
            BY <3>7 DEF LineHigh
          <6>2. q \in ToSet(chain) /\ e = irq.l
            BY <1>0, <3>1, <5>1, <6>1
          <6>3. Pos(q) \in 1 .. Len(chain) /\ Pos(irq.l) \in 1 .. Len(chain)
            BY <2>0, <6>2, Places
          <6>4. Between(Pos(irq.l), Pos(e), Pos(q))
            BY <6>2, <6>3 DEF Between
          <6> QED
            BY <6>1, <6>2, <6>4 DEF Unseen
        <5>2. CASE irq.end # "none"
          <6>1. PICK q \in Unseen(irq.l, irq.end) : Drives(q)
            BY <2>0, <3>7, <3>9, <5>2 DEF Round
          <6>2. q \in Ports
            BY <1>0 DEF Unseen
          <6> QED
            BY <3>1, <5>2, <6>1, <6>2
        <5> QED BY <5>1, <5>2
      <4>2. q # irq.l
        BY <2>2, <4>1 DEF Drives
      <4>3. NextInChain(irq.l) # e /\ q \in Unseen(NextInChain(irq.l), e)
        BY <2>0, <3>2, <4>2, StillUnseen
      <4>4. irq'.pc = "scan" /\ irq'.l = NextInChain(irq.l) /\ irq'.end = e
        BY <3>6, <4>3
      <4>5. q \in Unseen(irq.l, irq.end)'
        BY <3>3, <4>3, <4>4 DEF Unseen, Pos
      <4>6. Drives(q)'
        BY <3>5, <4>1
      <4> QED
        BY <4>4, <4>5, <4>6 DEF Round
    <3> QED BY <3>8, <3>9
  <2> QED BY <2>1, <2>2
<1>10. CASE HandleInterrupt \/ AfterPush
  <2>0. irq.pc \in {"handle", "push"}
    BY <1>10 DEF HandleInterrupt, AfterPush
  <2>1. CASE irq' = [irq EXCEPT !.pc = "push", !.thre = ~ busy[irq.l]]
    <3>1. irq'.pc = "push"
      BY <1>0, <2>1
    <3> QED BY <3>1 DEF Round
  <2>2. CASE Advance(EndAfterService(irq.end))
    <3>1. irq.pc # "idle" /\ "none" \in ToSet(chain) \cup {"none"} /\ Advance("none")
      BY <2>0, <2>2 DEF EndAfterService
    <3>2. /\ irq'.pc \in {"idle", "scan"}
          /\ irq'.pc = "scan" => irq'.end = "none"
          /\ irq'.pc = "idle" => toomuch' \/ NextInChain(irq.l) = "none"
      BY <3>1, AdvanceType
    <3>3. NextInChain(irq.l) # "none"
      BY <1>0, <3>1, NextIsLinked DEF Links
    <3> QED
      BY <3>2, <3>3 DEF Round
  <2> QED
    BY <1>10, <2>1, <2>2 DEF HandleInterrupt, AfterPush
<1> QED
  BY <1>2, <1>5, <1>6, <1>7, <1>8, <1>9, <1>10, LineWatched

-----------------------------------------------------------------------------
(* The invariant holds.                                                      *)

LEMMA InitIInv ==
    ASSUME Init
    PROVE  IInv
<1>1. TypeOK
  <2>1. Quiet \in [pc : {"idle", "scan", "handle", "push"}, l : Ports, end : Ports \cup {"none"},
                   pass : Nat, thre : BOOLEAN]
    BY PortsAssumption DEF Quiet
  <2>2. NoPrint \in [pc : {"idle", "put", "restore"}, ier : SUBSET {RX, TX}]
    BY DEF NoPrint
  <2>3. machine \in Machines /\ opens \in 0 .. machine.opens /\ left \in 0 .. machine.events
    BY PortsAssumption DEF Init
  <2>4. [p \in Ports |-> <<>>] \in [Ports -> Chars] /\ <<>> \in Seq(Ports)
    BY DEF Chars
  <2>5. [p \in Ports |-> [ier |-> {}, thre |-> FALSE]]
            \in [Ports -> [ier : SUBSET {RX, TX}, thre : BOOLEAN]]
    OBVIOUS
  <2> QED
    BY <2>1, <2>2, <2>3, <2>4, <2>5 DEF Init, TypeOK
<1>2. Locks
  BY DEF Init, Locks, NoPrint
<1>3. Links
  <2>1. chain = <<>> /\ irq.pc = "idle" /\ \A p \in Ports : pc[p] = "closed"
    BY DEF Init, Quiet
  <2>2. ToSet(chain) = {} /\ DOMAIN chain = {}
    BY <2>1 DEF ToSet
  <2>3. IsInjective(chain)
    BY <2>2 DEF IsInjective
  <2> QED
    BY <2>1, <2>2, <2>3 DEF Links, Chained
<1>4. Alone /\ Silent /\ Enables
  BY DEF Init, Alone, Silent, Enables, Chained, Linking, Early
<1>5. Pushes
  BY DEF Init, Pushes, Quiet
<1>6. Reports
  BY DEF Init, Reports, Reported
<1>7. Round
  BY DEF Init, Round, LineHigh, Drives
<1> QED
  BY <1>1, <1>2, <1>3, <1>4, <1>5, <1>6, <1>7 DEF IInv

LEMMA NextIInv ==
    ASSUME IInv, [Next]_vars
    PROVE  IInv'
<1>1. CASE Next
  BY <1>1, NextType, NextLocks, NextLinks, NextAlone, NextSilent, NextEnables, NextPushes,
     NextReports, NextRound DEF IInv
<1>2. CASE UNCHANGED vars
  <2>1. TypeOK'
    BY <1>2 DEF IInv, TypeOK, vars, chip, port, timers, links, history
  <2>2. Locks' /\ Links' /\ Alone' /\ Silent'
    BY <1>2 DEF IInv, Locks, Links, Alone, Silent, vars, chip, port, timers, links, history
  <2>3. Enables' /\ Pushes' /\ Reports'
    BY <1>2 DEF IInv, Enables, Pushes, Free, Reports, Reported, vars, chip, port, timers, links,
       history
  <2>4. Round'
    BY <1>2 DEF IInv, Round, LineHigh, Drives, Interrupting, Unseen, Pos, vars, chip, port,
       links, history
  <2> QED
    BY <2>1, <2>2, <2>3, <2>4 DEF IInv
<1> QED
  BY <1>1, <1>2

\* The invariant of the driver, for any number of ports.
THEOREM Invariant == Spec => []IInv
<1>1. Init => IInv
  BY InitIInv
<1>2. IInv /\ [Next]_vars => IInv'
  BY NextIInv
<1> QED
  BY <1>1, <1>2, PTL DEF Spec

-----------------------------------------------------------------------------
(* What follows from it.                                                     *)

\* serial_link_irq_chain, serial8250_startup and serial8250_shutdown: a port
\* that is open is in the chain once, with a handler there; a port that is
\* closed neither drives the line nor is in the chain.
THEOREM TakesPart == Spec => []OpenTakesPart
<1>1. ASSUME IInv PROVE OpenTakesPart
  <2>1. ASSUME NEW p \in Ports, pc[p] \in {"txen", "clear", "termios", "open"}, ~ overlap
        PROVE  Cardinality({i \in DOMAIN chain : chain[i] = p}) = 1 /\ registered
    <3>1. p \in ToSet(chain) /\ IsInjective(chain)
      BY <1>1, <2>1 DEF IInv, Links, Chained
    <3>2. PICK i \in DOMAIN chain : chain[i] = p
      BY <3>1 DEF ToSet
    <3>3. {j \in DOMAIN chain : chain[j] = p} = {i}
      BY <3>1, <3>2 DEF IsInjective
    <3>4. Cardinality({i}) = 1
      BY FS_Singleton
    <3>5. registered
      BY <1>1, <2>1 DEF IInv, Alone, Chained, Linking, TypeOK
    <3> QED
      BY <3>3, <3>4, <3>5
  <2>2. OpenIsLinked
    <3>1. chain # <<>> => info # 0
      BY <1>1 DEF IInv, Links
    <3> QED
      BY <2>1, <3>1 DEF OpenIsLinked
  <2>3. ClosedIsQuiet
    BY <1>1 DEF IInv, Links, Silent, ClosedIsQuiet, Chained
  <2> QED
    BY <1>1, <2>2, <2>3 DEF IInv, OpenTakesPart
<1> QED
  BY <1>1, Invariant, PTL

\* serial8250_console_write restores the IER that it found, set_termios writes
\* what the driver believes, and a startup that the console interrupts ends
\* as any other: an open port interrupts for what it should.
THEOREM EnabledAsBelieved == Spec => []InterruptsAsEnabled
<1>1. ASSUME IInv PROVE InterruptsAsEnabled
  BY <1>1 DEF IInv, Enables, InterruptsAsEnabled, Free
<1> QED
  BY <1>1, Invariant, PTL

\* transmit_chars never writes to a full transmitter, whatever happens while
\* the lock is dropped around tty_flip_buffer_push.
THEOREM TransmitterNotOverrun == Spec => []NoTransmitOverrun
<1>1. ASSUME IInv PROVE NoTransmitOverrun
  BY <1>1 DEF IInv, Pushes, NoTransmitOverrun
<1> QED
  BY <1>1, Invariant, PTL

\* lsr_saved_flags: an error that tx_empty, the console, the backup timer or
\* start_tx takes out of the LSR reaches the tty with its character.
THEOREM NoErrorLost == Spec => []ErrorsReported
<1>1. ASSUME IInv PROVE ErrorsReported
  <2>1. ASSUME NEW p \in Ports, pc[p] = "open", ~ cut[p]
        PROVE  /\ told[p] \o (IF saved[p] /\ rx[p] # <<>> THEN <<"error">> \o Tail(rx[p])
                                                        ELSE rx[p]) = heard[p]
               /\ saved[p] => rx[p] # <<>>
    <3>1. Reported(p)
      BY <1>1 DEF IInv, Reports
    <3>2. /\ saved[p] => rx[p] # <<>>
          /\ told[p] \o (IF saved[p] THEN <<"error">> \o Tail(rx[p]) ELSE rx[p]) = heard[p]
      BY <2>1, <3>1 DEF Reported, Coming
    <3> QED
      BY <3>2
  <2> QED
    BY <2>1 DEF ErrorsReported
<1> QED
  BY <1>1, Invariant, PTL

\* serial8250_interrupt goes round the chain until every port has been silent
\* in one round, so an edge-triggered line that is up when it returns, or goes
\* up afterwards, has an edge to show for it: no port waits for ever.
THEOREM LineIsNotStuck == Spec => []LineNotStuck
<1>1. ASSUME IInv PROVE LineNotStuck
  BY <1>1 DEF IInv, Round, LineNotStuck
<1> QED
  BY <1>1, Invariant, PTL
=============================================================================
