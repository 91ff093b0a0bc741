-------------------------- MODULE ZoneTuning_proofs --------------------------
(* The tables and pagesets of ZoneTuning are right, for any number of       *)
(* nodes, zones, processors and writers.                                    *)
EXTENDS ZoneTuning, TLAPS

-----------------------------------------------------------------------------
(* for_each_zone goes through all zones, and comes to each once.            *)

LEMMA Division ==
    ASSUME NEW a \in Nat, NEW m \in Nat \ {0}
    PROVE  /\ a \div m \in Nat /\ a % m \in 0 .. m - 1
           /\ a = m * (a \div m) + (a % m)
OBVIOUS

\* There is one way only to write a number as a multiple and a rest.
LEMMA Quotient ==
    ASSUME NEW m \in Nat \ {0}, NEW q \in Nat, NEW r \in 0 .. m - 1
    PROVE  (m * q + r) \div m = q /\ (m * q + r) % m = r
<1> DEFINE a == m * q + r
           p == a \div m
           s == a % m
<1>1. a \in Nat
  OBVIOUS
<1>2. p \in Nat /\ s \in 0 .. m - 1 /\ a = m * p + s
  BY <1>1, Division
<1> HIDE DEF p, s
<1>3. m * p + s = m * q + r
  BY <1>2
<1>4. CASE p < q
  <2>1. PICK d \in Nat : q = p + 1 + d
    <3>1. q - p - 1 \in Nat /\ q = p + 1 + (q - p - 1)
      BY <1>2, <1>4
    <3> QED BY <3>1
  <2>2. m * q = m * p + m + m * d /\ m * d >= 0 /\ m * p \in Nat
    BY <2>1, <1>2
  <2> QED BY <2>2, <1>2, <1>3
<1>5. CASE q < p
  <2>1. PICK d \in Nat : p = q + 1 + d
    <3>1. p - q - 1 \in Nat /\ p = q + 1 + (p - q - 1)
      BY <1>2, <1>5
    <3> QED BY <3>1
  <2>2. m * p = m * q + m + m * d /\ m * d >= 0 /\ m * q \in Nat
    BY <2>1, <1>2
  <2> QED BY <2>2, <1>2, <1>3
<1>6. CASE p = q
  BY <1>2, <1>3, <1>6 DEF p, s
<1> QED BY <1>2, <1>4, <1>5, <1>6

LEMMA ZoneSeqShape ==
    /\ Len(ZoneSeq) = NNodes * MAX_NR_ZONES /\ Len(ZoneSeq) \in Nat
    /\ DOMAIN ZoneSeq = 1 .. Len(ZoneSeq)
    /\ \A i \in 1 .. Len(ZoneSeq) :
          /\ ZoneSeq[i] = <<(i - 1) \div MAX_NR_ZONES, (i - 1) % MAX_NR_ZONES>>
          /\ ZoneSeq[i] \in Zones
<1>1. NNodes * MAX_NR_ZONES \in Nat
  BY MachineAssumption
<1>2. Len(ZoneSeq) = NNodes * MAX_NR_ZONES
  BY <1>1 DEF ZoneSeq
<1>3. ASSUME NEW i \in 1 .. NNodes * MAX_NR_ZONES
      PROVE  <<(i - 1) \div MAX_NR_ZONES, (i - 1) % MAX_NR_ZONES>> \in Zones
  <2> DEFINE q == (i - 1) \div MAX_NR_ZONES
  <2>1. i - 1 \in Nat
    BY <1>1
  <2>2. q \in Nat /\ (i - 1) % MAX_NR_ZONES \in 0 .. MAX_NR_ZONES - 1
        /\ i - 1 = MAX_NR_ZONES * q + ((i - 1) % MAX_NR_ZONES)
    BY <2>1, Division, MachineAssumption
  <2>3. q < NNodes
    <3> SUFFICES ASSUME q >= NNodes PROVE FALSE
      BY <2>2, MachineAssumption
    <3> HIDE DEF q
    <3>1. PICK d \in Nat : q = NNodes + d
      <4>1. q - NNodes \in Nat /\ q = NNodes + (q - NNodes)
        BY <2>2, MachineAssumption
      <4> QED BY <4>1
    <3>2. MAX_NR_ZONES * q = NNodes * MAX_NR_ZONES + MAX_NR_ZONES * d /\ MAX_NR_ZONES * d >= 0
      BY <3>1, MachineAssumption
    <3>3. i - 1 >= MAX_NR_ZONES * q
      <4> DEFINE mq == MAX_NR_ZONES * q
                 r  == (i - 1) % MAX_NR_ZONES
      <4>1. mq \in Int /\ r \in Nat /\ i - 1 = mq + r
        BY <2>2, MachineAssumption
      <4> HIDE DEF mq, r
      <4>2. i - 1 >= mq
        BY <4>1
      <4> QED BY <4>2 DEF mq
    <3>4. MAX_NR_ZONES * q >= NNodes * MAX_NR_ZONES
      <4> DEFINE e == MAX_NR_ZONES * d
                 p == NNodes * MAX_NR_ZONES
      <4>1. e \in Int /\ p \in Int /\ e >= 0 /\ MAX_NR_ZONES * q = p + e
        BY <3>2, <3>1, MachineAssumption
      <4> HIDE DEF e, p
      <4>2. MAX_NR_ZONES * q >= p
        BY <4>1
      <4> QED BY <4>2 DEF p
    <3> DEFINE mq == MAX_NR_ZONES * q
               p  == NNodes * MAX_NR_ZONES
    <3>5. mq \in Int /\ p \in Int /\ i \in Int /\ i <= p /\ i - 1 >= mq /\ mq >= p
      BY <3>3, <3>4, <2>2, <1>1, MachineAssumption
    <3> HIDE DEF mq, p
    <3> QED BY <3>5
  <2> HIDE DEF q
  <2>4. q \in Nodes
    BY <2>2, <2>3, MachineAssumption DEF Nodes
  <2>5. (i - 1) % MAX_NR_ZONES \in ZoneTypes
    BY <2>2 DEF ZoneTypes
  <2> QED BY <2>4, <2>5 DEF Zones, q
<1> QED BY <1>1, <1>2, <1>3 DEF ZoneSeq

LEMMA ZoneSeqOnce ==
    ASSUME NEW i \in 1 .. Len(ZoneSeq), NEW k \in 1 .. Len(ZoneSeq), ZoneSeq[i] = ZoneSeq[k]
    PROVE  i = k
<1>1. /\ (i - 1) \div MAX_NR_ZONES = (k - 1) \div MAX_NR_ZONES
      /\ (i - 1) % MAX_NR_ZONES = (k - 1) % MAX_NR_ZONES
  BY ZoneSeqShape
<1>2. i - 1 \in Nat /\ k - 1 \in Nat
  BY ZoneSeqShape
<1>3. i - 1 = MAX_NR_ZONES * ((i - 1) \div MAX_NR_ZONES) + ((i - 1) % MAX_NR_ZONES)
  BY <1>2, Division, MachineAssumption
<1>4. k - 1 = MAX_NR_ZONES * ((k - 1) \div MAX_NR_ZONES) + ((k - 1) % MAX_NR_ZONES)
  BY <1>2, Division, MachineAssumption
<1>5. i - 1 = k - 1
  BY <1>1, <1>3, <1>4
<1> QED BY <1>5, ZoneSeqShape

LEMMA ZoneSeqAll ==
    ASSUME NEW z \in Zones
    PROVE  \E i \in 1 .. Len(ZoneSeq) : ZoneSeq[i] = z
<1>1. PICK n \in Nodes, k \in ZoneTypes : z = <<n, k>>
  BY DEF Zones
<1>2. n \in Nat /\ k \in 0 .. MAX_NR_ZONES - 1 /\ n <= NNodes - 1
  BY MachineAssumption DEF Nodes, ZoneTypes
<1> DEFINE i == MAX_NR_ZONES * n + k + 1
<1>3. i \in Nat /\ i >= 1 /\ i - 1 = MAX_NR_ZONES * n + k
  BY <1>2, MachineAssumption
<1>4. i <= NNodes * MAX_NR_ZONES
  <2>1. PICK d \in Nat : NNodes = n + 1 + d
    <3>1. NNodes - n - 1 \in Nat /\ NNodes = n + 1 + (NNodes - n - 1)
      BY <1>2, MachineAssumption
    <3> QED BY <3>1
  <2>2. NNodes * MAX_NR_ZONES = MAX_NR_ZONES * n + MAX_NR_ZONES + MAX_NR_ZONES * d
        /\ MAX_NR_ZONES * d >= 0 /\ MAX_NR_ZONES * n \in Nat
    BY <2>1, <1>2, MachineAssumption
  <2> QED BY <2>2, <1>2, MachineAssumption
<1>5. (i - 1) \div MAX_NR_ZONES = n /\ (i - 1) % MAX_NR_ZONES = k
  BY <1>2, <1>3, Quotient, MachineAssumption
<1>6. i \in 1 .. Len(ZoneSeq)
  BY <1>3, <1>4, ZoneSeqShape
<1> HIDE DEF i
<1>7. ZoneSeq[i] = z
  BY <1>1, <1>5, <1>6, ZoneSeqShape
<1> QED BY <1>6, <1>7

-----------------------------------------------------------------------------
(* The invariant.                                                           *)

\* The shape of a thread's record; what its fields hold is said where it is
\* needed.
Places == {"pc", "old", "saved", "i", "min", "low", "total", "zone"}
IsTask(r) == r = [f \in Places |-> r[f]]

Kinds ==
    /\ present \in [Zones -> Nat]
    /\ watermark = [z \in Zones |-> watermark[z]]
    /\ ratio \in [Ratio -> Nat]
    /\ reserve = [z \in Zones |-> [j \in ZoneTypes |-> reserve[z][j]]]
    /\ fraction \in Nat
    /\ pset \in [Zones -> [CPUs -> {"own", "boot", "null"}]]
    /\ pcp \in [Zones -> [CPUs -> Pcp]] /\ boot_pageset \in [CPUs -> Pcp]
    /\ slab \in [Zones -> [CPUs -> Int]] /\ online \subseteq CPUs
    /\ hot \in [on : BOOLEAN, cpu : CPUs, at : 1 .. Len(ZoneSeq) + 1]
    /\ task = [t \in Threads |-> task[t]] /\ \A t \in Threads : IsTask(task[t])
    /\ clash \in BOOLEAN /\ raced \in BOOLEAN

\* While nothing has clashed, one thread at most is inside a call.
OneAtATime ==
    ~ clash => \A t, u \in Threads : ~ At(t, "idle") /\ ~ At(u, "idle") => t = u

\* Where a thread's loop is: in the zones, and a fraction is there to divide by.
Walks ==
    \A t \in Threads :
        /\ task[t].pc \in {"mark", "reserve"} => task[t].i \in 1 .. Len(ZoneSeq)
        /\ task[t].pc \in {"high", "batch"} => fraction > 0
        /\ At(t, "pcp") => t = Hot /\ task[t].zone \in Zones
        /\ At(t, "batch") =>
              /\ t \in Writers /\ task[t].min \in Nat
              /\ PairSeq[task[t].i][1] \in Populated /\ PairSeq[task[t].i][2] \in CPUs

\* An entry of lowmem_reserve is right, or somebody will come to it.
EntryRight(z, j) ==
    \/ j < z[2]
    \/ reserve[z][j] = Kept(ratio, z[1], z[2], j)
    \/ \E t \in Threads : At(t, "reserve") /\ \E k \in task[t].i .. Len(ZoneSeq) : ZoneSeq[k] = <<z[1], j>>
Reserves ==
    present = [z \in Zones |-> Boot[z[1]][z[2]]] =>
        \A z \in Zones, j \in ZoneTypes : EntryRight(z, j)

\* The watermark of a zone is right, or somebody will come to it; and so for
\* the total.
MarkRight(z) ==
    \/ watermark[z] = Marks(z, min_free, PagesOf(Lowmem))
    \/ \E t \in Threads :
          \/ task[t].pc \in {"pcp", "marks"}
          \/ At(t, "mark") /\ \E k \in task[t].i .. Len(ZoneSeq) : ZoneSeq[k] = z
TotalRight ==
    \/ totalreserve = TotalReserve
    \/ \E t \in Threads : task[t].pc \in {"pcp", "marks", "mark", "reserve", "sum", "store"}

\* What a thread has read is still so.
Caught(t) ==
    /\ At(t, "mark") => task[t].min = min_free /\ task[t].low = PagesOf(Lowmem)
    /\ At(t, "store") => task[t].total = TotalReserve
MarksInv ==
    ~ clash => /\ \A z \in Zones : MarkRight(z)
               /\ TotalRight
               /\ \A t \in Threads : Caught(t)

\* Who has a pageset of his own: zones with memory, for processors that are up,
\* and for the one that comes up, those that process_zones has come to.
OwnPlace ==
    /\ \A z \in Zones, c \in CPUs : pset[z][c] = "own" =>
          /\ z \in Populated
          /\ c \in online \/ (hot.on /\ hot.cpu = c)
    /\ hot.on => hot.cpu \notin online
    /\ hot.on => \A z \in Zones : pset[z][hot.cpu] = "own" => \E i \in 1 .. hot.at - 1 : z = ZoneSeq[i]
OwnAll ==
    hot.on /\ ~ raced =>
        \A i \in 1 .. hot.at - 1 : ZoneSeq[i] \in Populated => pset[ZoneSeq[i]][hot.cpu] = "own"

Fits(p) == p.batch >= 1 /\ (p.batch <= p.high \/ p.batch = 1)

\* t is between the two assignments of setup_pagelist_highmark.
Half(t, z, c) ==
    At(t, "batch") /\ PairSeq[task[t].i][1] = z /\ PairSeq[task[t].i][2] = c

\* Zones that process_zones has still to come to; processors that work with a
\* zone; and those that do so without a pageset of their own.
Ahead(z) == \E i \in hot.at .. Len(ZoneSeq) : z = ZoneSeq[i]
Up(z, c) == c \in online \/ (hot.on /\ hot.cpu = c /\ ~ Ahead(z))
Lacks(z, c) ==
    /\ z \in Populated /\ Up(z, c) /\ pset[z][c] # "own"
    /\ ~ (At(Hot, "pcp") /\ z = task[Hot].zone)

OwnFits(z, c) ==
    pset[z][c] = "own" => Fits(pcp[z][c]) \/ \E t \in Threads : Half(t, z, c)
BootFits(c) ==
    (\E z \in Zones : Lacks(z, c)) =>
        \/ Fits(boot_pageset[c])
        \/ \E t \in Threads, y \in Zones : Half(t, y, c) /\ c \in online /\ pset[y][c] # "own"
HalfRight(t, z, c) ==
    Half(t, z, c) =>
        /\ task[t].min = present[z] \div fraction
        /\ pset[z][c] = "own" => pcp[z][c].high = task[t].min
        /\ pset[z][c] # "own" /\ c \in online => boot_pageset[c].high = task[t].min
        /\ c \notin online => \A y \in Zones : ~ Lacks(y, c)
FitInv ==
    ~ clash => \A c \in CPUs :
        /\ BootFits(c)
        /\ \A z \in Zones : OwnFits(z, c) /\ \A t \in Threads : HalfRight(t, z, c)

IInv ==
    /\ Kinds /\ OneAtATime /\ Walks
    /\ Reserves /\ MarksInv
    /\ OwnPlace /\ OwnAll /\ PagesetsOwned /\ FitInv

-----------------------------------------------------------------------------
(* Steps of one thread, and what they leave alone.                          *)

\* All threads but t stay where they are.
Others(t) ==
    /\ task' = [u \in Threads |-> task'[u]] /\ \A u \in Threads : IsTask(task[u])'
    /\ \A u \in Threads \ {t} : task'[u] = task[u]

\* A call begins, and it is noticed if it is not alone; or it goes on.
Begins(t) == At(t, "idle") /\ clash' = (clash \/ \E u \in Threads : ~ At(u, "idle"))
GoesOn(t) == ~ At(t, "idle") /\ clash' = clash

LEMMA OneStep ==
    ASSUME OneAtATime, NEW t \in Threads, Others(t), Begins(t) \/ GoesOn(t)
    PROVE  OneAtATime'
BY DEF OneAtATime, Others, Begins, GoesOn, At

LEMMA WalksStep ==
    ASSUME Walks, NEW t \in Threads, Others(t), UNCHANGED <<present, fraction>>,
           task'[t].pc \in {"mark", "reserve"} => task'[t].i \in 1 .. Len(ZoneSeq),
           task'[t].pc \in {"high", "batch"} => fraction > 0,
           task'[t].pc # "pcp",
           task'[t].pc = "batch" =>
              /\ t \in Writers /\ task'[t].min \in Nat
              /\ PairSeq[task'[t].i][1] \in Populated /\ PairSeq[task'[t].i][2] \in CPUs
    PROVE  Walks'
<1>1. Populated' = Populated
  BY DEF Populated
<1> QED BY <1>1 DEF Walks, Others, At

LEMMA ReservesStep ==
    ASSUME Reserves, NEW t \in Threads, Others(t), UNCHANGED <<present, ratio, reserve>>,
           ~ At(t, "reserve")
    PROVE  Reserves'
<1>1. ASSUME NEW z \in Zones, NEW j \in ZoneTypes, EntryRight(z, j) PROVE EntryRight(z, j)'
  <2>1. Kept(ratio, z[1], z[2], j)' = Kept(ratio, z[1], z[2], j)
    BY DEF Kept, PagesOf
  <2> QED BY <1>1, <2>1 DEF EntryRight, Others, At
<1> QED BY <1>1 DEF Reserves

LEMMA MarksStep ==
    ASSUME MarksInv, NEW t \in Threads, Others(t), clash' \in BOOLEAN, clash => clash',
           UNCHANGED <<present, min_free, watermark, reserve, totalreserve>>,
           task[t].pc \notin {"pcp", "marks", "mark", "reserve", "sum", "store"},
           task'[t].pc \notin {"mark", "store"}
    PROVE  MarksInv'
<1>1. PagesOf(Lowmem)' = PagesOf(Lowmem) /\ TotalReserve' = TotalReserve
  BY DEF PagesOf, TotalReserve
<1>2. \A z \in Zones : Marks(z, min_free, PagesOf(Lowmem))' = Marks(z, min_free, PagesOf(Lowmem))
  BY <1>1 DEF Marks
<1>3. SUFFICES ASSUME ~ clash' PROVE (\A z \in Zones : MarkRight(z)') /\ TotalRight' /\ \A u \in Threads : Caught(u)'
  BY DEF MarksInv
<1>4. ~ clash
  BY <1>3
<1>5. ASSUME NEW z \in Zones PROVE MarkRight(z)'
  BY <1>1, <1>2, <1>4 DEF MarksInv, MarkRight, Others, At
<1>6. TotalRight'
  BY <1>1, <1>4 DEF MarksInv, TotalRight, Others, At
<1>7. ASSUME NEW u \in Threads PROVE Caught(u)'
  BY <1>1, <1>4 DEF MarksInv, Caught, Others, At
<1> QED BY <1>5, <1>6, <1>7

LEMMA OwnStep ==
    ASSUME OwnPlace, OwnAll, PagesetsOwned, UNCHANGED <<present, pset, slab, online, hot, raced>>
    PROVE  (OwnPlace /\ OwnAll /\ PagesetsOwned)'
<1>1. Populated' = Populated
  BY DEF Populated
<1> QED BY <1>1 DEF OwnPlace, OwnAll, PagesetsOwned

\* A thread that is not between the two assignments, nor about to look at the
\* pagesets of the zone that has got memory.
LEMMA HalfStep ==
    ASSUME NEW t \in Threads, Others(t), Hot \in Threads,
           task[t].pc \notin {"batch", "pcp"}, task'[t].pc \notin {"batch", "pcp"},
           UNCHANGED <<present, pset, online, hot>>
    PROVE  /\ \A u \in Threads : \A z, c : Half(u, z, c)' <=> Half(u, z, c)
           /\ \A u \in Threads : \A z, c : Half(u, z, c) => task'[u] = task[u]
           /\ \A z, c : Lacks(z, c)' <=> Lacks(z, c)
<1>1. Populated' = Populated
  BY DEF Populated
<1>2. \A z : Ahead(z)' <=> Ahead(z)
  BY DEF Ahead
<1>3. \A z, c : Up(z, c)' <=> Up(z, c)
  BY <1>2 DEF Up
<1>4. \A z : (At(Hot, "pcp") /\ z = task[Hot].zone)' <=> (At(Hot, "pcp") /\ z = task[Hot].zone)
  BY DEF Others, At
<1> QED BY <1>1, <1>3, <1>4 DEF Half, Lacks, Others, At

LEMMA FitStep ==
    ASSUME FitInv, NEW t \in Threads, Others(t), Hot \in Threads, clash' \in BOOLEAN, clash => clash',
           task[t].pc \notin {"batch", "pcp"}, task'[t].pc \notin {"batch", "pcp"},
           UNCHANGED <<present, sets>>
    PROVE  FitInv'
<1>1. UNCHANGED <<fraction, pset, pcp, boot_pageset, online, hot>>
  BY DEF sets
<1>2. /\ \A u \in Threads : \A z, c : Half(u, z, c)' <=> Half(u, z, c)
      /\ \A u \in Threads : \A z, c : Half(u, z, c) => task'[u] = task[u]
      /\ \A z, c : Lacks(z, c)' <=> Lacks(z, c)
  BY <1>1, HalfStep
<1>3. SUFFICES ASSUME ~ clash', NEW c \in CPUs
               PROVE  /\ BootFits(c)'
                      /\ \A z \in Zones : OwnFits(z, c)' /\ \A u \in Threads : HalfRight(u, z, c)'
  BY DEF FitInv
<1>4. ~ clash
  BY <1>3
<1>5. BootFits(c)'
  BY <1>1, <1>2, <1>4 DEF FitInv, BootFits
<1>6. ASSUME NEW z \in Zones PROVE OwnFits(z, c)'
  BY <1>1, <1>2, <1>4 DEF FitInv, OwnFits
<1>7. ASSUME NEW z \in Zones, NEW u \in Threads PROVE HalfRight(u, z, c)'
  BY <1>1, <1>2, <1>4 DEF FitInv, HalfRight
<1> QED BY <1>5, <1>6, <1>7

\* Steps that touch neither tables nor pagesets.
Plain == {"idle", "readold", "parse", "compare", "setorder", "build", "done"}

LEMMA PlainStep ==
    ASSUME IInv, NEW t \in Threads, Others(t), Begins(t) \/ GoesOn(t),
           task[t].pc \in Plain, task'[t].pc \in Plain,
           UNCHANGED <<present, marks, sets, raced>>
    PROVE  IInv'
<1>1. /\ UNCHANGED <<min_free, watermark, ratio, reserve, totalreserve>>
      /\ UNCHANGED <<fraction, pset, pcp, boot_pageset, slab, online, hot>>
  BY DEF marks, sets
<1>2. clash' \in BOOLEAN /\ (clash => clash')
  BY DEF Begins, GoesOn, IInv, Kinds
<1>3. Kinds'
  BY <1>1, <1>2 DEF IInv, Kinds, Others
<1>4. OneAtATime'
  BY OneStep DEF IInv
<1>5. Walks'
  BY <1>1, WalksStep DEF IInv, Plain
<1>6. Reserves'
  BY <1>1, ReservesStep DEF IInv, Plain, At
<1>7. MarksInv'
  BY <1>1, <1>2, MarksStep DEF IInv, Plain
<1>8. (OwnPlace /\ OwnAll /\ PagesetsOwned)'
  BY <1>1, OwnStep DEF IInv
<1>9. FitInv'
  BY <1>2, FitStep DEF IInv, Plain, Threads
<1> QED BY <1>3, <1>4, <1>5, <1>6, <1>7, <1>8, <1>9 DEF IInv

LEMMA TaskGoto ==
    ASSUME Kinds, NEW t \in Threads, NEW step, Goto(t, step)
    PROVE  /\ Others(t)
           /\ task'[t].pc = step
           /\ \A f \in Places \ {"pc"} : task'[t][f] = task[t][f]
<1>1. task = [u \in Threads |-> task[u]] /\ \A u \in Threads : IsTask(task[u])
  BY DEF Kinds
<1>2. /\ task'[t] = [task[t] EXCEPT !.pc = step] /\ task' = [u \in Threads |-> task'[u]]
      /\ \A u \in Threads \ {t} : task'[u] = task[u]
  BY <1>1 DEF Goto
<1>3. /\ IsTask(task'[t]) /\ task'[t].pc = step
      /\ \A f \in Places \ {"pc"} : task'[t][f] = task[t][f]
  BY <1>1, <1>2 DEF IsTask, Places
<1> QED BY <1>1, <1>2, <1>3 DEF Others, IsTask

LEMMA TaskDone ==
    ASSUME Kinds, NEW t \in Threads, Done(t)
    PROVE  Others(t) /\ task'[t].pc = "idle"
<1>1. task'[t] = Idle /\ task' = [u \in Threads |-> task'[u]] /\ \A u \in Threads \ {t} : task'[u] = task[u]
  BY DEF Done, Kinds
<1>2. IsTask(Idle) /\ Idle.pc = "idle"
  BY DEF Idle, IsTask, Places
<1> QED BY <1>1, <1>2 DEF Kinds, Others, IsTask

\* A record of the right shape in place of another.
LEMMA TaskSet ==
    ASSUME Kinds, NEW t \in Threads, NEW r, IsTask(r),
           task'[t] = r, task' = [u \in Threads |-> task'[u]],
           \A u \in Threads \ {t} : task'[u] = task[u]
    PROVE  Others(t)
BY DEF Kinds, Others, IsTask

LEMMA WriteOrderStep ==
    ASSUME IInv, NEW w \in Writers, NEW v, WriteOrder(w, v) PROVE IInv'
<1>1. w \in Threads /\ Kinds
  BY DEF IInv, Threads
<1> DEFINE r == [task[w] EXCEPT !.pc = "readold", !.saved = table]
<1>2. task'[w] = r /\ task' = [u \in Threads |-> task'[u]] /\ \A u \in Threads \ {w} : task'[u] = task[u]
  BY <1>1 DEF WriteOrder, Kinds
<1>3. IsTask(r) /\ r.pc = "readold"
  BY <1>1 DEF Kinds, IsTask, Places
<1>4. Others(w) /\ task'[w].pc = "readold"
  BY <1>1, <1>2, <1>3, TaskSet
<1>5. Begins(w)
  BY DEF WriteOrder, Write, Begins
<1> QED BY <1>1, <1>4, <1>5, PlainStep DEF WriteOrder, Write, Plain, At

LEMMA ReadOldStep ==
    ASSUME IInv, NEW w \in Writers, ReadOld(w) PROVE IInv'
<1>1. w \in Threads /\ Kinds
  BY DEF IInv, Threads
<1> DEFINE r == [task[w] EXCEPT !.pc = "parse", !.old = user_order]
<1>2. task'[w] = r /\ task' = [u \in Threads |-> task'[u]] /\ \A u \in Threads \ {w} : task'[u] = task[u]
  BY <1>1 DEF ReadOld, Kinds
<1>3. IsTask(r) /\ r.pc = "parse"
  BY <1>1 DEF Kinds, IsTask, Places
<1>4. Others(w) /\ task'[w].pc = "parse"
  BY <1>1, <1>2, <1>3, TaskSet
<1> QED BY <1>1, <1>4, PlainStep DEF ReadOld, Idling, GoesOn, Plain, At, tables

LEMMA ParseStep ==
    ASSUME IInv, NEW w \in Writers, __parse_numa_zonelist_order(w) PROVE IInv'
<1>1. w \in Threads /\ Kinds
  BY DEF IInv, Threads
<1>2. Others(w) /\ task'[w].pc \in {"compare", "idle"}
  BY <1>1, TaskGoto, TaskDone DEF __parse_numa_zonelist_order
<1> QED BY <1>1, <1>2, PlainStep DEF __parse_numa_zonelist_order, Idling, GoesOn, Plain, At

LEMMA CompareStep ==
    ASSUME IInv, NEW w \in Writers, Compare(w) PROVE IInv'
<1>1. w \in Threads /\ Kinds
  BY DEF IInv, Threads
<1>2. Others(w) /\ task'[w].pc \in {"setorder", "idle"}
  BY <1>1, TaskGoto, TaskDone DEF Compare
<1> QED BY <1>1, <1>2, PlainStep DEF Compare, Idling, GoesOn, Plain, At, tables

LEMMA FractionDoneStep ==
    ASSUME IInv, NEW w \in Writers, FractionDone(w) PROVE IInv'
<1>1. w \in Threads /\ Kinds
  BY DEF IInv, Threads
<1>2. Others(w) /\ task'[w].pc = "idle"
  BY <1>1, TaskDone DEF FractionDone
<1> QED BY <1>1, <1>2, PlainStep DEF FractionDone, Idling, GoesOn, Plain, At, tables

LEMMA SetOrderStep ==
    ASSUME IInv, NEW t \in Threads, set_zonelist_order(t) PROVE IInv'
<1>1. Others(t) /\ task'[t].pc = "build"
  BY TaskGoto DEF IInv, set_zonelist_order
<1> QED BY <1>1, PlainStep DEF set_zonelist_order, Idling, GoesOn, Plain, At

LEMMA BuildStep ==
    ASSUME IInv, NEW t \in Threads, __build_all_zonelists(t) PROVE IInv'
<1>1. Others(t) /\ task'[t].pc = "idle"
  BY TaskDone DEF IInv, __build_all_zonelists
<1> QED BY <1>1, PlainStep DEF __build_all_zonelists, Idling, GoesOn, Plain, At

-----------------------------------------------------------------------------
(* The watermarks.                                                          *)

\* A step that leaves the sizes and the pagesets alone.
LEMMA TableStep ==
    ASSUME IInv, NEW t \in Threads, Others(t), Begins(t) \/ GoesOn(t),
           task[t].pc \notin {"batch", "pcp"}, task'[t].pc \notin {"batch", "pcp"},
           UNCHANGED <<present, sets, raced>>
    PROVE  /\ UNCHANGED <<fraction, pset, pcp, boot_pageset, slab, online, hot>>
           /\ clash' \in BOOLEAN /\ (clash => clash')
           /\ OneAtATime' /\ (OwnPlace /\ OwnAll /\ PagesetsOwned)' /\ FitInv'
<1>1. UNCHANGED <<fraction, pset, pcp, boot_pageset, slab, online, hot>>
  BY DEF sets
<1>2. clash' \in BOOLEAN /\ (clash => clash')
  BY DEF Begins, GoesOn, IInv, Kinds
<1>3. OneAtATime'
  BY OneStep DEF IInv
<1>4. (OwnPlace /\ OwnAll /\ PagesetsOwned)'
  BY <1>1, OwnStep DEF IInv
<1>5. FitInv'
  BY <1>2, FitStep DEF IInv, Threads
<1> QED BY <1>1, <1>2, <1>3, <1>4, <1>5

LEMMA SomeZone == 1 \in 1 .. Len(ZoneSeq)
<1>1. <<0, 0>> \in Zones
  <2>1. 0 \in Nodes
    BY MachineAssumption DEF Nodes
  <2>2. 0 \in ZoneTypes
    BY MachineAssumption DEF ZoneTypes
  <2> QED BY <2>1, <2>2 DEF Zones
<1>2. PICK k \in 1 .. Len(ZoneSeq) : ZoneSeq[k] = <<0, 0>>
  BY <1>1, ZoneSeqAll
<1> QED BY <1>2, ZoneSeqShape

\* A call that begins without a clash finds all threads idle.
LEMMA BeginsAlone ==
    ASSUME NEW t \in Threads, Begins(t), Others(t), ~ clash'
    PROVE  ~ clash /\ (\A u \in Threads : At(u, "idle")) /\ \A u \in Threads \ {t} : task'[u].pc = "idle"
BY DEF Begins, Others, At

LEMMA GoesOnAlone ==
    ASSUME IInv, NEW t \in Threads, GoesOn(t), Others(t), ~ clash'
    PROVE  ~ clash /\ \A u \in Threads \ {t} : At(u, "idle") /\ task'[u].pc = "idle"
BY DEF GoesOn, Others, At, IInv, OneAtATime

LEMMA WriteMinFreeStep ==
    ASSUME IInv, NEW w \in Writers, NEW v, WriteMinFree(w, v) PROVE IInv'
<1>1. w \in Threads /\ Kinds
  BY DEF IInv, Threads
<1>2. Others(w) /\ task'[w].pc = "marks"
  BY <1>1, TaskGoto DEF WriteMinFree
<1>3. Begins(w) /\ task[w].pc = "idle"
  BY DEF WriteMinFree, Write, Begins, At
<1>4. UNCHANGED <<present, sets, raced, watermark, ratio, reserve, totalreserve>>
  BY DEF WriteMinFree, Write, tables
<1>5. /\ UNCHANGED <<fraction, pset, pcp, boot_pageset, slab, online, hot>>
      /\ clash' \in BOOLEAN /\ (clash => clash')
      /\ OneAtATime' /\ (OwnPlace /\ OwnAll /\ PagesetsOwned)' /\ FitInv'
  BY <1>1, <1>2, <1>3, <1>4, TableStep
<1>6. Kinds'
  BY <1>1, <1>2, <1>4, <1>5 DEF Kinds, Others
<1>7. Walks'
  BY <1>1, <1>2, <1>4, <1>5, WalksStep DEF IInv
<1>8. Reserves'
  BY <1>1, <1>2, <1>3, <1>4, ReservesStep DEF IInv, At
<1>9. MarksInv'
  <2>1. SUFFICES ASSUME ~ clash' PROVE (\A z \in Zones : MarkRight(z)') /\ TotalRight' /\ \A u \in Threads : Caught(u)'
    BY DEF MarksInv
  <2>2. \A u \in Threads \ {w} : task'[u].pc = "idle"
    BY <1>1, <1>2, <1>3, <2>1, BeginsAlone
  <2> QED BY <1>1, <1>2, <2>2 DEF MarkRight, TotalRight, Caught, At
<1> QED BY <1>5, <1>6, <1>7, <1>8, <1>9 DEF IInv

LEMMA BeginMarksStep ==
    ASSUME IInv, NEW t \in Threads, BeginMarks(t) PROVE IInv'
<1>1. Kinds
  BY DEF IInv
<1> DEFINE r == [task[t] EXCEPT !.pc = "mark", !.i = 1, !.min = min_free, !.low = PagesOf(Lowmem)]
<1>2. task'[t] = r /\ task' = [u \in Threads |-> task'[u]] /\ \A u \in Threads \ {t} : task'[u] = task[u]
  BY <1>1 DEF BeginMarks, Kinds
<1>3. IsTask(r) /\ r.pc = "mark" /\ r.i = 1 /\ r.min = min_free /\ r.low = PagesOf(Lowmem)
  <2>1. PICK s, m, l : s = task[t] /\ m = min_free /\ l = PagesOf(Lowmem)
    OBVIOUS
  <2>2. IsTask(s)
    BY <1>1, <2>1 DEF Kinds
  <2>3. r = [s EXCEPT !.pc = "mark", !.i = 1, !.min = m, !.low = l]
    BY <2>1
  <2> HIDE DEF r
  <2>4. IsTask(r)
    BY <2>2, <2>3 DEF IsTask, Places
  <2>5. r.pc = "mark" /\ r.i = 1 /\ r.min = m /\ r.low = l
    BY <2>2, <2>3 DEF IsTask, Places
  <2> QED BY <2>1, <2>4, <2>5
<1> HIDE DEF r
<1>4. Others(t)
  BY <1>1, <1>2, <1>3, TaskSet
<1>5. GoesOn(t) /\ task[t].pc = "marks"
  BY DEF BeginMarks, Idling, GoesOn, At
<1>6. UNCHANGED <<present, sets, raced, min_free, watermark, ratio, reserve, totalreserve>>
  BY DEF BeginMarks, Idling, tables, marks
<1>7. /\ UNCHANGED <<fraction, pset, pcp, boot_pageset, slab, online, hot>>
      /\ clash' \in BOOLEAN /\ (clash => clash')
      /\ OneAtATime' /\ (OwnPlace /\ OwnAll /\ PagesetsOwned)' /\ FitInv'
  BY <1>2, <1>3, <1>4, <1>5, <1>6, TableStep
<1>8. Kinds'
  BY <1>1, <1>4, <1>6, <1>7 DEF Kinds, Others
<1>9. Walks'
  BY <1>2, <1>3, <1>4, <1>6, <1>7, WalksStep, SomeZone DEF IInv
<1>10. Reserves'
  BY <1>4, <1>5, <1>6, ReservesStep DEF IInv, At
<1>11. MarksInv'
  <2>1. SUFFICES ASSUME ~ clash' PROVE (\A z \in Zones : MarkRight(z)') /\ TotalRight' /\ \A u \in Threads : Caught(u)'
    BY DEF MarksInv
  <2>2. \A u \in Threads \ {t} : task'[u].pc = "idle"
    BY <1>4, <1>5, <2>1, GoesOnAlone
  <2>3. \A z \in Zones : MarkRight(z)'
    <3>1. SUFFICES ASSUME NEW z \in Zones PROVE MarkRight(z)'
      OBVIOUS
    <3>2. \E k \in task'[t].i .. Len(ZoneSeq) : ZoneSeq[k] = z
      BY <1>2, <1>3, ZoneSeqAll
    <3>3. task'[t].pc = "mark"
      BY <1>2, <1>3
    <3> QED BY <3>2, <3>3 DEF MarkRight, At
  <2>4. PagesOf(Lowmem)' = PagesOf(Lowmem)
    BY <1>6 DEF PagesOf
  <2> QED BY <1>2, <1>3, <1>6, <2>2, <2>3, <2>4 DEF TotalRight, Caught, At
<1> QED BY <1>7, <1>8, <1>9, <1>10, <1>11 DEF IInv

LEMMA WmarksStep ==
    ASSUME IInv, NEW t \in Threads, setup_per_zone_wmarks(t) PROVE IInv'
<1> DEFINE i == task[t].i
           p == IF i = Len(ZoneSeq) THEN "sum" ELSE task[t].pc
           r == [task[t] EXCEPT !.i = i + 1, !.pc = p]
<1>1. Kinds /\ At(t, "mark") /\ i \in 1 .. Len(ZoneSeq)
  BY DEF IInv, setup_per_zone_wmarks, Walks, At
<1>2. task'[t] = r /\ task' = [u \in Threads |-> task'[u]] /\ \A u \in Threads \ {t} : task'[u] = task[u]
  BY <1>1 DEF setup_per_zone_wmarks, Kinds
<1>3. IsTask(r) /\ r.pc = (IF i = Len(ZoneSeq) THEN "sum" ELSE "mark") /\ r.i = i + 1
      /\ r.min = task[t].min /\ r.low = task[t].low
  <2>1. IsTask(task[t]) /\ task[t].pc = "mark"
    BY <1>1 DEF Kinds, At
  <2>2. IsTask(r) /\ r.pc = p /\ r.i = i + 1 /\ r.min = task[t].min /\ r.low = task[t].low
    <3>1. PICK s, j, q : s = task[t] /\ j = i + 1 /\ q = p
      OBVIOUS
    <3>2. IsTask(s) /\ r = [s EXCEPT !.i = j, !.pc = q]
      BY <2>1, <3>1
    <3> HIDE DEF r, p, i
    <3>3. IsTask(r)
      BY <3>2 DEF IsTask, Places
    <3>4. r.pc = q /\ r.i = j /\ r.min = s.min /\ r.low = s.low
      BY <3>2 DEF IsTask, Places
    <3> QED BY <3>1, <3>3, <3>4
  <2> QED BY <2>1, <2>2
<1> HIDE DEF r
<1>4. Others(t)
  BY <1>1, <1>2, <1>3, TaskSet
<1>5. GoesOn(t)
  BY <1>1 DEF setup_per_zone_wmarks, Idling, GoesOn, At
<1>6. /\ UNCHANGED <<present, sets, raced, min_free, ratio, reserve, totalreserve>>
      /\ watermark' = [watermark EXCEPT ![ZoneSeq[i]] = Marks(ZoneSeq[i], task[t].min, task[t].low)]
  BY DEF setup_per_zone_wmarks, Idling, tables
<1>7. /\ UNCHANGED <<fraction, pset, pcp, boot_pageset, slab, online, hot>>
      /\ clash' \in BOOLEAN /\ (clash => clash')
      /\ OneAtATime' /\ (OwnPlace /\ OwnAll /\ PagesetsOwned)' /\ FitInv'
  BY <1>1, <1>2, <1>3, <1>4, <1>5, <1>6, TableStep DEF At
<1>8. Kinds'
  <2>1. watermark' = [z \in Zones |-> watermark'[z]]
    BY <1>1, <1>6 DEF Kinds
  <2> QED BY <2>1, <1>1, <1>4, <1>6, <1>7 DEF Kinds, Others
<1>9. Walks'
  <2>1. task'[t].pc = "mark" => task'[t].i \in 1 .. Len(ZoneSeq)
    BY <1>1, <1>2, <1>3, ZoneSeqShape
  <2> QED BY <2>1, <1>2, <1>3, <1>4, <1>6, <1>7, WalksStep DEF IInv
<1>10. Reserves'
  BY <1>1, <1>4, <1>6, ReservesStep DEF IInv, At
<1>11. MarksInv'
  <2>1. SUFFICES ASSUME ~ clash' PROVE (\A z \in Zones : MarkRight(z)') /\ TotalRight' /\ \A u \in Threads : Caught(u)'
    BY DEF MarksInv
  <2>2. ~ clash /\ \A u \in Threads \ {t} : At(u, "idle") /\ task'[u].pc = "idle"
    BY <1>4, <1>5, <2>1, GoesOnAlone
  <2>3. PagesOf(Lowmem)' = PagesOf(Lowmem)
    BY <1>6 DEF PagesOf
  <2>4. task[t].min = min_free /\ task[t].low = PagesOf(Lowmem)
    BY <1>1, <2>2 DEF IInv, MarksInv, Caught
  <2>5. ASSUME NEW z \in Zones PROVE MarkRight(z)'
    <3>1. Marks(z, min_free, PagesOf(Lowmem))' = Marks(z, min_free, PagesOf(Lowmem))
      BY <1>6, <2>3 DEF Marks
    <3>2. CASE z = ZoneSeq[i]
      BY <1>1, <1>6, <2>4, <3>1, <3>2 DEF MarkRight, Kinds
    <3>3. CASE z # ZoneSeq[i]
      <4>1. watermark'[z] = watermark[z]
        BY <1>1, <1>6, <3>3 DEF Kinds
      <4>2. MarkRight(z)
        BY <2>2 DEF IInv, MarksInv
      <4>3. CASE watermark[z] = Marks(z, min_free, PagesOf(Lowmem))
        BY <4>1, <4>3, <3>1 DEF MarkRight
      <4>4. CASE \E k \in i .. Len(ZoneSeq) : ZoneSeq[k] = z
        <5>1. PICK k \in i .. Len(ZoneSeq) : ZoneSeq[k] = z
          BY <4>4
        <5>2. k \in i + 1 .. Len(ZoneSeq) /\ i # Len(ZoneSeq)
          BY <5>1, <3>3, <1>1, ZoneSeqShape
        <5> QED BY <5>1, <5>2, <1>2, <1>3 DEF MarkRight, At
      <4> QED BY <4>2, <4>3, <4>4, <2>2, <1>1 DEF MarkRight, At
    <3> QED BY <3>2, <3>3
  <2>6. TotalRight'
    BY <1>2, <1>3 DEF TotalRight
  <2>7. \A u \in Threads : Caught(u)'
    BY <1>2, <1>3, <1>6, <2>2, <2>3, <2>4 DEF Caught, At
  <2> QED BY <2>5, <2>6, <2>7
<1> QED BY <1>7, <1>8, <1>9, <1>10, <1>11 DEF IInv

LEMMA SumReserveStep ==
    ASSUME IInv, NEW t \in Threads, SumReserve(t) PROVE IInv'
<1> DEFINE r == [task[t] EXCEPT !.pc = "store", !.total = TotalReserve]
<1>1. Kinds /\ At(t, "sum")
  BY DEF IInv, SumReserve
<1>2. task'[t] = r /\ task' = [u \in Threads |-> task'[u]] /\ \A u \in Threads \ {t} : task'[u] = task[u]
  BY <1>1 DEF SumReserve, Kinds
<1>3. IsTask(r) /\ r.pc = "store" /\ r.total = TotalReserve
  BY <1>1 DEF Kinds, IsTask, Places
<1> HIDE DEF r
<1>4. Others(t)
  BY <1>1, <1>2, <1>3, TaskSet
<1>5. GoesOn(t)
  BY <1>1 DEF SumReserve, Idling, GoesOn, At
<1>6. UNCHANGED <<present, sets, raced, min_free, watermark, ratio, reserve, totalreserve>>
  BY DEF SumReserve, Idling, tables, marks
<1>7. /\ UNCHANGED <<fraction, pset, pcp, boot_pageset, slab, online, hot>>
      /\ clash' \in BOOLEAN /\ (clash => clash')
      /\ OneAtATime' /\ (OwnPlace /\ OwnAll /\ PagesetsOwned)' /\ FitInv'
  BY <1>1, <1>2, <1>3, <1>4, <1>5, <1>6, TableStep DEF At
<1>8. Kinds'
  BY <1>1, <1>4, <1>6, <1>7 DEF Kinds, Others
<1>9. Walks'
  BY <1>2, <1>3, <1>4, <1>6, <1>7, WalksStep DEF IInv
<1>10. Reserves'
  BY <1>1, <1>4, <1>6, ReservesStep DEF IInv, At
<1>11. MarksInv'
  <2>1. SUFFICES ASSUME ~ clash' PROVE (\A z \in Zones : MarkRight(z)') /\ TotalRight' /\ \A u \in Threads : Caught(u)'
    BY DEF MarksInv
  <2>2. ~ clash /\ \A u \in Threads \ {t} : At(u, "idle") /\ task'[u].pc = "idle"
    BY <1>4, <1>5, <2>1, GoesOnAlone
  <2>3. PagesOf(Lowmem)' = PagesOf(Lowmem) /\ TotalReserve' = TotalReserve
    BY <1>6 DEF PagesOf, TotalReserve
  <2>4. ASSUME NEW z \in Zones PROVE MarkRight(z)'
    <3>1. Marks(z, min_free, PagesOf(Lowmem))' = Marks(z, min_free, PagesOf(Lowmem))
      BY <1>6, <2>3 DEF Marks
    <3>2. watermark[z] = Marks(z, min_free, PagesOf(Lowmem))
      BY <1>1, <2>2 DEF IInv, MarksInv, MarkRight, At
    <3> QED BY <3>1, <3>2, <1>6 DEF MarkRight
  <2> QED BY <1>2, <1>3, <2>2, <2>3, <2>4 DEF TotalRight, Caught, At
<1> QED BY <1>7, <1>8, <1>9, <1>10, <1>11 DEF IInv

LEMMA TotalStep ==
    ASSUME IInv, NEW t \in Threads, calculate_totalreserve_pages(t) PROVE IInv'
<1>1. Kinds /\ At(t, "store")
  BY DEF IInv, calculate_totalreserve_pages
<1>2. Others(t) /\ task'[t].pc \in {"setorder", "idle"}
  BY <1>1, TaskGoto, TaskDone DEF calculate_totalreserve_pages
<1>3. GoesOn(t)
  BY <1>1 DEF calculate_totalreserve_pages, Idling, GoesOn, At
<1>4. UNCHANGED <<present, sets, raced, min_free, watermark, ratio, reserve>> /\ totalreserve' = task[t].total
  BY DEF calculate_totalreserve_pages, Idling, tables
<1>5. /\ UNCHANGED <<fraction, pset, pcp, boot_pageset, slab, online, hot>>
      /\ clash' \in BOOLEAN /\ (clash => clash')
      /\ OneAtATime' /\ (OwnPlace /\ OwnAll /\ PagesetsOwned)' /\ FitInv'
  BY <1>1, <1>2, <1>3, <1>4, TableStep DEF At
<1>6. Kinds'
  BY <1>1, <1>2, <1>4, <1>5 DEF Kinds, Others
<1>7. Walks'
  BY <1>2, <1>4, <1>5, WalksStep DEF IInv
<1>8. Reserves'
  BY <1>1, <1>2, <1>4, ReservesStep DEF IInv, At
<1>9. MarksInv'
  <2>1. SUFFICES ASSUME ~ clash' PROVE (\A z \in Zones : MarkRight(z)') /\ TotalRight' /\ \A u \in Threads : Caught(u)'
    BY DEF MarksInv
  <2>2. ~ clash /\ \A u \in Threads \ {t} : At(u, "idle") /\ task'[u].pc = "idle"
    BY <1>2, <1>3, <2>1, GoesOnAlone
  <2>3. PagesOf(Lowmem)' = PagesOf(Lowmem) /\ TotalReserve' = TotalReserve
    BY <1>4 DEF PagesOf, TotalReserve
  <2>4. ASSUME NEW z \in Zones PROVE MarkRight(z)'
    <3>1. Marks(z, min_free, PagesOf(Lowmem))' = Marks(z, min_free, PagesOf(Lowmem))
      BY <1>4, <2>3 DEF Marks
    <3>2. watermark[z] = Marks(z, min_free, PagesOf(Lowmem))
      BY <1>1, <2>2 DEF IInv, MarksInv, MarkRight, At
    <3> QED BY <3>1, <3>2, <1>4 DEF MarkRight
  <2>5. task[t].total = TotalReserve
    BY <1>1, <2>2 DEF IInv, MarksInv, Caught
  <2> QED BY <1>2, <1>4, <2>2, <2>3, <2>4, <2>5 DEF TotalRight, Caught, At
<1> QED BY <1>5, <1>6, <1>7, <1>8, <1>9 DEF IInv

-----------------------------------------------------------------------------
(* The reserves.                                                            *)

LEMMA TaskGotoZone ==
    ASSUME Kinds, NEW t \in Threads, NEW step, GotoZone(t, step)
    PROVE  Others(t) /\ task'[t].pc = step /\ task'[t].i = 1
<1> DEFINE r == [task[t] EXCEPT !.pc = step, !.i = 1]
<1>1. task'[t] = r /\ task' = [u \in Threads |-> task'[u]] /\ \A u \in Threads \ {t} : task'[u] = task[u]
  BY DEF GotoZone, Kinds
<1>2. IsTask(r) /\ r.pc = step /\ r.i = 1
  BY DEF Kinds, IsTask, Places
<1> HIDE DEF r
<1> QED BY <1>1, <1>2, TaskSet

LEMMA WriteRatioStep ==
    ASSUME IInv, NEW w \in Writers, NEW i \in Ratio, NEW v \in Ratios, WriteRatio(w, i, v) PROVE IInv'
<1>1. w \in Threads /\ Kinds
  BY DEF IInv, Threads
<1>2. Others(w) /\ task'[w].pc = "reserve" /\ task'[w].i = 1
  BY <1>1, TaskGotoZone DEF WriteRatio
<1>3. Begins(w) /\ task[w].pc = "idle"
  BY DEF WriteRatio, Write, Begins, At
<1>4. UNCHANGED <<present, sets, raced, min_free, watermark, reserve, totalreserve>>
      /\ ratio' = [ratio EXCEPT ![i] = v]
  BY DEF WriteRatio, Write, tables
<1>5. /\ UNCHANGED <<fraction, pset, pcp, boot_pageset, slab, online, hot>>
      /\ clash' \in BOOLEAN /\ (clash => clash')
      /\ OneAtATime' /\ (OwnPlace /\ OwnAll /\ PagesetsOwned)' /\ FitInv'
  BY <1>1, <1>2, <1>3, <1>4, TableStep
<1>6. Kinds'
  <2>1. ratio' \in [Ratio -> Nat]
    BY <1>1, <1>4, TuningAssumption DEF Kinds
  <2> QED BY <2>1, <1>1, <1>2, <1>4, <1>5 DEF Kinds, Others
<1>7. Walks'
  BY <1>1, <1>2, <1>4, <1>5, WalksStep, SomeZone DEF IInv
<1>8. Reserves'
  <2>1. ASSUME NEW z \in Zones, NEW j \in ZoneTypes PROVE EntryRight(z, j)'
    <3>1. <<z[1], j>> \in Zones
      BY DEF Zones
    <3>2. \E k \in 1 .. Len(ZoneSeq) : ZoneSeq[k] = <<z[1], j>>
      BY <3>1, ZoneSeqAll
    <3> QED BY <1>1, <1>2, <3>2 DEF EntryRight, At
  <2> QED BY <2>1 DEF Reserves
<1>9. MarksInv'
  <2>1. SUFFICES ASSUME ~ clash' PROVE (\A z \in Zones : MarkRight(z)') /\ TotalRight' /\ \A u \in Threads : Caught(u)'
    BY DEF MarksInv
  <2>2. ~ clash /\ (\A u \in Threads : At(u, "idle")) /\ \A u \in Threads \ {w} : task'[u].pc = "idle"
    BY <1>1, <1>2, <1>3, <2>1, BeginsAlone
  <2>3. PagesOf(Lowmem)' = PagesOf(Lowmem)
    BY <1>4 DEF PagesOf
  <2>4. ASSUME NEW z \in Zones PROVE MarkRight(z)'
    <3>1. Marks(z, min_free, PagesOf(Lowmem))' = Marks(z, min_free, PagesOf(Lowmem))
      BY <1>4, <2>3 DEF Marks
    <3>2. watermark[z] = Marks(z, min_free, PagesOf(Lowmem))
      BY <2>2 DEF IInv, MarksInv, MarkRight, At
    <3> QED BY <3>1, <3>2, <1>4 DEF MarkRight
  <2> QED BY <1>1, <1>2, <2>2, <2>4 DEF TotalRight, Caught, At
<1> QED BY <1>5, <1>6, <1>7, <1>8, <1>9 DEF IInv

LEMMA LowmemReserveStep ==
    ASSUME IInv, NEW w \in Writers, setup_per_zone_lowmem_reserve(w) PROVE IInv'
<1> DEFINE i == task[w].i
           p == IF i = Len(ZoneSeq) THEN "sum" ELSE task[w].pc
           r == [task[w] EXCEPT !.i = i + 1, !.pc = p]
           n == ZoneSeq[i][1]
           j == ZoneSeq[i][2]
<1>1. w \in Threads /\ Kinds /\ At(w, "reserve") /\ i \in 1 .. Len(ZoneSeq)
  BY DEF IInv, setup_per_zone_lowmem_reserve, Walks, At, Threads
<1>2. task'[w] = r /\ task' = [u \in Threads |-> task'[u]] /\ \A u \in Threads \ {w} : task'[u] = task[u]
  BY <1>1 DEF setup_per_zone_lowmem_reserve, Kinds
<1>3. IsTask(r) /\ r.pc = (IF i = Len(ZoneSeq) THEN "sum" ELSE "reserve") /\ r.i = i + 1
  <2>1. PICK s, k, q : s = task[w] /\ k = i + 1 /\ q = p
    OBVIOUS
  <2>2. IsTask(s) /\ r = [s EXCEPT !.i = k, !.pc = q] /\ task[w].pc = "reserve"
    BY <1>1, <2>1 DEF Kinds, At
  <2> HIDE DEF r, i
  <2>3. IsTask(r) /\ r.pc = q /\ r.i = k
    BY <2>2 DEF IsTask, Places
  <2> QED BY <2>1, <2>2, <2>3
<1> HIDE DEF r
<1>4. Others(w)
  BY <1>1, <1>2, <1>3, TaskSet
<1>5. GoesOn(w)
  BY <1>1 DEF setup_per_zone_lowmem_reserve, Idling, GoesOn, At
<1>6. /\ UNCHANGED <<present, sets, raced, min_free, watermark, totalreserve>>
      /\ ratio' = [k \in Ratio |-> IF k < j /\ ratio[k] < 1 THEN 1 ELSE ratio[k]]
      /\ reserve' = [z \in Zones |-> IF z[1] # n \/ z[2] > j THEN reserve[z]
                        ELSE [reserve[z] EXCEPT ![j] = Kept(ratio, n, z[2], j)]]
  BY DEF setup_per_zone_lowmem_reserve, Idling, tables
<1>7. /\ UNCHANGED <<fraction, pset, pcp, boot_pageset, slab, online, hot>>
      /\ clash' \in BOOLEAN /\ (clash => clash')
      /\ OneAtATime' /\ (OwnPlace /\ OwnAll /\ PagesetsOwned)' /\ FitInv'
  BY <1>1, <1>2, <1>3, <1>4, <1>5, <1>6, TableStep DEF At
<1>8. n \in Nodes /\ j \in ZoneTypes /\ ZoneSeq[i] = <<n, j>>
  BY <1>1, ZoneSeqShape DEF Zones
<1> HIDE DEF n, j
<1>9. Kinds'
  <2>1. ratio' \in [Ratio -> Nat]
    BY <1>1, <1>6 DEF Kinds
  <2>2. ASSUME NEW z \in Zones PROVE reserve'[z] = [k \in ZoneTypes |-> reserve'[z][k]]
    <3>1. reserve[z] = [k \in ZoneTypes |-> reserve[z][k]]
      BY <1>1 DEF Kinds
    <3> QED BY <3>1, <1>6
  <2>3. reserve' = [z \in Zones |-> [k \in ZoneTypes |-> reserve'[z][k]]]
    BY <2>2, <1>6
  <2> QED BY <2>1, <2>3, <1>1, <1>4, <1>6, <1>7 DEF Kinds, Others
<1>10. Walks'
  <2>1. task'[w].pc = "reserve" => task'[w].i \in 1 .. Len(ZoneSeq)
    BY <1>1, <1>2, <1>3, ZoneSeqShape
  <2> QED BY <2>1, <1>1, <1>2, <1>3, <1>4, <1>6, <1>7, WalksStep DEF IInv
<1>11. Reserves'
  <2>1. SUFFICES ASSUME present = [z \in Zones |-> Boot[z[1]][z[2]]],
                        NEW z \in Zones, NEW m \in ZoneTypes, ~ (m < z[2])
                 PROVE  EntryRight(z, m)'
    BY <1>6 DEF Reserves, EntryRight
  <2>2. z[2] \in ZoneTypes /\ z[1] \in Nodes
    BY DEF Zones
  <2>3. Kept(ratio, z[1], z[2], m)' = Kept(ratio, z[1], z[2], m)
    <3>1. PagesOf(Between(z[1], z[2], m))' = PagesOf(Between(z[1], z[2], m))
      BY <1>6 DEF PagesOf
    <3>2. CASE z[2] >= m
      BY <3>2 DEF Kept
    <3>3. CASE ~ (z[2] >= m)
      <4>1. z[2] \in Ratio
        BY <2>2, <3>3, MachineAssumption DEF ZoneTypes, Ratio
      <4>2. (IF ratio'[z[2]] < 1 THEN 1 ELSE ratio'[z[2]]) = (IF ratio[z[2]] < 1 THEN 1 ELSE ratio[z[2]])
        BY <4>1, <1>1, <1>6 DEF Kinds
      <4> QED BY <4>2, <3>1 DEF Kept
    <3> QED BY <3>2, <3>3
  <2>4. CASE z[1] = n /\ m = j
    <3>1. z[2] <= j
      BY <2>1, <2>2, <2>4 DEF ZoneTypes
    <3>2. reserve'[z] = [reserve[z] EXCEPT ![j] = Kept(ratio, n, z[2], j)]
      BY <1>6, <2>2, <2>4, <3>1, <1>8 DEF ZoneTypes
    <3>3. reserve'[z][j] = Kept(ratio, n, z[2], j)
      BY <3>2, <1>1, <1>8 DEF Kinds
    <3> QED BY <3>3, <2>3, <2>4 DEF EntryRight
  <2>5. CASE ~ (z[1] = n /\ m = j)
    <3>1. reserve'[z][m] = reserve[z][m]
      <4>1. reserve[z] = [k \in ZoneTypes |-> reserve[z][k]]
        BY <1>1 DEF Kinds
      <4> QED BY <4>1, <1>6, <2>5
    <3>2. EntryRight(z, m)
      BY <2>1 DEF IInv, Reserves
    <3>3. CASE reserve[z][m] = Kept(ratio, z[1], z[2], m)
      BY <3>1, <3>3, <2>3 DEF EntryRight
    <3>4. ASSUME NEW t \in Threads, At(t, "reserve"), NEW k \in task[t].i .. Len(ZoneSeq), ZoneSeq[k] = <<z[1], m>>
          PROVE  EntryRight(z, m)'
      <4>1. CASE t # w
        BY <4>1, <3>4, <1>2 DEF EntryRight, At
      <4>2. CASE t = w
        <5>1. k # i
          BY <3>4, <2>5, <1>8
        <5>2. k \in i + 1 .. Len(ZoneSeq) /\ i # Len(ZoneSeq)
          BY <5>1, <3>4, <4>2, <1>1, ZoneSeqShape
        <5> QED BY <5>2, <3>4, <1>1, <1>2, <1>3 DEF EntryRight, At
      <4> QED BY <4>1, <4>2
    <3> QED BY <2>1, <3>2, <3>3, <3>4 DEF EntryRight
  <2> QED BY <2>4, <2>5
<1>12. MarksInv'
  <2>1. SUFFICES ASSUME ~ clash' PROVE (\A z \in Zones : MarkRight(z)') /\ TotalRight' /\ \A u \in Threads : Caught(u)'
    BY DEF MarksInv
  <2>2. ~ clash /\ \A u \in Threads \ {w} : At(u, "idle") /\ task'[u].pc = "idle"
    BY <1>1, <1>4, <1>5, <2>1, GoesOnAlone
  <2>3. PagesOf(Lowmem)' = PagesOf(Lowmem)
    BY <1>6 DEF PagesOf
  <2>4. ASSUME NEW z \in Zones PROVE MarkRight(z)'
    <3>1. Marks(z, min_free, PagesOf(Lowmem))' = Marks(z, min_free, PagesOf(Lowmem))
      BY <1>6, <2>3 DEF Marks
    <3>2. watermark[z] = Marks(z, min_free, PagesOf(Lowmem))
      BY <1>1, <2>2 DEF IInv, MarksInv, MarkRight, At
    <3> QED BY <3>1, <3>2, <1>6 DEF MarkRight
  <2> QED BY <1>1, <1>2, <1>3, <2>2, <2>4 DEF TotalRight, Caught, At
<1> QED BY <1>7, <1>9, <1>10, <1>11, <1>12 DEF IInv

-----------------------------------------------------------------------------
(* The numbers of a pageset.                                                *)

LEMMA BatchSize ==
    ASSUME NEW z \in Zones, present \in [Zones -> Nat]
    PROVE  zone_batchsize(z) \in Nat
<1> DEFINE P == {1, 2, 4, 8, 16, 32, 64}
<1>1. ASSUME NEW x \in Nat, x >= 1 PROVE rounddown_pow_of_two(x) \in P
  <2> DEFINE S == {p \in P : p <= x}
  <2>1. \E m \in S : \A y \in S : m >= y
    <3>1. CASE x >= 64
      <4>1. 64 \in S /\ \A y \in S : 64 >= y
        BY <3>1
      <4> QED BY <4>1
    <3>2. CASE x >= 32 /\ x < 64
      <4>1. 32 \in S /\ \A y \in S : 32 >= y
        BY <3>2
      <4> QED BY <4>1
    <3>3. CASE x >= 16 /\ x < 32
      <4>1. 16 \in S /\ \A y \in S : 16 >= y
        BY <3>3
      <4> QED BY <4>1
    <3>4. CASE x >= 8 /\ x < 16
      <4>1. 8 \in S /\ \A y \in S : 8 >= y
        BY <3>4
      <4> QED BY <4>1
    <3>5. CASE x >= 4 /\ x < 8
      <4>1. 4 \in S /\ \A y \in S : 4 >= y
        BY <3>5
      <4> QED BY <4>1
    <3>6. CASE x >= 2 /\ x < 4
      <4>1. 2 \in S /\ \A y \in S : 2 >= y
        BY <3>6
      <4> QED BY <4>1
    <3>7. CASE x < 2
      <4>1. 1 \in S /\ \A y \in S : 1 >= y
        BY <3>7, <1>1
      <4> QED BY <4>1
    <3> QED BY <3>1, <3>2, <3>3, <3>4, <3>5, <3>6, <3>7
  <2>2. Max(S) \in S
    BY <2>1 DEF Max
  <2> QED BY <2>2 DEF rounddown_pow_of_two
<1> DEFINE d == present[z] \div Batch
           b == IF d > BatchCap THEN BatchCap ELSE d
           c == IF b < 1 THEN 1 ELSE b
<1>2. d \in Nat
  BY Division, TuningAssumption
<1> HIDE DEF d
<1>3. c \in Nat /\ c >= 1 /\ c + c \div 2 \in Nat /\ c + c \div 2 >= 1
  BY <1>2, TuningAssumption
<1>4. zone_batchsize(z) = rounddown_pow_of_two(c + c \div 2) - 1
  BY DEF zone_batchsize, d
<1> HIDE DEF c
<1> QED BY <1>1, <1>3, <1>4

LEMMA SetupFits ==
    ASSUME NEW b \in Nat PROVE setup_pageset(b) \in Pcp /\ Fits(setup_pageset(b))
BY DEF setup_pageset, Pcp, Fits

LEMMA BatchFits ==
    ASSUME NEW h \in Nat
    PROVE  BatchOf(h) \in Nat /\ BatchOf(h) >= 1 /\ (BatchOf(h) <= h \/ BatchOf(h) = 1)
BY TuningAssumption DEF BatchOf

LEMMA NewFits ==
    ASSUME NEW z \in Zones, present \in [Zones -> Nat], fraction \in Nat
    PROVE  /\ NewPageset(z) \in Pcp /\ Fits(NewPageset(z))
           /\ fraction > 0 => NewPageset(z).high = present[z] \div fraction
<1>1. CASE fraction = 0
  BY <1>1, BatchSize, SetupFits DEF NewPageset
<1>2. CASE fraction # 0
  <2> DEFINE h == present[z] \div fraction
  <2>1. h \in Nat
    BY <1>2, Division
  <2>2. NewPageset(z) = [high |-> h, batch |-> BatchOf(h)]
    BY <1>2 DEF NewPageset
  <2> HIDE DEF h
  <2>3. NewPageset(z) \in Pcp /\ Fits(NewPageset(z)) /\ NewPageset(z).high = h
    BY <2>1, <2>2, BatchFits DEF Pcp, Fits
  <2> QED BY <2>3 DEF h
<1> QED BY <1>1, <1>2

-----------------------------------------------------------------------------
(* percpu_pagelist_fraction.                                                *)

\* A step that leaves the tables and the owners of pagesets alone.
LEMMA NumberStep ==
    ASSUME IInv, NEW t \in Threads, Others(t), Begins(t) \/ GoesOn(t),
           task[t].pc \in {"idle", "high", "batch"}, task'[t].pc \in {"high", "batch", "done"},
           UNCHANGED <<present, marks, pset, slab, online, hot, raced>>
    PROVE  /\ UNCHANGED <<min_free, watermark, ratio, reserve, totalreserve>>
           /\ clash' \in BOOLEAN /\ (clash => clash')
           /\ OneAtATime' /\ (OwnPlace /\ OwnAll /\ PagesetsOwned)' /\ Reserves' /\ MarksInv'
<1>1. UNCHANGED <<min_free, watermark, ratio, reserve, totalreserve>>
  BY DEF marks
<1>2. clash' \in BOOLEAN /\ (clash => clash')
  BY DEF Begins, GoesOn, IInv, Kinds
<1>3. OneAtATime'
  BY OneStep DEF IInv
<1>4. (OwnPlace /\ OwnAll /\ PagesetsOwned)'
  BY OwnStep DEF IInv
<1>5. Reserves'
  BY <1>1, ReservesStep DEF IInv, At
<1>6. MarksInv'
  BY <1>1, <1>2, MarksStep DEF IInv
<1> QED BY <1>1, <1>2, <1>3, <1>4, <1>5, <1>6

LEMMA WriteFractionStep ==
    ASSUME IInv, NEW w \in Writers, NEW v \in Fractions, WriteFraction(w, v) PROVE IInv'
<1>1. w \in Threads /\ Kinds /\ Hot \in Threads
  BY DEF IInv, Threads
<1>2. Others(w) /\ task'[w].pc = "high" /\ task'[w].i = 1
  BY <1>1, TaskGotoZone DEF WriteFraction
<1>3. Begins(w) /\ task[w].pc = "idle"
  BY DEF WriteFraction, Write, Begins, At
<1>4. UNCHANGED <<present, marks, pset, slab, online, hot, raced, pcp, boot_pageset>> /\ fraction' = v
  BY DEF WriteFraction, Write, tables
<1>5. /\ UNCHANGED <<min_free, watermark, ratio, reserve, totalreserve>>
      /\ clash' \in BOOLEAN /\ (clash => clash')
      /\ OneAtATime' /\ (OwnPlace /\ OwnAll /\ PagesetsOwned)' /\ Reserves' /\ MarksInv'
  BY <1>1, <1>2, <1>3, <1>4, NumberStep
<1>6. v \in Nat /\ v > 0
  BY TuningAssumption
<1>7. Kinds'
  BY <1>1, <1>2, <1>4, <1>5, <1>6 DEF Kinds, Others
<1>8. Walks'
  <2>1. Populated' = Populated
    BY <1>4 DEF Populated
  <2> QED BY <2>1, <1>2, <1>4, <1>6 DEF IInv, Walks, Others, At
<1>9. FitInv'
  <2>1. SUFFICES ASSUME ~ clash', NEW c \in CPUs
                 PROVE  /\ BootFits(c)'
                        /\ \A z \in Zones : OwnFits(z, c)' /\ \A u \in Threads : HalfRight(u, z, c)'
    BY DEF FitInv
  <2>2. ~ clash /\ (\A u \in Threads : At(u, "idle")) /\ \A u \in Threads \ {w} : task'[u].pc = "idle"
    BY <1>1, <1>2, <1>3, <2>1, BeginsAlone
  <2>3. \A u \in Threads : \A z, d : ~ Half(u, z, d) /\ ~ Half(u, z, d)'
    BY <1>2, <2>2 DEF Half, At
  <2>4. \A z, d : Lacks(z, d)' <=> Lacks(z, d)
    BY <1>1, <1>2, <1>3, <1>4, HalfStep
  <2>5. BootFits(c)'
    BY <1>4, <2>2, <2>3, <2>4 DEF IInv, FitInv, BootFits
  <2>6. ASSUME NEW z \in Zones PROVE OwnFits(z, c)'
    BY <1>4, <2>2, <2>3 DEF IInv, FitInv, OwnFits
  <2>7. ASSUME NEW z \in Zones, NEW u \in Threads PROVE HalfRight(u, z, c)'
    BY <2>3 DEF HalfRight
  <2> QED BY <2>5, <2>6, <2>7
<1> QED BY <1>5, <1>7, <1>8, <1>9 DEF IInv

LEMMA TaskNextPair ==
    ASSUME Kinds, NEW w \in Threads, NextPair(w)
    PROVE  Others(w) /\ task'[w].pc \in {"high", "done"}
<1> DEFINE j == task[w].i + 1
           p == IF task[w].i = Len(PairSeq) THEN "done" ELSE "high"
           r == [task[w] EXCEPT !.i = j, !.pc = p]
<1>1. task'[w] = r /\ task' = [u \in Threads |-> task'[u]] /\ \A u \in Threads \ {w} : task'[u] = task[u]
  BY DEF NextPair, Kinds
<1>2. p \in {"high", "done"}
  OBVIOUS
<1> HIDE DEF p, j
<1>3. IsTask(r) /\ r.pc = p
  BY DEF Kinds, IsTask, Places
<1> HIDE DEF r
<1> QED BY <1>1, <1>2, <1>3, TaskSet

LEMMA FieldSet ==
    ASSUME Kinds, NEW z \in Zones, NEW c \in CPUs, NEW v \in Nat, NEW f \in {"high", "batch"},
           SetField(z, c, f, v)
    PROVE  /\ pcp' \in [Zones -> [CPUs -> Pcp]] /\ boot_pageset' \in [CPUs -> Pcp]
           /\ pset[z][c] = "own" =>
                 /\ pcp'[z][c][f] = v /\ boot_pageset' = boot_pageset
                 /\ \A g \in {"high", "batch"} \ {f} : pcp'[z][c][g] = pcp[z][c][g]
           /\ pset[z][c] # "own" =>
                 /\ boot_pageset'[c][f] = v /\ pcp' = pcp
                 /\ \A g \in {"high", "batch"} \ {f} : boot_pageset'[c][g] = boot_pageset[c][g]
           /\ \A y \in Zones, d \in CPUs : y # z \/ d # c => pcp'[y][d] = pcp[y][d]
           /\ \A d \in CPUs \ {c} : boot_pageset'[d] = boot_pageset[d]
<1>1. pcp \in [Zones -> [CPUs -> Pcp]] /\ boot_pageset \in [CPUs -> Pcp]
  BY DEF Kinds
<1>2. CASE pset[z][c] = "own"
  <2>1. pcp' = [pcp EXCEPT ![z][c][f] = v] /\ boot_pageset' = boot_pageset
    BY <1>2 DEF SetField
  <2>2. \A y \in Zones, d \in CPUs : y # z \/ d # c => pcp'[y][d] = pcp[y][d]
    BY <1>1, <2>1
  <2>3. pcp'[z][c] = [pcp[z][c] EXCEPT ![f] = v]
    BY <1>1, <2>1
  <2>4. pcp[z][c] \in Pcp
    BY <1>1
  <2>5. /\ pcp'[z][c] \in Pcp /\ pcp'[z][c][f] = v
        /\ \A g \in {"high", "batch"} \ {f} : pcp'[z][c][g] = pcp[z][c][g]
    BY <2>3, <2>4 DEF Pcp
  <2>6. pcp' \in [Zones -> [CPUs -> Pcp]]
    BY <1>1, <2>1, <2>2, <2>5
  <2> QED BY <1>1, <1>2, <2>1, <2>2, <2>5, <2>6
<1>3. CASE pset[z][c] # "own"
  <2>1. boot_pageset' = [boot_pageset EXCEPT ![c][f] = v] /\ pcp' = pcp
    BY <1>3 DEF SetField
  <2>2. \A d \in CPUs \ {c} : boot_pageset'[d] = boot_pageset[d]
    BY <1>1, <2>1
  <2>3. boot_pageset'[c] = [boot_pageset[c] EXCEPT ![f] = v]
    BY <1>1, <2>1
  <2>4. boot_pageset[c] \in Pcp
    BY <1>1
  <2>5. /\ boot_pageset'[c] \in Pcp /\ boot_pageset'[c][f] = v
        /\ \A g \in {"high", "batch"} \ {f} : boot_pageset'[c][g] = boot_pageset[c][g]
    BY <2>3, <2>4 DEF Pcp
  <2>6. boot_pageset' \in [CPUs -> Pcp]
    BY <1>1, <2>1, <2>2, <2>5
  <2> QED BY <1>1, <1>3, <2>1, <2>2, <2>5, <2>6
<1> QED BY <1>2, <1>3

LEMMA SetHighStep ==
    ASSUME IInv, NEW w \in Writers, SetHigh(w) PROVE IInv'
<1> DEFINE z == PairSeq[task[w].i][1]
           c == PairSeq[task[w].i][2]
           m == present[z] \div fraction
<1>1. w \in Threads /\ Kinds /\ Hot \in Threads /\ task[w].pc = "high" /\ fraction > 0
  BY DEF IInv, Threads, SetHigh, At, Walks
<1>2. GoesOn(w)
  BY <1>1 DEF SetHigh, Idling, GoesOn, At
<1>3. UNCHANGED <<present, marks, fraction, pset, slab, online, hot, raced>>
  BY DEF SetHigh, Idling, tables
<1>4. CASE ~ (z \in Populated /\ c \in online)
  <2>1. UNCHANGED <<pcp, boot_pageset>> /\ NextPair(w)
    BY <1>4 DEF SetHigh
  <2>2. Others(w) /\ task'[w].pc \in {"high", "done"}
    BY <1>1, <2>1, TaskNextPair
  <2>3. /\ UNCHANGED <<min_free, watermark, ratio, reserve, totalreserve>>
        /\ clash' \in BOOLEAN /\ (clash => clash')
        /\ OneAtATime' /\ (OwnPlace /\ OwnAll /\ PagesetsOwned)' /\ Reserves' /\ MarksInv'
    BY <1>1, <1>2, <1>3, <2>2, NumberStep
  <2>4. Kinds'
    BY <1>1, <1>3, <2>1, <2>2, <2>3 DEF Kinds, Others
  <2>5. Walks'
    BY <1>1, <1>3, <2>2, WalksStep DEF IInv
  <2>6. FitInv'
    BY <1>1, <1>3, <2>1, <2>2, <2>3, FitStep DEF IInv, sets
  <2> QED BY <2>3, <2>4, <2>5, <2>6 DEF IInv
<1>5. CASE z \in Populated /\ c \in online
  <2> DEFINE r == [task[w] EXCEPT !.pc = "batch", !.min = m]
  <2>1. z \in Zones /\ c \in CPUs
    BY <1>1, <1>5 DEF Populated, Kinds
  <2>2. m \in Nat
    BY <1>1, <2>1, Division DEF Kinds
  <2>3. SetField(z, c, "high", m) /\ task' = [task EXCEPT ![w].pc = "batch", ![w].min = m]
    BY <1>5 DEF SetHigh
  <2> HIDE DEF m
  <2>4. task'[w] = r /\ task' = [u \in Threads |-> task'[u]] /\ \A u \in Threads \ {w} : task'[u] = task[u]
    BY <1>1, <2>3 DEF Kinds
  <2>5. IsTask(r) /\ r.pc = "batch" /\ r.min = m /\ r.i = task[w].i
    <3>1. PICK s, k : s = task[w] /\ k = m
      OBVIOUS
    <3>2. IsTask(s) /\ r = [s EXCEPT !.pc = "batch", !.min = k]
      BY <1>1, <3>1 DEF Kinds
    <3> HIDE DEF r
    <3>3. IsTask(r) /\ r.pc = "batch" /\ r.min = k /\ r.i = s.i
      BY <3>2 DEF IsTask, Places
    <3> QED BY <3>1, <3>3
  <2> HIDE DEF r
  <2>6. Others(w) /\ task'[w].pc = "batch" /\ task'[w].min = m /\ task'[w].i = task[w].i
    BY <1>1, <2>4, <2>5, TaskSet
  <2>7. /\ UNCHANGED <<min_free, watermark, ratio, reserve, totalreserve>>
        /\ clash' \in BOOLEAN /\ (clash => clash')
        /\ OneAtATime' /\ (OwnPlace /\ OwnAll /\ PagesetsOwned)' /\ Reserves' /\ MarksInv'
    BY <1>1, <1>2, <1>3, <2>6, NumberStep
  <2>8. Walks'
    BY <1>1, <1>3, <1>5, <2>1, <2>2, <2>6, WalksStep DEF IInv
  <2>9. /\ pcp' \in [Zones -> [CPUs -> Pcp]] /\ boot_pageset' \in [CPUs -> Pcp]
        /\ pset[z][c] = "own" => pcp'[z][c].high = m /\ boot_pageset' = boot_pageset
        /\ pset[z][c] # "own" => boot_pageset'[c].high = m /\ pcp' = pcp
        /\ \A y \in Zones, d \in CPUs : y # z \/ d # c => pcp'[y][d] = pcp[y][d]
        /\ \A d \in CPUs \ {c} : boot_pageset'[d] = boot_pageset[d]
    BY <1>1, <2>1, <2>2, <2>3, FieldSet
  <2>10. Kinds'
    BY <1>1, <1>3, <2>6, <2>7, <2>9 DEF Kinds, Others
  <2>11. FitInv'
    <3>1. SUFFICES ASSUME ~ clash', NEW d \in CPUs
                   PROVE  /\ BootFits(d)'
                          /\ \A y \in Zones : OwnFits(y, d)' /\ \A u \in Threads : HalfRight(u, y, d)'
      BY DEF FitInv
    <3>2. ~ clash /\ \A u \in Threads \ {w} : At(u, "idle") /\ task'[u].pc = "idle"
      BY <1>1, <1>2, <2>6, <3>1, GoesOnAlone
    <3>3. \A u \in Threads : \A y, e : ~ Half(u, y, e)
      BY <1>1, <3>2 DEF Half, At
    <3>4. \A u \in Threads : \A y, e : Half(u, y, e)' <=> u = w /\ y = z /\ e = c
      BY <1>1, <2>6, <3>2 DEF Half, At
    <3>5. \A y, e : Lacks(y, e)' => Lacks(y, e)
      <4>1. Populated' = Populated /\ \A y : Ahead(y)' <=> Ahead(y)
        BY <1>3 DEF Populated, Ahead
      <4>2. task[Hot].pc # "pcp"
        BY <1>1, <3>2 DEF At
      <4> QED BY <1>3, <4>1, <4>2 DEF Lacks, Up, At
    <3> HIDE DEF z, c
    <3>6. BootFits(d)'
      <4>1. CASE d = c /\ pset[z][c] # "own"
        BY <1>1, <1>3, <1>5, <2>1, <3>4, <4>1 DEF BootFits
      <4>2. CASE d # c \/ pset[z][c] = "own"
        <5>1. boot_pageset'[d] = boot_pageset[d]
          BY <4>2, <2>9
        <5>2. BootFits(d)
          BY <3>2 DEF IInv, FitInv
        <5> QED BY <5>1, <5>2, <3>3, <3>5 DEF BootFits
      <4> QED BY <4>1, <4>2
    <3>7. ASSUME NEW y \in Zones PROVE OwnFits(y, d)'
      <4>1. CASE y = z /\ d = c
        BY <4>1, <1>1, <3>4 DEF OwnFits
      <4>2. CASE y # z \/ d # c
        <5>1. pcp'[y][d] = pcp[y][d]
          BY <4>2, <2>9
        <5>2. OwnFits(y, d)
          BY <3>2 DEF IInv, FitInv
        <5> QED BY <5>1, <5>2, <1>3, <3>3 DEF OwnFits
      <4> QED BY <4>1, <4>2
    <3>8. ASSUME NEW y \in Zones, NEW u \in Threads PROVE HalfRight(u, y, d)'
      BY <3>4, <2>6, <2>9, <1>3, <1>5 DEF HalfRight, m
    <3> QED BY <3>6, <3>7, <3>8
  <2> QED BY <2>7, <2>8, <2>10, <2>11 DEF IInv
<1> QED BY <1>4, <1>5

LEMMA SetBatchStep ==
    ASSUME IInv, NEW w \in Writers, SetBatch(w) PROVE IInv'
<1> DEFINE z == PairSeq[task[w].i][1]
           c == PairSeq[task[w].i][2]
           b == BatchOf(task[w].min)
<1>1. w \in Threads /\ Kinds /\ Hot \in Threads /\ task[w].pc = "batch" /\ fraction > 0
  BY DEF IInv, Threads, SetBatch, At, Walks
<1>2. GoesOn(w) /\ SetField(z, c, "batch", b) /\ NextPair(w)
  BY <1>1 DEF SetBatch, Idling, GoesOn, At
<1>3. UNCHANGED <<present, marks, fraction, pset, slab, online, hot, raced>>
  BY DEF SetBatch, Idling, tables
<1>4. z \in Populated /\ z \in Zones /\ c \in CPUs
  BY <1>1 DEF IInv, Walks, At, Populated
<1>5. Others(w) /\ task'[w].pc \in {"high", "done"}
  BY <1>1, <1>2, TaskNextPair
<1>6. /\ UNCHANGED <<min_free, watermark, ratio, reserve, totalreserve>>
      /\ clash' \in BOOLEAN /\ (clash => clash')
      /\ OneAtATime' /\ (OwnPlace /\ OwnAll /\ PagesetsOwned)' /\ Reserves' /\ MarksInv'
  BY <1>1, <1>2, <1>3, <1>5, NumberStep
<1>7. Walks'
  BY <1>1, <1>3, <1>5, WalksStep DEF IInv
<1>8. task[w].min \in Nat /\ b \in Nat /\ b >= 1 /\ (b <= task[w].min \/ b = 1)
  <2>1. task[w].min \in Nat
    BY <1>1 DEF IInv, Walks, At
  <2> QED BY <2>1, BatchFits
<1>9. /\ pcp' \in [Zones -> [CPUs -> Pcp]] /\ boot_pageset' \in [CPUs -> Pcp]
      /\ pset[z][c] = "own" =>
            pcp'[z][c].batch = b /\ pcp'[z][c].high = pcp[z][c].high /\ boot_pageset' = boot_pageset
      /\ pset[z][c] # "own" =>
            boot_pageset'[c].batch = b /\ boot_pageset'[c].high = boot_pageset[c].high /\ pcp' = pcp
      /\ \A y \in Zones, d \in CPUs : y # z \/ d # c => pcp'[y][d] = pcp[y][d]
      /\ \A d \in CPUs \ {c} : boot_pageset'[d] = boot_pageset[d]
  BY <1>1, <1>2, <1>4, <1>8, FieldSet
<1> HIDE DEF b
<1>10. Kinds'
  BY <1>1, <1>3, <1>5, <1>6, <1>9 DEF Kinds, Others
<1>11. FitInv'
  <2>1. SUFFICES ASSUME ~ clash', NEW d \in CPUs
                 PROVE  /\ BootFits(d)'
                        /\ \A y \in Zones : OwnFits(y, d)' /\ \A u \in Threads : HalfRight(u, y, d)'
    BY DEF FitInv
  <2>2. ~ clash /\ \A u \in Threads \ {w} : At(u, "idle") /\ task'[u].pc = "idle"
    BY <1>1, <1>2, <1>5, <2>1, GoesOnAlone
  <2>3. \A u \in Threads : \A y, e : Half(u, y, e) <=> u = w /\ y = z /\ e = c
    BY <1>1, <2>2 DEF Half, At
  <2>4. \A u \in Threads : \A y, e : ~ Half(u, y, e)'
    BY <1>5, <2>2 DEF Half, At
  <2>5. \A y, e : Lacks(y, e)' => Lacks(y, e)
    <3>1. Populated' = Populated /\ \A y : Ahead(y)' <=> Ahead(y)
      BY <1>3 DEF Populated, Ahead
    <3>2. task[Hot].pc # "pcp"
      BY <1>1, <2>2 DEF At
    <3> QED BY <1>3, <3>1, <3>2 DEF Lacks, Up, At
  <2> HIDE DEF z, c
  <2>6. HalfRight(w, z, c) /\ Half(w, z, c)
    BY <1>1, <1>4, <2>2, <2>3 DEF IInv, FitInv
  <2>7. BootFits(d)'
    <3>1. CASE d = c /\ pset[z][c] # "own" /\ c \in online
      <4>1. boot_pageset[c].high = task[w].min
        BY <3>1, <2>6 DEF HalfRight
      <4> QED BY <4>1, <3>1, <1>8, <1>9 DEF BootFits, Fits
    <3>2. CASE d = c /\ pset[z][c] # "own" /\ c \notin online
      BY <3>2, <2>5, <2>6 DEF HalfRight, BootFits
    <3>3. CASE d # c \/ pset[z][c] = "own"
      <4>1. boot_pageset'[d] = boot_pageset[d]
        BY <3>3, <1>9
      <4>2. BootFits(d)
        BY <2>2 DEF IInv, FitInv
      <4> QED BY <3>3, <4>1, <4>2, <2>3, <2>5 DEF BootFits
    <3> QED BY <3>1, <3>2, <3>3
  <2>8. ASSUME NEW y \in Zones PROVE OwnFits(y, d)'
    <3>1. CASE y = z /\ d = c
      <4>1. pset[z][c] = "own" => pcp'[z][c].high = task[w].min /\ pcp'[z][c].batch = b
        BY <2>6, <1>9 DEF HalfRight
      <4> QED BY <4>1, <3>1, <1>3, <1>8 DEF OwnFits, Fits
    <3>2. CASE y # z \/ d # c
      <4>1. pcp'[y][d] = pcp[y][d]
        BY <3>2, <1>9
      <4>2. OwnFits(y, d)
        BY <2>2 DEF IInv, FitInv
      <4> QED BY <3>2, <4>1, <4>2, <1>3, <2>3 DEF OwnFits
    <3> QED BY <3>1, <3>2
  <2>9. ASSUME NEW y \in Zones, NEW u \in Threads PROVE HalfRight(u, y, d)'
    BY <2>4 DEF HalfRight
  <2> QED BY <2>7, <2>8, <2>9
<1> QED BY <1>6, <1>7, <1>10, <1>11 DEF IInv

-----------------------------------------------------------------------------
(* Memory is added.                                                         *)

LEMMA OnlineStep ==
    ASSUME IInv, NEW z \in HotAdd, online_pages(z) PROVE IInv'
<1> DEFINE r == [task[Hot] EXCEPT !.pc = "pcp", !.zone = z]
<1>1. Kinds /\ Hot \in Threads /\ z \in Zones
  BY MachineAssumption DEF IInv, Threads
<1>2. task'[Hot] = r /\ task' = [u \in Threads |-> task'[u]] /\ \A u \in Threads \ {Hot} : task'[u] = task[u]
  BY <1>1 DEF online_pages, Kinds
<1>3. IsTask(r) /\ r.pc = "pcp" /\ r.zone = z
  BY <1>1 DEF Kinds, IsTask, Places
<1> HIDE DEF r
<1>4. Others(Hot) /\ task'[Hot].pc = "pcp" /\ task'[Hot].zone = z
  BY <1>1, <1>2, <1>3, TaskSet
<1>5. Begins(Hot) /\ clash' \in BOOLEAN /\ (clash => clash')
  BY <1>1 DEF online_pages, Begins, Kinds
<1>6. /\ UNCHANGED <<min_free, watermark, ratio, reserve, totalreserve>>
      /\ UNCHANGED <<fraction, pset, pcp, boot_pageset, slab, online, hot>>
      /\ raced' = (raced \/ hot.on)
  BY DEF online_pages, marks, sets
<1>7. /\ present' = [present EXCEPT ![z] = @ + Added] /\ present' \in [Zones -> Nat]
      /\ present'[z] # Boot[z[1]][z[2]]
  <2>1. present[z] \in Nat /\ present[z] = Boot[z[1]][z[2]]
    BY <1>1 DEF online_pages, Kinds
  <2>2. Added \in Nat /\ Added > 0
    BY MachineAssumption
  <2>3. present' = [present EXCEPT ![z] = present[z] + Added]
    BY DEF online_pages
  <2> QED BY <1>1, <2>1, <2>2, <2>3 DEF Kinds
<1>8. (\A y \in Populated : y \in Populated') /\ \A y \in Populated' : y = z \/ y \in Populated
  <2>1. Added \in Nat /\ Added > 0
    BY MachineAssumption
  <2>2. ASSUME NEW y \in Zones PROVE present'[y] = (IF y = z THEN present[y] + Added ELSE present[y]) /\ present[y] \in Nat
    BY <1>1, <1>7 DEF Kinds
  <2> QED BY <2>1, <2>2 DEF Populated
<1>9. Kinds'
  BY <1>1, <1>4, <1>5, <1>6, <1>7 DEF Kinds, Others
<1>10. OneAtATime'
  BY <1>1, <1>4, <1>5, OneStep DEF IInv
<1>11. Walks'
  BY <1>1, <1>4, <1>6, <1>8 DEF IInv, Walks, Others, At
<1>12. Reserves'
  BY <1>1, <1>7 DEF Reserves
<1>13. MarksInv'
  <2>1. SUFFICES ASSUME ~ clash' PROVE (\A y \in Zones : MarkRight(y)') /\ TotalRight' /\ \A u \in Threads : Caught(u)'
    BY DEF MarksInv
  <2>2. \A u \in Threads \ {Hot} : task'[u].pc = "idle"
    BY <1>1, <1>4, <1>5, <2>1, BeginsAlone
  <2> QED BY <1>1, <1>4, <2>2 DEF MarkRight, TotalRight, Caught, At
<1>14. OwnPlace'
  BY <1>6, <1>8 DEF IInv, OwnPlace
<1>15. OwnAll' /\ PagesetsOwned'
  <2>1. hot.on \in BOOLEAN /\ raced \in BOOLEAN
    BY <1>1 DEF Kinds
  <2> QED BY <1>6, <2>1 DEF IInv, OwnAll, PagesetsOwned
<1>16. FitInv'
  <2>1. SUFFICES ASSUME ~ clash', NEW c \in CPUs
                 PROVE  /\ BootFits(c)'
                        /\ \A y \in Zones : OwnFits(y, c)' /\ \A u \in Threads : HalfRight(u, y, c)'
    BY DEF FitInv
  <2>2. ~ clash /\ (\A u \in Threads : At(u, "idle")) /\ \A u \in Threads \ {Hot} : task'[u].pc = "idle"
    BY <1>1, <1>4, <1>5, <2>1, BeginsAlone
  <2>3. \A u \in Threads : \A y, d : ~ Half(u, y, d) /\ ~ Half(u, y, d)'
    BY <1>4, <2>2 DEF Half, At
  <2>4. \A y, d : Lacks(y, d)' => Lacks(y, d)
    <3>1. \A y, d : Up(y, d)' <=> Up(y, d)
      BY <1>6 DEF Up, Ahead
    <3>2. task[Hot].pc # "pcp"
      BY <1>1, <2>2 DEF At
    <3> QED BY <1>4, <1>6, <1>8, <3>1, <3>2 DEF Lacks, At
  <2>5. BootFits(c)'
    BY <1>6, <2>2, <2>3, <2>4 DEF IInv, FitInv, BootFits
  <2>6. ASSUME NEW y \in Zones PROVE OwnFits(y, c)'
    BY <1>6, <2>2, <2>3 DEF IInv, FitInv, OwnFits
  <2>7. ASSUME NEW y \in Zones, NEW u \in Threads PROVE HalfRight(u, y, c)'
    BY <2>3 DEF HalfRight
  <2> QED BY <2>5, <2>6, <2>7
<1> QED BY <1>9, <1>10, <1>11, <1>12, <1>13, <1>14, <1>15, <1>16 DEF IInv

LEMMA PcpUpdateStep ==
    ASSUME IInv, __zone_pcp_update PROVE IInv'
<1>0. PICK z : z = task[Hot].zone
  OBVIOUS
<1> DEFINE s == setup_pageset(zone_batchsize(z))
<1>1. Kinds /\ Hot \in Threads /\ task[Hot].pc = "pcp" /\ z \in Zones
  BY <1>0 DEF IInv, Threads, __zone_pcp_update, Walks, At
<1>2. Others(Hot) /\ task'[Hot].pc = "marks"
  BY <1>1, TaskGoto DEF __zone_pcp_update
<1>3. GoesOn(Hot)
  BY <1>1 DEF __zone_pcp_update, Idling, GoesOn, At
<1>4. UNCHANGED <<present, min_free, watermark, ratio, reserve, totalreserve, fraction, pset, slab, online, hot, raced, clash>>
  BY DEF __zone_pcp_update, Idling, tables, marks
<1>5. s \in Pcp /\ Fits(s)
  BY <1>1, BatchSize, SetupFits DEF Kinds
<1>6. /\ pcp' = [pcp EXCEPT ![z] = [c \in CPUs |-> IF pset[z][c] = "own" THEN s ELSE pcp[z][c]]]
      /\ boot_pageset' = [c \in CPUs |-> IF pset[z][c] = "boot" THEN s ELSE boot_pageset[c]]
      /\ \A c \in CPUs : pset[z][c] # "null"
  BY <1>0, <1>1 DEF __zone_pcp_update, Kinds
<1> HIDE DEF s
<1>7. /\ pcp' \in [Zones -> [CPUs -> Pcp]]
      /\ \A c \in CPUs : pcp'[z][c] = IF pset[z][c] = "own" THEN s ELSE pcp[z][c]
      /\ \A y \in Zones \ {z}, c \in CPUs : pcp'[y][c] = pcp[y][c]
      /\ boot_pageset' \in [CPUs -> Pcp]
  BY <1>1, <1>5, <1>6 DEF Kinds
<1>8. Kinds'
  BY <1>1, <1>2, <1>4, <1>7 DEF Kinds, Others
<1>9. OneAtATime'
  BY <1>1, <1>2, <1>3, OneStep DEF IInv
<1>10. Walks'
  BY <1>1, <1>2, <1>4, WalksStep DEF IInv
<1>11. Reserves'
  BY <1>1, <1>2, <1>4, ReservesStep DEF IInv, At
<1>12. MarksInv'
  <2>1. SUFFICES ASSUME ~ clash' PROVE (\A y \in Zones : MarkRight(y)') /\ TotalRight' /\ \A u \in Threads : Caught(u)'
    BY DEF MarksInv
  <2>2. \A u \in Threads \ {Hot} : task'[u].pc = "idle"
    BY <1>1, <1>2, <1>3, <2>1, GoesOnAlone
  <2> QED BY <1>1, <1>2, <2>2 DEF MarkRight, TotalRight, Caught, At
<1>13. (OwnPlace /\ OwnAll /\ PagesetsOwned)'
  BY <1>4, OwnStep DEF IInv
<1>14. FitInv'
  <2>1. SUFFICES ASSUME ~ clash', NEW c \in CPUs
                 PROVE  /\ BootFits(c)'
                        /\ \A y \in Zones : OwnFits(y, c)' /\ \A u \in Threads : HalfRight(u, y, c)'
    BY DEF FitInv
  <2>2. ~ clash /\ \A u \in Threads \ {Hot} : At(u, "idle") /\ task'[u].pc = "idle"
    BY <1>1, <1>2, <1>3, <2>1, GoesOnAlone
  <2>3. \A u \in Threads : \A y, d : ~ Half(u, y, d) /\ ~ Half(u, y, d)'
    BY <1>1, <1>2, <2>2 DEF Half, At
  <2>4. \A y, d : Lacks(y, d)' => y = z \/ Lacks(y, d)
    <3>1. Populated' = Populated /\ \A y, d : Up(y, d)' <=> Up(y, d)
      BY <1>4 DEF Populated, Up, Ahead
    <3> QED BY <1>0, <1>4, <3>1 DEF Lacks, At
  <2>5. BootFits(c)'
    <3>1. CASE pset[z][c] = "boot"
      BY <3>1, <1>5, <1>6 DEF BootFits
    <3>2. CASE pset[z][c] # "boot"
      <4>1. pset[z][c] = "own"
        BY <3>2, <1>1, <1>6 DEF Kinds
      <4>2. ~ Lacks(z, c)'
        BY <4>1, <1>4 DEF Lacks
      <4>3. boot_pageset'[c] = boot_pageset[c]
        BY <3>2, <1>6
      <4> QED BY <4>2, <4>3, <2>2, <2>3, <2>4 DEF IInv, FitInv, BootFits
    <3> QED BY <3>1, <3>2
  <2>6. ASSUME NEW y \in Zones PROVE OwnFits(y, c)'
    <3>1. CASE y = z
      BY <3>1, <1>4, <1>5, <1>7 DEF OwnFits
    <3>2. CASE y # z
      BY <3>2, <1>4, <1>7, <2>2, <2>3 DEF IInv, FitInv, OwnFits
    <3> QED BY <3>1, <3>2
  <2>7. ASSUME NEW y \in Zones, NEW u \in Threads PROVE HalfRight(u, y, c)'
    BY <2>3 DEF HalfRight
  <2> QED BY <2>5, <2>6, <2>7
<1> QED BY <1>8, <1>9, <1>10, <1>11, <1>12, <1>13, <1>14 DEF IInv

-----------------------------------------------------------------------------
(* Processors come and go.                                                  *)

LEMMA HotplugStep ==
    ASSUME IInv, UNCHANGED <<tables, marks, fraction, task, clash, raced>>
    PROVE  /\ UNCHANGED <<present, min_free, watermark, ratio, reserve, totalreserve>>
           /\ OneAtATime' /\ Walks' /\ Reserves' /\ MarksInv'
           /\ Populated' = Populated
           /\ \A u, y, d : Half(u, y, d)' <=> Half(u, y, d)
<1>1. UNCHANGED <<present, min_free, watermark, ratio, reserve, totalreserve>>
  BY DEF tables, marks
<1>2. Populated' = Populated
  BY <1>1 DEF Populated
<1>3. OneAtATime'
  BY DEF IInv, OneAtATime, At
<1>4. Walks'
  BY <1>2 DEF IInv, Walks, At
<1>5. Hot \in Threads /\ Others(Hot)
  BY DEF IInv, Kinds, Others, Threads
<1>6. Reserves'
  <2>1. ASSUME NEW z \in Zones, NEW j \in ZoneTypes, EntryRight(z, j) PROVE EntryRight(z, j)'
    <3>1. Kept(ratio, z[1], z[2], j)' = Kept(ratio, z[1], z[2], j)
      BY <1>1 DEF Kept, PagesOf
    <3> QED BY <1>1, <2>1, <3>1 DEF EntryRight, At
  <2> QED BY <1>1, <2>1 DEF IInv, Reserves
<1>7. MarksInv'
  <2>1. PagesOf(Lowmem)' = PagesOf(Lowmem) /\ TotalReserve' = TotalReserve
    BY <1>1 DEF PagesOf, TotalReserve
  <2>2. \A z \in Zones : Marks(z, min_free, PagesOf(Lowmem))' = Marks(z, min_free, PagesOf(Lowmem))
    BY <1>1, <2>1 DEF Marks
  <2>3. ASSUME NEW z \in Zones, MarkRight(z) PROVE MarkRight(z)'
    BY <1>1, <2>1, <2>2, <2>3 DEF MarkRight, At
  <2>4. TotalRight => TotalRight'
    BY <1>1, <2>1 DEF TotalRight
  <2>5. ASSUME NEW u \in Threads, Caught(u) PROVE Caught(u)'
    BY <1>1, <2>1, <2>5 DEF Caught, At
  <2> QED BY <2>3, <2>4, <2>5 DEF IInv, MarksInv
<1>8. \A u, y, d : Half(u, y, d)' <=> Half(u, y, d)
  BY DEF Half, At
<1> QED BY <1>1, <1>2, <1>3, <1>4, <1>6, <1>7, <1>8

\* A processor that is not up, and whose pagesets are only given back: the
\* numbers stay as they are, and nobody new has to do without a pageset.
LEMMA FitHotplug ==
    ASSUME IInv, UNCHANGED <<tables, marks, fraction, task, clash, raced, pcp, boot_pageset>>,
           NEW c \in CPUs,
           \A z \in Zones : pset'[z][c] = "own" => pset[z][c] = "own",
           \A z \in Zones, d \in CPUs \ {c} : pset'[z][d] = pset[z][d],
           c \notin online', \A d \in CPUs \ {c} : d \in online' <=> d \in online,
           \A z \in Zones : ~ Lacks(z, c)',
           \A z \in Zones, d \in CPUs \ {c} : Lacks(z, d)' => Lacks(z, d)
    PROVE  FitInv'
<1>1. /\ UNCHANGED present
      /\ \A u, y, d : Half(u, y, d)' <=> Half(u, y, d)
  BY HotplugStep
<1>2. SUFFICES ASSUME ~ clash', NEW d \in CPUs
               PROVE  /\ BootFits(d)'
                      /\ \A y \in Zones : OwnFits(y, d)' /\ \A u \in Threads : HalfRight(u, y, d)'
  BY DEF FitInv
<1>3. /\ BootFits(d)
      /\ \A y \in Zones : OwnFits(y, d) /\ \A u \in Threads : HalfRight(u, y, d)
  BY <1>2 DEF IInv, FitInv
<1>4. BootFits(d)'
  <2>1. CASE d = c
    BY <2>1 DEF BootFits
  <2>2. CASE d # c
    BY <2>2, <1>1, <1>3 DEF BootFits
  <2> QED BY <2>1, <2>2
<1>5. ASSUME NEW y \in Zones PROVE OwnFits(y, d)'
  <2>1. pset'[y][d] = "own" => pset[y][d] = "own"
    OBVIOUS
  <2> QED BY <2>1, <1>1, <1>3 DEF OwnFits
<1>6. ASSUME NEW y \in Zones, NEW u \in Threads PROVE HalfRight(u, y, d)'
  <2>1. CASE d = c
    BY <2>1, <1>1, <1>3 DEF HalfRight
  <2>2. CASE d # c
    BY <2>2, <1>1, <1>3 DEF HalfRight
  <2> QED BY <2>1, <2>2
<1> QED BY <1>4, <1>5, <1>6

LEMMA UpPrepareStep ==
    ASSUME IInv, NEW c \in CPUs, CpuUpPrepare(c) PROVE IInv'
<1>1. /\ UNCHANGED <<tables, marks, fraction, pset, pcp, boot_pageset, slab, online, task, clash, raced>>
      /\ hot' = [on |-> TRUE, cpu |-> c, at |-> 1] /\ c \notin online /\ ~ hot.on
  BY DEF CpuUpPrepare
<1>2. /\ UNCHANGED <<present, min_free, watermark, ratio, reserve, totalreserve>>
      /\ OneAtATime' /\ Walks' /\ Reserves' /\ MarksInv' /\ Populated' = Populated
  BY <1>1, HotplugStep
<1>3. Kinds'
  <2>1. hot' \in [on : BOOLEAN, cpu : CPUs, at : 1 .. Len(ZoneSeq) + 1]
    BY <1>1, ZoneSeqShape
  <2> QED BY <1>1, <1>2, <2>1 DEF IInv, Kinds
<1>4. hot'.on /\ hot'.cpu = c /\ hot'.at = 1
  BY <1>1
<1>5. OwnPlace' /\ OwnAll' /\ PagesetsOwned'
  <2>1. \A z \in Zones : pset[z][c] # "own"
    BY <1>1 DEF IInv, OwnPlace
  <2> QED BY <1>1, <1>2, <1>4, <2>1 DEF IInv, OwnPlace, OwnAll, PagesetsOwned
<1>6. FitInv'
  <2>1. \A z \in Zones : Ahead(z)'
    BY <1>4, ZoneSeqAll DEF Ahead
  <2>2. \A z \in Zones : ~ Lacks(z, c)'
    BY <1>1, <1>4, <2>1 DEF Lacks, Up
  <2>3. \A z \in Zones, d \in CPUs \ {c} : Lacks(z, d)' => Lacks(z, d)
    BY <1>1, <1>2, <1>4 DEF Lacks, Up, At
  <2> QED BY <1>1, <2>2, <2>3, FitHotplug
<1> QED BY <1>2, <1>3, <1>5, <1>6 DEF IInv

LEMMA HotFacts ==
    ASSUME IInv, hot.on, hot.at <= Len(ZoneSeq)
    PROVE  /\ hot.cpu \in CPUs /\ hot.at \in 1 .. Len(ZoneSeq) /\ HotZone \in Zones
           /\ hot.cpu \notin online /\ pset[HotZone][hot.cpu] # "own"
           /\ \A i \in 1 .. hot.at - 1 : ZoneSeq[i] # HotZone
<1>1. hot.cpu \in CPUs /\ hot.at \in 1 .. Len(ZoneSeq) /\ HotZone \in Zones /\ hot.cpu \notin online
  BY ZoneSeqShape DEF IInv, Kinds, HotZone, OwnPlace
<1>2. \A i \in 1 .. hot.at - 1 : ZoneSeq[i] # HotZone
  <2>1. SUFFICES ASSUME NEW i \in 1 .. hot.at - 1, ZoneSeq[i] = HotZone PROVE FALSE
    OBVIOUS
  <2>2. i \in 1 .. Len(ZoneSeq) /\ i # hot.at
    BY <1>1, ZoneSeqShape
  <2> QED BY <1>1, <2>1, <2>2, ZoneSeqOnce DEF HotZone
<1> QED BY <1>1, <1>2 DEF IInv, OwnPlace

LEMMA ProcessStep ==
    ASSUME IInv, process_zones PROVE IInv'
<1>0. PICK c, h : c = hot.cpu /\ h = HotZone
  OBVIOUS
<1>1. /\ UNCHANGED <<tables, marks, fraction, boot_pageset, online, task, clash, raced>>
      /\ hot.on /\ hot.at <= Len(ZoneSeq) /\ hot' = [hot EXCEPT !.at = @ + 1]
  BY DEF process_zones, Idling
<1>2. /\ UNCHANGED <<present, min_free, watermark, ratio, reserve, totalreserve>>
      /\ OneAtATime' /\ Walks' /\ Reserves' /\ MarksInv' /\ Populated' = Populated
      /\ \A u, y, d : Half(u, y, d)' <=> Half(u, y, d)
  BY <1>1, HotplugStep
<1>3. /\ c \in CPUs /\ hot.at \in 1 .. Len(ZoneSeq) /\ h \in Zones
      /\ c \notin online /\ pset[h][c] # "own" /\ h = ZoneSeq[hot.at]
      /\ \A i \in 1 .. hot.at - 1 : ZoneSeq[i] # h
  BY <1>0, <1>1, HotFacts DEF HotZone
<1>4. /\ hot'.on /\ hot'.cpu = c /\ hot'.at = hot.at + 1
      /\ hot' \in [on : BOOLEAN, cpu : CPUs, at : 1 .. Len(ZoneSeq) + 1]
  <2>1. hot \in [on : BOOLEAN, cpu : CPUs, at : 1 .. Len(ZoneSeq) + 1]
    BY DEF IInv, Kinds
  <2>2. hot.at + 1 \in 1 .. Len(ZoneSeq) + 1
    BY <1>3, ZoneSeqShape
  <2>3. hot' = [hot EXCEPT !.at = hot.at + 1]
    BY <1>1
  <2> QED BY <1>0, <1>1, <2>1, <2>2, <2>3
<1>5. NewPageset(h) \in Pcp /\ Fits(NewPageset(h))
      /\ (fraction > 0 => NewPageset(h).high = present[h] \div fraction)
  BY <1>3, NewFits DEF IInv, Kinds
<1>6. /\ pset' \in [Zones -> [CPUs -> {"own", "boot", "null"}]]
      /\ pcp' \in [Zones -> [CPUs -> Pcp]] /\ slab' \in [Zones -> [CPUs -> Int]]
      /\ h \in Populated => pset'[h][c] = "own" /\ pcp'[h][c] = NewPageset(h) /\ slab'[h][c] = slab[h][c] + 1
      /\ h \notin Populated => pset'[h][c] = pset[h][c] /\ pcp'[h][c] = pcp[h][c] /\ slab'[h][c] = slab[h][c]
      /\ \A y \in Zones, d \in CPUs : y # h \/ d # c =>
            pset'[y][d] = pset[y][d] /\ pcp'[y][d] = pcp[y][d] /\ slab'[y][d] = slab[y][d]
  <2>1. CASE h \in Populated
    <3>1. /\ pset' = [pset EXCEPT ![h][c] = "own"] /\ pcp' = [pcp EXCEPT ![h][c] = NewPageset(h)]
          /\ slab' = [slab EXCEPT ![h][c] = slab[h][c] + 1]
      BY <1>0, <1>3, <2>1 DEF process_zones, IInv, Kinds
    <3> QED BY <2>1, <3>1, <1>3, <1>5 DEF IInv, Kinds
  <2>2. CASE h \notin Populated
    BY <1>0, <2>2 DEF process_zones, IInv, Kinds
  <2> QED BY <2>1, <2>2
<1>7. Kinds'
  BY <1>1, <1>2, <1>4, <1>6 DEF IInv, Kinds
<1>8. OwnPlace'
  <2>1. ASSUME NEW y \in Zones, NEW d \in CPUs, pset'[y][d] = "own"
        PROVE  y \in Populated' /\ (d \in online' \/ (hot'.on /\ hot'.cpu = d))
    <3>1. CASE y = h /\ d = c
      BY <3>1, <2>1, <1>2, <1>3, <1>4, <1>6
    <3>2. CASE y # h \/ d # c
      <4>1. pset[y][d] = "own"
        BY <3>2, <2>1, <1>6
      <4>2. y \in Populated /\ (d \in online \/ (hot.on /\ hot.cpu = d))
        BY <4>1 DEF IInv, OwnPlace
      <4> QED BY <4>2, <1>0, <1>1, <1>2, <1>4
    <3> QED BY <3>1, <3>2
  <2>2. ASSUME NEW y \in Zones, pset'[y][c] = "own" PROVE \E i \in 1 .. hot'.at - 1 : y = ZoneSeq[i]
    <3>1. hot'.at - 1 = hot.at
      BY <1>3, <1>4
    <3>2. CASE y = h
      BY <3>1, <3>2, <1>3
    <3>3. CASE y # h
      <4>1. PICK i \in 1 .. hot.at - 1 : y = ZoneSeq[i]
        <5>1. pset[y][c] = "own"
          BY <3>3, <2>2, <1>3, <1>6
        <5> QED BY <5>1, <1>0, <1>1 DEF IInv, OwnPlace
      <4> QED BY <4>1, <3>1, <1>3
    <3> QED BY <3>2, <3>3
  <2> QED BY <2>1, <2>2, <1>1, <1>3, <1>4 DEF OwnPlace
<1>9. OwnAll'
  <2>1. SUFFICES ASSUME ~ raced, NEW i \in 1 .. hot'.at - 1, ZoneSeq[i] \in Populated
                 PROVE  pset'[ZoneSeq[i]][c] = "own"
    BY <1>1, <1>2, <1>4 DEF OwnAll
  <2>2. CASE i = hot.at
    BY <2>1, <2>2, <1>3, <1>6
  <2>3. CASE i # hot.at
    <3>1. i \in 1 .. hot.at - 1 /\ ZoneSeq[i] \in Zones
      BY <2>3, <1>3, <1>4, ZoneSeqShape
    <3>2. pset[ZoneSeq[i]][c] = "own"
      BY <3>1, <2>1, <1>0, <1>1 DEF IInv, OwnAll
    <3> QED BY <3>1, <3>2, <1>3, <1>6
  <2> QED BY <2>2, <2>3
<1>10. PagesetsOwned'
  <2>1. SUFFICES ASSUME ~ raced, NEW y \in Zones, NEW d \in CPUs
                 PROVE  slab'[y][d] = IF pset'[y][d] = "own" THEN 1 ELSE 0
    BY <1>1 DEF PagesetsOwned
  <2>2. slab[y][d] = IF pset[y][d] = "own" THEN 1 ELSE 0
    BY <2>1 DEF IInv, PagesetsOwned
  <2>3. CASE y = h /\ d = c
    BY <2>2, <2>3, <1>3, <1>6
  <2>4. CASE y # h \/ d # c
    BY <2>2, <2>4, <1>6
  <2> QED BY <2>3, <2>4
<1>11. FitInv'
  <2>1. SUFFICES ASSUME ~ clash', NEW d \in CPUs
                 PROVE  /\ BootFits(d)'
                        /\ \A y \in Zones : OwnFits(y, d)' /\ \A u \in Threads : HalfRight(u, y, d)'
    BY DEF FitInv
  <2>2. /\ BootFits(d)
        /\ \A y \in Zones : OwnFits(y, d) /\ \A u \in Threads : HalfRight(u, y, d)
    BY <1>1, <2>1 DEF IInv, FitInv
  <2>3. ASSUME NEW y \in Zones, y # h PROVE Ahead(y)' <=> Ahead(y)
    <3>1. ASSUME NEW i \in hot.at .. Len(ZoneSeq), y = ZoneSeq[i] PROVE Ahead(y)'
      <4>1. i \in hot'.at .. Len(ZoneSeq)
        BY <3>1, <2>3, <1>3, <1>4, ZoneSeqShape
      <4> QED BY <4>1, <3>1 DEF Ahead
    <3>2. ASSUME NEW i \in hot'.at .. Len(ZoneSeq), y = ZoneSeq[i] PROVE Ahead(y)
      <4>1. i \in hot.at .. Len(ZoneSeq)
        BY <1>3, <1>4, ZoneSeqShape
      <4> QED BY <4>1, <3>2 DEF Ahead
    <3> QED BY <3>1, <3>2 DEF Ahead
  <2>4. ASSUME NEW y \in Zones, Lacks(y, d)' PROVE Lacks(y, d)
    <3>1. CASE d # c
      BY <3>1, <2>4, <1>0, <1>1, <1>2, <1>4, <1>6 DEF Lacks, Up, At
    <3>2. CASE d = c
      <4>1. y # h
        BY <3>2, <2>4, <1>2, <1>6 DEF Lacks
      <4> QED BY <4>1, <3>2, <2>3, <2>4, <1>0, <1>1, <1>2, <1>4, <1>6 DEF Lacks, Up, At
    <3> QED BY <3>1, <3>2
  <2>5. BootFits(d)'
    <3>1. d \in online => \A y \in Zones : pset'[y][d] = pset[y][d]
      BY <1>3, <1>6
    <3> QED BY <3>1, <1>1, <1>2, <2>2, <2>4 DEF BootFits
  <2>6. ASSUME NEW y \in Zones PROVE OwnFits(y, d)'
    <3>1. CASE y = h /\ d = c
      BY <3>1, <1>3, <1>5, <1>6 DEF OwnFits
    <3>2. CASE y # h \/ d # c
      BY <3>2, <1>2, <1>6, <2>2 DEF OwnFits
    <3> QED BY <3>1, <3>2
  <2>7. ASSUME NEW y \in Zones, NEW u \in Threads PROVE HalfRight(u, y, d)'
    <3>1. SUFFICES ASSUME Half(u, y, d)' PROVE HalfRight(u, y, d)'
      BY DEF HalfRight
    <3>2. /\ task[u].min = present[y] \div fraction
          /\ pset[y][d] = "own" => pcp[y][d].high = task[u].min
          /\ pset[y][d] # "own" /\ d \in online => boot_pageset[d].high = task[u].min
          /\ d \notin online => \A x \in Zones : ~ Lacks(x, d)
      BY <3>1, <1>2, <2>2 DEF HalfRight
    <3>3. fraction > 0
      BY <3>1, <1>2 DEF IInv, Walks, Half, At
    <3>4. pset'[y][d] = "own" => pcp'[y][d].high = task[u].min
      <4>1. CASE y = h /\ d = c
        BY <4>1, <3>2, <3>3, <1>3, <1>5, <1>6
      <4>2. CASE y # h \/ d # c
        BY <4>2, <3>2, <1>6
      <4> QED BY <4>1, <4>2
    <3>5. pset'[y][d] # "own" /\ d \in online => boot_pageset[d].high = task[u].min
      BY <3>2, <1>3, <1>6
    <3> QED BY <3>2, <3>4, <3>5, <2>4, <1>1, <1>2 DEF HalfRight
  <2> QED BY <2>5, <2>6, <2>7
<1> QED BY <1>2, <1>7, <1>8, <1>9, <1>10, <1>11 DEF IInv

\* Nobody comes up any more, and who does without a pageset did so before.
LEMMA NoneComesUp ==
    ASSUME IInv, NEW c \in CPUs, UNCHANGED <<tables, task>>, ~ hot'.on, c \notin online',
           \A d \in CPUs \ {c} : d \in online' => d \in online,
           \A z \in Zones, d \in CPUs \ {c} : pset'[z][d] = pset[z][d]
    PROVE  /\ \A z \in Zones : ~ Lacks(z, c)'
           /\ \A z \in Zones, d \in CPUs \ {c} : Lacks(z, d)' => Lacks(z, d)
<1>1. Populated' = Populated
  BY DEF tables, Populated
<1> QED BY <1>1 DEF Lacks, Up, At

LEMMA BadStep ==
    ASSUME IInv, ProcessZonesBad PROVE IInv'
<1>0. PICK c, h : c = hot.cpu /\ h = HotZone
  OBVIOUS
<1> DEFINE before == {z \in Populated : \E i \in 1 .. hot.at - 1 : z = ZoneSeq[i]}
<1>1. /\ UNCHANGED <<tables, marks, fraction, pcp, boot_pageset, online, task, clash, raced>>
      /\ hot.on /\ hot.at <= Len(ZoneSeq) /\ hot' = NoCPU
  BY DEF ProcessZonesBad, Idling
<1>2. /\ UNCHANGED <<present, min_free, watermark, ratio, reserve, totalreserve>>
      /\ OneAtATime' /\ Walks' /\ Reserves' /\ MarksInv' /\ Populated' = Populated
  BY <1>1, HotplugStep
<1>3. /\ c \in CPUs /\ h \in Zones /\ c \notin online /\ pset[h][c] # "own" /\ h \notin before
  BY <1>0, <1>1, HotFacts
<1>4. /\ pset' = [z \in Zones |-> [pset[z] EXCEPT ![c] =
                     IF z = h THEN "null" ELSE IF z \in before THEN "boot" ELSE pset[z][c]]]
      /\ slab' = [z \in Zones |-> [slab[z] EXCEPT ![c] = IF z \in before THEN slab[z][c] - 1 ELSE slab[z][c]]]
  BY <1>0, <1>3 DEF ProcessZonesBad, IInv, Kinds
<1>5. \A z \in Zones : pset[z][c] = "own" => z \in before
  BY <1>0, <1>1, <1>3 DEF IInv, OwnPlace
<1>6. ~ raced => \A z \in before : pset[z][c] = "own"
  BY <1>0, <1>1 DEF IInv, OwnAll
<1>7. before \subseteq Zones
  BY DEF Populated
<1> HIDE DEF before
<1>8. /\ pset' \in [Zones -> [CPUs -> {"own", "boot", "null"}]] /\ slab' \in [Zones -> [CPUs -> Int]]
      /\ \A z \in Zones : pset'[z][c] = IF z = h THEN "null" ELSE IF z \in before THEN "boot" ELSE pset[z][c]
      /\ \A z \in Zones : slab'[z][c] = IF z \in before THEN slab[z][c] - 1 ELSE slab[z][c]
      /\ \A z \in Zones, d \in CPUs \ {c} : pset'[z][d] = pset[z][d] /\ slab'[z][d] = slab[z][d]
  <2>1. pset \in [Zones -> [CPUs -> {"own", "boot", "null"}]] /\ slab \in [Zones -> [CPUs -> Int]]
    BY DEF IInv, Kinds
  <2> QED BY <2>1, <1>3, <1>4
<1>9. \A z \in Zones : pset'[z][c] # "own"
  BY <1>5, <1>8
<1>10. hot' \in [on : BOOLEAN, cpu : CPUs, at : 1 .. Len(ZoneSeq) + 1] /\ ~ hot'.on
  BY <1>1, ZoneSeqShape, MachineAssumption DEF NoCPU
<1>11. Kinds'
  BY <1>1, <1>2, <1>8, <1>10 DEF IInv, Kinds
<1>12. OwnPlace' /\ OwnAll'
  <2>1. ASSUME NEW y \in Zones, NEW d \in CPUs, pset'[y][d] = "own"
        PROVE  y \in Populated' /\ d \in online'
    <3>1. d # c /\ pset[y][d] = "own"
      BY <2>1, <1>8, <1>9
    <3>2. y \in Populated /\ (d \in online \/ hot.cpu = d)
      BY <3>1 DEF IInv, OwnPlace
    <3> QED BY <3>1, <3>2, <1>0, <1>1, <1>2
  <2> QED BY <2>1, <1>10 DEF OwnPlace, OwnAll
<1>13. PagesetsOwned'
  <2>1. SUFFICES ASSUME ~ raced, NEW y \in Zones, NEW d \in CPUs
                 PROVE  slab'[y][d] = IF pset'[y][d] = "own" THEN 1 ELSE 0
    BY <1>1 DEF PagesetsOwned
  <2>2. slab[y][d] = IF pset[y][d] = "own" THEN 1 ELSE 0
    BY <2>1 DEF IInv, PagesetsOwned
  <2>3. CASE d = c
    BY <2>1, <2>2, <2>3, <1>5, <1>6, <1>8, <1>9
  <2>4. CASE d # c
    BY <2>2, <2>4, <1>8
  <2> QED BY <2>3, <2>4
<1>14. FitInv'
  <2>1. /\ c \notin online' /\ (\A d \in CPUs \ {c} : d \in online' <=> d \in online)
        /\ \A z \in Zones, d \in CPUs \ {c} : pset'[z][d] = pset[z][d]
        /\ \A z \in Zones : pset'[z][c] = "own" => pset[z][c] = "own"
    BY <1>1, <1>3, <1>8, <1>9
  <2>2. /\ \A z \in Zones : ~ Lacks(z, c)'
        /\ \A z \in Zones, d \in CPUs \ {c} : Lacks(z, d)' => Lacks(z, d)
    BY <1>1, <1>3, <1>10, <2>1, NoneComesUp
  <2> QED BY <1>1, <1>3, <2>1, <2>2, FitHotplug
<1> QED BY <1>2, <1>11, <1>12, <1>13, <1>14 DEF IInv

LEMMA CpuOnlineStep ==
    ASSUME IInv, CpuOnline PROVE IInv'
<1>0. PICK c : c = hot.cpu
  OBVIOUS
<1>1. /\ UNCHANGED <<tables, marks, fraction, pset, pcp, boot_pageset, slab, task, clash, raced>>
      /\ hot.on /\ hot.at > Len(ZoneSeq) /\ hot' = NoCPU /\ online' = online \cup {c}
  BY <1>0 DEF CpuOnline, Idling
<1>2. /\ UNCHANGED <<present, min_free, watermark, ratio, reserve, totalreserve>>
      /\ OneAtATime' /\ Walks' /\ Reserves' /\ MarksInv' /\ Populated' = Populated
      /\ \A u, y, d : Half(u, y, d)' <=> Half(u, y, d)
  BY <1>1, HotplugStep
<1>3. c \in CPUs /\ c \notin online
  BY <1>0, <1>1 DEF IInv, Kinds, OwnPlace
<1>4. hot' \in [on : BOOLEAN, cpu : CPUs, at : 1 .. Len(ZoneSeq) + 1] /\ ~ hot'.on
  BY <1>1, ZoneSeqShape, MachineAssumption DEF NoCPU
<1>5. Kinds'
  BY <1>1, <1>2, <1>3, <1>4 DEF IInv, Kinds
<1>6. OwnPlace' /\ OwnAll' /\ PagesetsOwned'
  BY <1>0, <1>1, <1>2, <1>4 DEF IInv, OwnPlace, OwnAll, PagesetsOwned
<1>7. FitInv'
  <2>1. SUFFICES ASSUME ~ clash', NEW d \in CPUs
                 PROVE  /\ BootFits(d)'
                        /\ \A y \in Zones : OwnFits(y, d)' /\ \A u \in Threads : HalfRight(u, y, d)'
    BY DEF FitInv
  <2>2. /\ BootFits(d)
        /\ \A y \in Zones : OwnFits(y, d) /\ \A u \in Threads : HalfRight(u, y, d)
    BY <1>1, <2>1 DEF IInv, FitInv
  <2>3. \A y : ~ Ahead(y)
    <3>1. hot.at \in Int /\ Len(ZoneSeq) \in Int
      BY ZoneSeqShape DEF IInv, Kinds
    <3> QED BY <3>1, <1>1 DEF Ahead
  <2>4. \A y \in Zones : Lacks(y, d)' <=> Lacks(y, d)
    BY <1>0, <1>1, <1>2, <1>4, <2>3 DEF Lacks, Up, At
  <2>5. BootFits(d)'
    BY <1>1, <1>2, <2>2, <2>4 DEF BootFits
  <2>6. ASSUME NEW y \in Zones PROVE OwnFits(y, d)'
    BY <1>1, <1>2, <2>2 DEF OwnFits
  <2>7. ASSUME NEW y \in Zones, NEW u \in Threads PROVE HalfRight(u, y, d)'
    <3>1. SUFFICES ASSUME Half(u, y, d) PROVE HalfRight(u, y, d)'
      BY <1>2 DEF HalfRight
    <3>2. CASE d # c
      BY <3>1, <3>2, <1>1, <1>2, <2>2, <2>4 DEF HalfRight
    <3>3. CASE d = c
      <4>1. u \in Writers /\ y \in Populated /\ At(u, "batch")
        BY <3>1 DEF IInv, Walks, Half
      <4>2. Hot # u /\ Hot \in Threads
        BY <4>1, MachineAssumption DEF Hot, Threads
      <4>3. task[Hot].pc = "idle"
        BY <4>1, <4>2, <1>1, <2>1 DEF IInv, OneAtATime, At
      <4>4. ~ Lacks(y, d)
        BY <3>1, <3>3, <1>3, <2>2 DEF HalfRight
      <4>5. pset[y][d] = "own"
        BY <4>1, <4>3, <4>4, <3>3, <1>0, <1>1, <2>3 DEF Lacks, Up, At
      <4> QED BY <3>1, <3>3, <4>5, <1>1, <1>2, <2>2 DEF HalfRight
    <3> QED BY <3>2, <3>3
  <2> QED BY <2>5, <2>6, <2>7
<1> QED BY <1>2, <1>5, <1>6, <1>7 DEF IInv

\* The pagesets of c are given back, and c is not up.
LEMMA FreeStep ==
    ASSUME IInv, NEW c \in CPUs, free_zone_pagesets(c),
           UNCHANGED <<tables, marks, fraction, pcp, boot_pageset, task, clash, raced>>,
           online' = online \ {c}, hot.on => hot.cpu = c,
           hot' \in [on : BOOLEAN, cpu : CPUs, at : 1 .. Len(ZoneSeq) + 1], ~ hot'.on
    PROVE  IInv'
<1>1. /\ UNCHANGED <<present, min_free, watermark, ratio, reserve, totalreserve>>
      /\ OneAtATime' /\ Walks' /\ Reserves' /\ MarksInv' /\ Populated' = Populated
  BY HotplugStep
<1>2. /\ pset' \in [Zones -> [CPUs -> {"own", "boot", "null"}]] /\ slab' \in [Zones -> [CPUs -> Int]]
      /\ \A z \in Zones : pset'[z][c] = "boot"
      /\ \A z \in Zones : slab'[z][c] = IF pset[z][c] = "own" THEN slab[z][c] - 1 ELSE slab[z][c]
      /\ \A z \in Zones, d \in CPUs \ {c} : pset'[z][d] = pset[z][d] /\ slab'[z][d] = slab[z][d]
  <2>1. pset \in [Zones -> [CPUs -> {"own", "boot", "null"}]] /\ slab \in [Zones -> [CPUs -> Int]]
    BY DEF IInv, Kinds
  <2>2. pset' = [z \in Zones |-> [pset[z] EXCEPT ![c] = "boot"]]
    BY DEF free_zone_pagesets
  <2>3. slab' = [z \in Zones |-> [slab[z] EXCEPT ![c] = IF pset[z][c] = "own" THEN slab[z][c] - 1 ELSE slab[z][c]]]
    BY DEF free_zone_pagesets
  <2> QED BY <2>1, <2>2, <2>3
<1>3. Kinds'
  BY <1>1, <1>2 DEF IInv, Kinds
<1>4. OwnPlace' /\ OwnAll'
  <2>1. ASSUME NEW y \in Zones, NEW d \in CPUs, pset'[y][d] = "own"
        PROVE  y \in Populated' /\ d \in online'
    <3>1. d # c /\ pset[y][d] = "own"
      BY <2>1, <1>2
    <3>2. y \in Populated /\ (d \in online \/ (hot.on /\ hot.cpu = d))
      BY <3>1 DEF IInv, OwnPlace
    <3> QED BY <3>1, <3>2, <1>1
  <2> QED BY <2>1 DEF OwnPlace, OwnAll
<1>5. PagesetsOwned'
  <2>1. SUFFICES ASSUME ~ raced, NEW y \in Zones, NEW d \in CPUs
                 PROVE  slab'[y][d] = IF pset'[y][d] = "own" THEN 1 ELSE 0
    BY DEF PagesetsOwned
  <2>2. slab[y][d] = IF pset[y][d] = "own" THEN 1 ELSE 0
    BY <2>1 DEF IInv, PagesetsOwned
  <2>3. CASE d = c
    BY <2>2, <2>3, <1>2
  <2>4. CASE d # c
    BY <2>2, <2>4, <1>2
  <2> QED BY <2>3, <2>4
<1>6. FitInv'
  <2>1. /\ c \notin online' /\ (\A d \in CPUs \ {c} : d \in online' <=> d \in online)
        /\ \A z \in Zones, d \in CPUs \ {c} : pset'[z][d] = pset[z][d]
        /\ \A z \in Zones : pset'[z][c] = "own" => pset[z][c] = "own"
    BY <1>2
  <2>2. /\ \A z \in Zones : ~ Lacks(z, c)'
        /\ \A z \in Zones, d \in CPUs \ {c} : Lacks(z, d)' => Lacks(z, d)
    BY <2>1, NoneComesUp
  <2> QED BY <2>1, <2>2, FitHotplug
<1> QED BY <1>1, <1>3, <1>4, <1>5, <1>6 DEF IInv

LEMMA CanceledStep ==
    ASSUME IInv, CpuUpCanceled PROVE IInv'
<1>0. PICK c : c = hot.cpu
  OBVIOUS
<1>1. /\ UNCHANGED <<tables, marks, fraction, pcp, boot_pageset, online, task, clash, raced>>
      /\ hot.on /\ free_zone_pagesets(c) /\ hot' = NoCPU
  BY <1>0 DEF CpuUpCanceled, Idling
<1>2. c \in CPUs /\ online' = online \ {c}
  BY <1>0, <1>1 DEF IInv, Kinds, OwnPlace
<1>3. hot' \in [on : BOOLEAN, cpu : CPUs, at : 1 .. Len(ZoneSeq) + 1] /\ ~ hot'.on
  BY <1>1, ZoneSeqShape, MachineAssumption DEF NoCPU
<1> QED BY <1>0, <1>1, <1>2, <1>3, FreeStep

LEMMA DeadStep ==
    ASSUME IInv, NEW c \in CPUs, CpuDead(c) PROVE IInv'
<1>1. /\ UNCHANGED <<tables, marks, fraction, pcp, boot_pageset, hot, task, clash, raced>>
      /\ ~ hot.on /\ free_zone_pagesets(c) /\ online' = online \ {c}
  BY DEF CpuDead
<1>2. hot' \in [on : BOOLEAN, cpu : CPUs, at : 1 .. Len(ZoneSeq) + 1] /\ ~ hot'.on
  BY <1>1 DEF IInv, Kinds
<1> QED BY <1>1, <1>2, FreeStep

-----------------------------------------------------------------------------
(* The theorems.                                                            *)

LEMMA InitInv ==
    ASSUME Init PROVE IInv
<1>1. /\ present = [z \in Zones |-> Boot[z[1]][z[2]]]
      /\ watermark = [z \in Zones |-> Marks(z, boot_min, PagesOf(Lowmem))] /\ min_free = boot_min
      /\ ratio = [i \in Ratio |-> 4]
      /\ reserve = [z \in Zones |-> [j \in ZoneTypes |-> Kept(ratio, z[1], z[2], j)]]
      /\ totalreserve = TotalReserve /\ fraction = 0
      /\ pset = [z \in Zones |-> [c \in CPUs |-> IF c = cpu0 /\ z \in Populated THEN "own" ELSE "boot"]]
      /\ pcp = [z \in Zones |-> [c \in CPUs |-> setup_pageset(zone_batchsize(z))]]
      /\ boot_pageset = [c \in CPUs |-> setup_pageset(0)]
      /\ slab = [z \in Zones |-> [c \in CPUs |-> IF pset[z][c] = "own" THEN 1 ELSE 0]]
      /\ online = {cpu0} /\ hot = NoCPU /\ task = [t \in Threads |-> Idle]
      /\ clash = FALSE /\ raced = FALSE
  BY DEF Init
<1>2. present \in [Zones -> Nat]
  BY <1>1, MachineAssumption DEF Zones
<1>3. IsTask(Idle) /\ Idle.pc = "idle"
  BY DEF Idle, IsTask, Places
<1>4. \A t \in Threads : task[t] = Idle
  BY <1>1
<1>5. \A z \in Zones, c \in CPUs : pcp[z][c] \in Pcp /\ Fits(pcp[z][c])
  BY <1>1, <1>2, BatchSize, SetupFits
<1>6. \A c \in CPUs : boot_pageset[c] \in Pcp /\ Fits(boot_pageset[c])
  BY <1>1, SetupFits
<1>7. hot \in [on : BOOLEAN, cpu : CPUs, at : 1 .. Len(ZoneSeq) + 1] /\ ~ hot.on
  BY <1>1, ZoneSeqShape, MachineAssumption DEF NoCPU
<1>8. Kinds
  <2>1. pcp \in [Zones -> [CPUs -> Pcp]] /\ boot_pageset \in [CPUs -> Pcp]
    BY <1>1, <1>5, <1>6
  <2>2. watermark = [z \in Zones |-> watermark[z]]
    BY <1>1
  <2>3. reserve = [z \in Zones |-> [j \in ZoneTypes |-> reserve[z][j]]]
    BY <1>1
  <2>4. ratio \in [Ratio -> Nat]
    BY <1>1
  <2>5. pset \in [Zones -> [CPUs -> {"own", "boot", "null"}]] /\ slab \in [Zones -> [CPUs -> Int]]
    BY <1>1
  <2>6. task = [t \in Threads |-> task[t]] /\ \A t \in Threads : IsTask(task[t])
    BY <1>1, <1>3, <1>4
  <2> QED BY <1>1, <1>2, <1>7, <2>1, <2>2, <2>3, <2>4, <2>5, <2>6, MachineAssumption DEF Kinds
<1>9. OneAtATime /\ Walks
  BY <1>3, <1>4 DEF OneAtATime, Walks, At
<1>10. Reserves
  BY <1>1 DEF Reserves, EntryRight
<1>11. MarksInv
  BY <1>1, <1>3, <1>4 DEF MarksInv, MarkRight, TotalRight, Caught, At
<1>12. OwnPlace /\ OwnAll /\ PagesetsOwned
  BY <1>1, <1>7 DEF OwnPlace, OwnAll, PagesetsOwned
<1>13. FitInv
  BY <1>3, <1>4, <1>5, <1>6 DEF FitInv, BootFits, OwnFits, HalfRight, Half, At
<1> QED BY <1>8, <1>9, <1>10, <1>11, <1>12, <1>13 DEF IInv

LEMMA NextInv ==
    ASSUME IInv, [Next]_vars PROVE IInv'
<1>1. ASSUME NEW w \in Writers, Handler(w) PROVE IInv'
  BY <1>1, WriteOrderStep, WriteMinFreeStep, WriteRatioStep, WriteFractionStep, ReadOldStep,
     ParseStep, CompareStep, LowmemReserveStep, SetHighStep, SetBatchStep, FractionDoneStep DEF Handler
<1>2. ASSUME NEW t \in Threads, Recompute(t) PROVE IInv'
  BY <1>2, SetOrderStep, BuildStep, BeginMarksStep, WmarksStep, SumReserveStep, TotalStep DEF Recompute
<1>3. CASE \E z \in HotAdd : online_pages(z)
  BY <1>3, OnlineStep
<1>4. CASE __zone_pcp_update
  BY <1>4, PcpUpdateStep
<1>5. CASE CpuHotplug
  BY <1>5, UpPrepareStep, DeadStep, ProcessStep, BadStep, CpuOnlineStep, CanceledStep DEF CpuHotplug
<1>6. CASE UNCHANGED vars
  <2>1. /\ UNCHANGED <<tables, marks, sets, task, clash, raced>>
        /\ UNCHANGED <<fraction, pset, pcp, boot_pageset, slab, online, hot>>
    BY <1>6 DEF vars, sets
  <2>2. /\ UNCHANGED <<present, min_free, watermark, ratio, reserve, totalreserve>>
        /\ OneAtATime' /\ Walks' /\ Reserves' /\ MarksInv' /\ Populated' = Populated
        /\ \A u, y, d : Half(u, y, d)' <=> Half(u, y, d)
    BY <2>1, HotplugStep
  <2>3. Kinds'
    BY <2>1, <2>2 DEF IInv, Kinds
  <2>4. (OwnPlace /\ OwnAll /\ PagesetsOwned)'
    BY <2>1, <2>2, OwnStep DEF IInv
  <2>5. \A y, d : Lacks(y, d)' <=> Lacks(y, d)
    BY <2>1, <2>2 DEF Lacks, Up, Ahead, At
  <2>6. FitInv'
    BY <2>1, <2>2, <2>5 DEF IInv, FitInv, BootFits, OwnFits, HalfRight
  <2> QED BY <2>2, <2>3, <2>4, <2>6 DEF IInv
<1> QED BY <1>1, <1>2, <1>3, <1>4, <1>5, <1>6 DEF Next

\* The strengthened invariant holds in every state.
THEOREM Invariant == Spec => []IInv
BY InitInv, NextInv, PTL DEF Spec

\* setup_per_zone_wmarks, calculate_totalreserve_pages and
\* setup_per_zone_lowmem_reserve leave no entry with the numbers of an earlier
\* setting: the reserves follow the ratios whoever overlaps, the watermarks and
\* the total follow min_free_kbytes and the sizes if nobody does.
THEOREM TablesAreRight == Spec => []TablesFollow
<1>1. ASSUME IInv PROVE ReserveFollows
  <2>1. SUFFICES ASSUME \A t \in Threads : ~ At(t, "reserve"),
                        present = [z \in Zones |-> Boot[z[1]][z[2]]],
                        NEW z \in Zones, NEW j \in ZoneTypes, j >= z[2]
                 PROVE  reserve[z][j] = Kept(ratio, z[1], z[2], j)
    BY DEF ReserveFollows
  <2>2. EntryRight(z, j)
    BY <1>1, <2>1 DEF IInv, Reserves
  <2>3. j \in Int /\ z[2] \in Int
    BY DEF Zones, ZoneTypes
  <2> QED BY <2>1, <2>2, <2>3 DEF EntryRight
<1>2. ASSUME IInv PROVE MarksFollow
  <2>1. SUFFICES ASSUME Rest, ~ clash
                 PROVE  /\ \A z \in Zones : watermark[z] = Marks(z, min_free, PagesOf(Lowmem))
                        /\ totalreserve = TotalReserve
    BY DEF MarksFollow
  <2> QED BY <1>2, <2>1 DEF IInv, MarksInv, MarkRight, TotalRight, Rest, At
<1>3. IInv => TablesFollow
  BY <1>1, <1>2 DEF TablesFollow
<1> QED BY <1>3, Invariant, PTL

\* No pageset from the slab is lost or freed twice by process_zones and
\* free_zone_pagesets, whichever allocation fails; and a batch fits below the
\* high mark of every pageset in use, which is what the theorems about the
\* per-cpu lists suppose.
THEOREM PagesetsAreRight == Spec => []PagesetsRight
<1>1. ASSUME IInv PROVE BatchesFit
  <2>1. SUFFICES ASSUME Rest, ~ clash, NEW z \in Populated, NEW c \in online
                 PROVE  Fits(Fields(z, c))
    BY DEF BatchesFit, Fits
  <2>2. z \in Zones /\ c \in CPUs /\ Hot \in Threads
    BY <1>1 DEF IInv, Kinds, Populated, Threads
  <2>3. \A u \in Threads : \A y, d : ~ Half(u, y, d)
    BY <2>1 DEF Rest, Half, At
  <2>4. BootFits(c) /\ OwnFits(z, c)
    BY <1>1, <2>1, <2>2 DEF IInv, FitInv
  <2>5. CASE pset[z][c] = "own"
    BY <2>3, <2>4, <2>5 DEF OwnFits, Fields
  <2>6. CASE pset[z][c] # "own"
    <3>1. Lacks(z, c)
      BY <2>1, <2>2, <2>6 DEF Lacks, Up, Rest, At
    <3> QED BY <3>1, <2>2, <2>3, <2>4, <2>6 DEF BootFits, Fields
  <2> QED BY <2>5, <2>6
<1>2. IInv => PagesetsRight
  BY <1>1 DEF PagesetsRight, IInv
<1> QED BY <1>2, Invariant, PTL

-----------------------------------------------------------------------------
(* The zonelists.                                                           *)

\* The lists in use are those of the memory there is: what was built before
\* memory was added is built again before online_pages returns.
ListsCurrent == At(Hot, "idle") => lists = Lists(Populated, built)

ListsInv == OrderBuilt /\ ListsCurrent

\* A step that leaves the lists alone, by which no builder goes away and
\* online_pages does not return.
LEMMA ListsKept ==
    ASSUME ListsInv, UNCHANGED <<present, order, lists, built>>,
           \A u \in Threads : At(u, "build") => At(u, "build")',
           ~ At(Hot, "idle") => ~ At(Hot, "idle")'
    PROVE  ListsInv'
<1>1. Populated' = Populated
  BY DEF Populated
<1>2. OrderBuilt'
  BY DEF ListsInv, OrderBuilt
<1>3. Lists(Populated, built)' = Lists(Populated, built)
  BY <1>1
<1>4. ListsCurrent'
  BY <1>3 DEF ListsInv, ListsCurrent
<1> QED BY <1>2, <1>4 DEF ListsInv

\* A step of one thread that does not build; and if it is the one that adds
\* memory, it does not end.
LEMMA ListsOther ==
    ASSUME ListsInv, UNCHANGED <<present, order, lists, built>>,
           NEW t \in Threads, ~ At(t, "build"),
           \A u \in Threads \ {t} : task'[u] = task[u],
           t # Hot \/ task'[t].pc # "idle"
    PROVE  ListsInv'
<1>1. Hot \in Threads
  BY DEF Threads
<1>2. \A u \in Threads : At(u, "build") => At(u, "build")'
  BY DEF At
<1>3. ~ At(Hot, "idle") => ~ At(Hot, "idle")'
  BY <1>1 DEF At
<1> QED BY <1>2, <1>3, ListsKept

\* The sysctl handlers change settings and tables; the lists they leave to
\* build_all_zonelists.
LEMMA ListsHandler ==
    ASSUME ListsInv, Kinds, NEW w \in Writers, Handler(w) PROVE ListsInv'
<1>1. w \in Threads /\ w # Hot
  BY MachineAssumption DEF Threads, Hot
<1>2. task = [u \in Threads |-> task[u]]
  BY DEF Kinds
<1>3. UNCHANGED <<present, order, lists, built>>
  BY DEF Handler, WriteOrder, WriteMinFree, WriteRatio, WriteFraction, ReadOld,
     __parse_numa_zonelist_order, Compare, setup_per_zone_lowmem_reserve, SetHigh,
     SetBatch, FractionDone, tables
<1>4. ~ At(w, "build")
  BY DEF Handler, WriteOrder, WriteMinFree, WriteRatio, WriteFraction, Write, ReadOld,
     __parse_numa_zonelist_order, Compare, setup_per_zone_lowmem_reserve, SetHigh,
     SetBatch, FractionDone, At
<1>5. \A u \in Threads \ {w} : task'[u] = task[u]
  <2>1. \/ \E v \in Orders : WriteOrder(w, v)
        \/ \E v \in MinFree : WriteMinFree(w, v)
        \/ \E i \in Ratio, v \in Ratios : WriteRatio(w, i, v)
        \/ \E v \in Fractions : WriteFraction(w, v)
        \/ ReadOld(w) \/ __parse_numa_zonelist_order(w) \/ Compare(w)
        => \A u \in Threads \ {w} : task'[u] = task[u]
    BY <1>2 DEF WriteOrder, WriteMinFree, WriteRatio, WriteFraction, ReadOld,
       __parse_numa_zonelist_order, Compare, Goto, GotoZone, Done
  <2>2. setup_per_zone_lowmem_reserve(w) \/ SetHigh(w) \/ SetBatch(w) \/ FractionDone(w)
        => \A u \in Threads \ {w} : task'[u] = task[u]
    <3>1. setup_per_zone_lowmem_reserve(w) \/ NextPair(w) \/ FractionDone(w)
          => \A u \in Threads \ {w} : task'[u] = task[u]
      BY <1>2 DEF setup_per_zone_lowmem_reserve, NextPair, FractionDone, Done
    <3>2. SetHigh(w) => NextPair(w) \/ \E m : task' = [task EXCEPT ![w].pc = "batch", ![w].min = m]
      BY DEF SetHigh
    <3>3. SetBatch(w) => NextPair(w)
      BY DEF SetBatch
    <3> QED BY <1>2, <3>1, <3>2, <3>3
  <2> QED BY <2>1, <2>2 DEF Handler
<1> QED BY <1>1, <1>3, <1>4, <1>5, ListsOther

\* The recomputations: set_zonelist_order is followed by a build of its own
\* thread, and __build_all_zonelists makes lists and order agree, whoever has
\* set the order last.
LEMMA ListsRecompute ==
    ASSUME ListsInv, Kinds, NEW t \in Threads, Recompute(t) PROVE ListsInv'
<1>1. CASE set_zonelist_order(t)
  <2>1. Others(t) /\ task'[t].pc = "build"
    BY <1>1, TaskGoto DEF set_zonelist_order
  <2>2. UNCHANGED <<present, lists, built>> /\ At(t, "setorder")
    BY <1>1 DEF set_zonelist_order
  <2>3. OrderBuilt'
    BY <2>1 DEF OrderBuilt, At
  <2>4. Hot \in Threads /\ (~ At(Hot, "idle") => ~ At(Hot, "idle")')
    BY <2>1, <2>2 DEF At, Others, Threads
  <2>5. Populated' = Populated
    BY <2>2 DEF Populated
  <2>6. Lists(Populated, built)' = Lists(Populated, built)
    BY <2>2, <2>5
  <2>7. ListsCurrent'
    BY <2>2, <2>4, <2>6 DEF ListsInv, ListsCurrent
  <2> QED BY <2>3, <2>7 DEF ListsInv
<1>2. CASE __build_all_zonelists(t)
  <2>1. present' = present /\ order' = order /\ built' = order /\ lists' = Lists(Populated, order)
    BY <1>2 DEF __build_all_zonelists
  <2>2. Populated' = Populated
    BY <2>1 DEF Populated
  <2>3. Lists(Populated, built)' = Lists(Populated, order)
    BY <2>1, <2>2
  <2> QED BY <2>1, <2>3 DEF ListsInv, OrderBuilt, ListsCurrent
<1>3. CASE BeginMarks(t) \/ setup_per_zone_wmarks(t) \/ SumReserve(t)
             \/ calculate_totalreserve_pages(t)
  <2>1. task = [u \in Threads |-> task[u]] /\ task[t] = [f \in Places |-> task[t][f]]
    BY DEF Kinds, IsTask
  <2>2. UNCHANGED <<present, order, lists, built>> /\ ~ At(t, "build")
    BY <1>3 DEF BeginMarks, setup_per_zone_wmarks, SumReserve, calculate_totalreserve_pages,
       tables, At
  <2>3. \A u \in Threads \ {t} : task'[u] = task[u]
    BY <1>3, <2>1 DEF BeginMarks, setup_per_zone_wmarks, SumReserve,
       calculate_totalreserve_pages, Goto, Done
  <2>4. t # Hot \/ task'[t].pc # "idle"
    <3>1. CASE BeginMarks(t)
      BY <2>1, <3>1 DEF BeginMarks, Places
    <3>2. CASE setup_per_zone_wmarks(t)
      BY <2>1, <3>2 DEF setup_per_zone_wmarks, Places, At
    <3>3. CASE SumReserve(t)
      BY <2>1, <3>3 DEF SumReserve, Places
    <3>4. CASE calculate_totalreserve_pages(t)
      BY <2>1, <3>4 DEF calculate_totalreserve_pages, Goto, Places
    <3> QED BY <1>3, <3>1, <3>2, <3>3, <3>4
  <2> QED BY <2>2, <2>3, <2>4, ListsOther
<1> QED BY <1>1, <1>2, <1>3 DEF Recompute

\* Every step keeps the lists current.
LEMMA ListsStep ==
    ASSUME ListsInv, IInv, [Next]_vars PROVE ListsInv'
<1>1. Hot \in Threads /\ Kinds
  BY DEF Threads, IInv
<1>2. task = [u \in Threads |-> task[u]] /\ IsTask(task[Hot])
  BY <1>1 DEF Kinds
<1>3. ASSUME NEW z \in HotAdd, online_pages(z) PROVE ListsInv'
  <2>1. task'[Hot].pc = "pcp" /\ \A u \in Threads \ {Hot} : task'[u] = task[u]
    BY <1>1, <1>2, <1>3 DEF online_pages, IsTask, Places
  <2>2. UNCHANGED <<order, lists, built>> /\ At(Hot, "idle")
    BY <1>3 DEF online_pages
  <2> QED BY <1>1, <2>1, <2>2 DEF ListsInv, OrderBuilt, ListsCurrent, At
<1>4. CASE __zone_pcp_update
  <2>1. Others(Hot) /\ task'[Hot].pc = "marks"
    BY <1>1, <1>4, TaskGoto DEF __zone_pcp_update
  <2>2. UNCHANGED <<present, order, lists, built>> /\ At(Hot, "pcp")
    BY <1>4 DEF __zone_pcp_update, tables
  <2> QED BY <1>1, <2>1, <2>2, ListsOther DEF Others, At
<1>5. CASE CpuHotplug \/ UNCHANGED vars
  <2>1. UNCHANGED <<present, order, lists, built, task>>
    BY <1>5 DEF CpuHotplug, CpuUpPrepare, CpuDead, process_zones, ProcessZonesBad, CpuOnline,
       CpuUpCanceled, vars, tables
  <2> QED BY <2>1, ListsKept DEF At
<1> QED BY <1>1, <1>3, <1>4, <1>5, ListsHandler, ListsRecompute DEF Next

\* Whenever nobody is about to build them, the zonelists are in the order in
\* force, and whenever no memory is being added they are the lists of the zones
\* that have memory, however numa_zonelist_order_handler and memory hot-add
\* overtake each other between set_zonelist_order and __build_all_zonelists.
THEOREM ListsAreCurrent == Spec => [](OrderBuilt /\ ListsCurrent)
<1>1. Init => ListsInv
  BY DEF Init, ListsInv, OrderBuilt, ListsCurrent
<1>2. ListsInv /\ IInv /\ [Next]_vars => ListsInv'
  BY ListsStep
<1>3. ListsInv => OrderBuilt /\ ListsCurrent
  BY DEF ListsInv
<1> QED BY <1>1, <1>2, <1>3, Invariant, PTL DEF Spec
=============================================================================
