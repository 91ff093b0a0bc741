----------------------------- MODULE ZoneTuning -----------------------------
(* The tables of mm/page_alloc.c that depend on the sizes of the zones:     *)
(* zonelists, watermarks, lowmem_reserve, totalreserve_pages and the        *)
(* per-cpu pagesets, while the system runs.  They are recomputed by the     *)
(* sysctl handlers, by memory hot-add and by processors that come and go,   *)
(* none of which waits for the others: only the zonelists are rebuilt with  *)
(* the machine stopped, and only one zone's watermarks are set at a time    *)
(* under its lock.                                                          *)
EXTENDS Integers, Sequences, FiniteSets, SequencesExt

CONSTANTS
    NNodes,        \* nodes 0 .. NNodes - 1, all online
    MAX_NR_ZONES,  \* zones 0 .. MAX_NR_ZONES - 1 of each node
    ZONE_NORMAL, Highmem,
    Boot,          \* Boot[n][z]: present_pages at boot
    node_distance, \* node_distance[n][m]
    PENALTY_FOR_NODE_WITH_CPUS,
    Headless,      \* the nodes without a processor
    CPUs, cpu0,
    Writers,       \* tasks that write to the files in /proc/sys/vm
    Orders,        \* what they write to numa_zonelist_order
    MinFree,       \* ... to min_free_kbytes, in pages
    boot_min,      \* what it is at boot
    Ratios,        \* ... to lowmem_reserve_ratio, for a zone
    Fractions,     \* ... to percpu_pagelist_fraction
    SWAP_CLUSTER_MAX, HighmemCap, Batch, BatchCap,
    HotAdd,        \* zones that memory may be added to
    Added,         \* the pages added
    Events,        \* of "nomem", "cancel", "down"
    MaxOps         \* bound on what is begun in a behaviour

Nodes == 0 .. NNodes - 1
ZoneTypes == 0 .. MAX_NR_ZONES - 1
Zones == Nodes \X ZoneTypes
Ratio == 0 .. MAX_NR_ZONES - 2  \* the highest zone has no ratio
Order == {"default", "node", "zone"}

ASSUME MachineAssumption ==
    /\ NNodes \in Nat \ {0} /\ MAX_NR_ZONES \in Nat \ {0}
    /\ ZONE_NORMAL \in ZoneTypes /\ Highmem \subseteq ZoneTypes
    /\ Boot \in [Nodes -> [ZoneTypes -> Nat]]
    /\ \E n \in Nodes, z \in ZoneTypes \ Highmem : Boot[n][z] > 0
    /\ node_distance \in [Nodes -> [Nodes -> Nat]]
    /\ Headless \subseteq Nodes /\ cpu0 \in CPUs
    /\ HotAdd \subseteq Zones /\ Added \in Nat \ {0} /\ "hot-add" \notin Writers
ASSUME TuningAssumption ==
    /\ Orders \subseteq Order \cup {"bogus"} /\ MinFree \subseteq Nat /\ boot_min \in Nat
    /\ Ratios \subseteq Nat /\ Fractions \subseteq Nat \ {0}
    /\ Batch \in Nat \ {0} /\ BatchCap \in Nat \ {0}

VARIABLES
    present,      \* zone->present_pages
    table,        \* numa_zonelist_order, the string
    user_order,   \* user_zonelist_order
    order,        \* current_zonelist_order
    lists,        \* node_zonelists[0] of each node
    built,        \* history: the order they were built in
    min_free,     \* min_free_kbytes, in pages
    watermark,    \* zone->watermark
    ratio,        \* sysctl_lowmem_reserve_ratio
    reserve,      \* zone->lowmem_reserve
    totalreserve, \* totalreserve_pages
    fraction,     \* percpu_pagelist_fraction, 0 until it is written
    pset,         \* what zone_pcp(zone, cpu) points to
    pcp,          \* high and batch of the pagesets from the slab
    boot_pageset, \* high and batch of boot_pageset[cpu]
    slab,         \* pagesets that have been allocated for a zone and a processor
    online,       \* the processors that are up
    hot,          \* the processor that is coming up, and the zone it is at
    task,         \* where the writers and the hot-add thread are
    ops,          \* writes, added zones, processors up and down so far
    clash,        \* history: two of them recomputed something at once
    raced         \* history: a zone got memory while a processor came up

tables == <<present, table, user_order, order, lists, built>>
marks == <<min_free, watermark, ratio, reserve, totalreserve>>
sets == <<fraction, pset, pcp, boot_pageset, slab, online, hot>>
vars == <<tables, marks, sets, task, ops, clash, raced>>

Populated == {z \in Zones : present[z] > 0}
NodesOf(mem) == {z[1] : z \in mem}
high_memory == NodesOf(Populated)

-----------------------------------------------------------------------------
(* Zonelists; mem is the set of zones that have memory.                     *)

\* What find_next_best_node compares.
NodeValue(local, n, load) ==
    (node_distance[local][n] + (IF n < local THEN 1 ELSE 0)
        + (IF n \in Headless THEN 0 ELSE PENALTY_FOR_NODE_WITH_CPUS))
        * NNodes * NNodes + load[n]

find_next_best_node(mem, local, used, load) ==
    LET left == NodesOf(mem) \ used IN
    IF local \notin used THEN local
    ELSE CHOOSE n \in left : \A m \in left :
            \/ NodeValue(local, n, load) < NodeValue(local, m, load)
            \/ NodeValue(local, n, load) = NodeValue(local, m, load) /\ n <= m

\* The nodes in the order in which local falls back to them, and the loads.
NodeOrder(mem, local, load0) ==
    LET count == Cardinality({local} \cup NodesOf(mem))
        after[k \in 0 .. count] ==
            IF k = 0 THEN [nodes |-> <<>>, load |-> load0]
            ELSE LET s    == after[k - 1]
                     n    == find_next_best_node(mem, local, ToSet(s.nodes), s.load)
                     prev == IF k = 1 THEN local ELSE s.nodes[k - 1]
                 IN  [nodes |-> Append(s.nodes, n),
                      load  |-> IF node_distance[local][n] # node_distance[local][prev]
                                THEN [s.load EXCEPT ![n] = NNodes - k + 1] ELSE s.load]
    IN  after[count]

\* build_zonelists_node: the populated zones of a node, the highest first.
build_zonelists_node(mem, n) ==
    SelectSeq([i \in 1 .. MAX_NR_ZONES |-> <<n, MAX_NR_ZONES - i>>],
              LAMBDA z : z \in mem)

\* By zone, and by node within a zone.
build_zonelists_in_zone_order(mem, nodes) ==
    SelectSeq([i \in 1 .. MAX_NR_ZONES * Len(nodes) |->
                  <<nodes[((i - 1) % Len(nodes)) + 1],
                    MAX_NR_ZONES - 1 - ((i - 1) \div Len(nodes))>>],
              LAMBDA z : z \in mem)

\* By node, and by zone within a node.
build_zonelists_in_node_order(mem, nodes) ==
    LET upto[k \in 0 .. Len(nodes)] ==
            IF k = 0 THEN <<>> ELSE upto[k - 1] \o build_zonelists_node(mem, nodes[k])
    IN  upto[Len(nodes)]

\* __build_all_zonelists: the loads of one node's list weigh on the next.
Lists(mem, ord) ==
    LET after[n \in -1 .. NNodes - 1] ==
            IF n = -1 THEN [load |-> [m \in Nodes |-> 0], lists |-> <<>>]
            ELSE LET s == after[n - 1]
                     o == NodeOrder(mem, n, s.load)
                 IN  [load  |-> o.load,
                      lists |-> Append(s.lists,
                          IF ord = "node" THEN build_zonelists_in_node_order(mem, o.nodes)
                          ELSE build_zonelists_in_zone_order(mem, o.nodes))]
    IN  [n \in Nodes |-> after[NNodes - 1].lists[n + 1]]

PagesOf(Z) == SumFunctionOnSet(present, Z)
OfNode(n) == {z \in Zones : z[1] = n}
Below(Z) == {z \in Z : z[2] < ZONE_NORMAL}

\* Node order if there is no DMA memory, or much of it, or much on one node.
default_zonelist_order ==
    LET low     == PagesOf(Below(Zones))
        total   == PagesOf(Zones)
        average == total \div (Cardinality(high_memory) + 1)
        much(n) == LET l == PagesOf(Below(OfNode(n)))
                       t == PagesOf(OfNode(n))
                   IN  l > 0 /\ t > average /\ l > (t * 70) \div 100
    IN  IF low = 0 \/ low > total \div 2 \/ (\E n \in Nodes : much(n))
        THEN "node" ELSE "zone"

InForce(user) == IF user = "default" THEN default_zonelist_order ELSE user

-----------------------------------------------------------------------------
(* Watermarks and reserves.                                                 *)

Lowmem == {z \in Zones : z[2] \notin Highmem}

\* One zone of setup_per_zone_wmarks.
Marks(z, pages_min, lowmem_pages) ==
    LET tmp  == (pages_min * present[z]) \div lowmem_pages
        cap  == present[z] \div 1024
        hmin == IF cap < SWAP_CLUSTER_MAX THEN SWAP_CLUSTER_MAX
                ELSE IF cap > HighmemCap THEN HighmemCap ELSE cap
        min  == IF z[2] \in Highmem THEN hmin ELSE tmp
    IN  [min |-> min, low |-> min + tmp \div 4, high |-> min + tmp \div 2]

\* What zones 0 .. i of the node keep from requests for zone j.
Between(n, i, j) == {<<n, k>> : k \in i + 1 .. j}
Kept(r, n, i, j) ==
    IF i >= j THEN 0 ELSE PagesOf(Between(n, i, j)) \div (IF r[i] < 1 THEN 1 ELSE r[i])

\* calculate_totalreserve_pages
TotalReserve ==
    LET max(z) == Max({reserve[z][j] : j \in z[2] .. MAX_NR_ZONES - 1}) + watermark[z].high
    IN  SumFunction([z \in Zones |-> IF max(z) > present[z] THEN present[z] ELSE max(z)])

-----------------------------------------------------------------------------
(* Pagesets.                                                                *)

rounddown_pow_of_two(x) == Max({p \in {1, 2, 4, 8, 16, 32, 64} : p <= x})

zone_batchsize(z) ==
    LET b == IF present[z] \div Batch > BatchCap THEN BatchCap ELSE present[z] \div Batch
        c == IF b < 1 THEN 1 ELSE b
    IN  rounddown_pow_of_two(c + c \div 2) - 1

setup_pageset(b) == [high |-> 6 * b, batch |-> IF b < 1 THEN 1 ELSE b]

\* setup_pagelist_highmark: the batch that goes with a high mark.
BatchOf(high) ==
    IF high \div 4 > BatchCap THEN BatchCap ELSE IF high \div 4 < 1 THEN 1 ELSE high \div 4

\* What process_zones gives a new pageset.
NewPageset(z) ==
    IF fraction = 0 THEN setup_pageset(zone_batchsize(z))
    ELSE [high |-> present[z] \div fraction, batch |-> BatchOf(present[z] \div fraction)]

-----------------------------------------------------------------------------

Hot == "hot-add"
Idle == [pc |-> "idle", old |-> "default", saved |-> "default", i |-> 1, min |-> 0,
         low |-> 0, total |-> 0, zone |-> <<0, 0>>]
Threads == Writers \cup {Hot}

ZoneSeq == [i \in 1 .. NNodes * MAX_NR_ZONES |->
               <<(i - 1) \div MAX_NR_ZONES, (i - 1) % MAX_NR_ZONES>>]
CPUSeq == SetToSeq(CPUs)
PairSeq == [i \in 1 .. Len(ZoneSeq) * Len(CPUSeq) |->
               <<ZoneSeq[((i - 1) \div Len(CPUSeq)) + 1],
                 CPUSeq[((i - 1) % Len(CPUSeq)) + 1]>>]
NoCPU == [on |-> FALSE, cpu |-> cpu0, at |-> 1]

\* After build_all_zonelists, setup_per_cpu_pageset and
\* init_per_zone_wmark_min.
Init ==
    /\ present = [z \in Zones |-> Boot[z[1]][z[2]]]
    /\ table = "default" /\ user_order = "default"
    /\ order = default_zonelist_order /\ built = order
    /\ lists = Lists(Populated, order)
    /\ min_free = boot_min
    /\ watermark = [z \in Zones |-> Marks(z, boot_min, PagesOf(Lowmem))]
    /\ ratio = [i \in Ratio |-> 4]
    /\ reserve = [z \in Zones |-> [j \in ZoneTypes |-> Kept(ratio, z[1], z[2], j)]]
    /\ totalreserve = TotalReserve
    /\ fraction = 0
    /\ pset = [z \in Zones |-> [c \in CPUs |->
          IF c = cpu0 /\ z \in Populated THEN "own" ELSE "boot"]]
    /\ pcp = [z \in Zones |-> [c \in CPUs |-> setup_pageset(zone_batchsize(z))]]
    /\ boot_pageset = [c \in CPUs |-> setup_pageset(0)]
    /\ slab = [z \in Zones |-> [c \in CPUs |-> IF pset[z][c] = "own" THEN 1 ELSE 0]]
    /\ online = {cpu0} /\ hot = NoCPU
    /\ task = [t \in Threads |-> Idle]
    /\ ops = 0 /\ clash = FALSE /\ raced = FALSE

At(t, step) == task[t].pc = step
Goto(t, step) == task' = [task EXCEPT ![t].pc = step]
GotoZone(t, step) == task' = [task EXCEPT ![t].pc = step, ![t].i = 1]
Done(t) == task' = [task EXCEPT ![t] = Idle]

\* A write to one of the files.
Write(w) ==
    /\ At(w, "idle") /\ ops < MaxOps
    /\ ops' = ops + 1
    /\ clash' = (clash \/ (\E t \in Threads : ~ At(t, "idle")))
    /\ UNCHANGED raced

Idling == UNCHANGED <<ops, clash, raced>>

-----------------------------------------------------------------------------
(* numa_zonelist_order_handler.                                             *)

\* proc_dostring writes the string that all share.
WriteOrder(w, v) ==
    /\ Write(w)
    /\ table' = v
    /\ task' = [task EXCEPT ![w].pc = "readold", ![w].saved = table]
    /\ UNCHANGED <<present, user_order, order, lists, built, marks, sets>>

ReadOld(w) ==
    /\ At(w, "readold")
    /\ task' = [task EXCEPT ![w].pc = "parse", ![w].old = user_order]
    /\ UNCHANGED <<tables, marks, sets>> /\ Idling

\* A value that makes no sense is taken back, to what was read before.
__parse_numa_zonelist_order(w) ==
    /\ At(w, "parse")
    /\ IF table = "bogus"
       THEN table' = task[w].saved /\ user_order' = task[w].old /\ Done(w)
       ELSE user_order' = table /\ Goto(w, "compare") /\ UNCHANGED table
    /\ UNCHANGED <<present, order, lists, built, marks, sets>> /\ Idling

Compare(w) ==
    /\ At(w, "compare")
    /\ IF task[w].old # user_order THEN Goto(w, "setorder") ELSE Done(w)
    /\ UNCHANGED <<tables, marks, sets>> /\ Idling

\* build_all_zonelists
set_zonelist_order(t) ==
    /\ At(t, "setorder")
    /\ order' = InForce(user_order)
    /\ Goto(t, "build")
    /\ UNCHANGED <<present, table, user_order, lists, built, marks, sets>> /\ Idling

\* Mutant: the lists are built in the order the caller has asked for.
BuildUser(t) ==
    /\ At(t, "build")
    /\ lists' = Lists(Populated, InForce(user_order)) /\ built' = InForce(user_order)
    /\ Done(t)
    /\ UNCHANGED <<present, table, user_order, order, marks, sets>> /\ Idling

__build_all_zonelists(t) ==
    /\ At(t, "build")
    /\ lists' = Lists(Populated, order) /\ built' = order
    /\ Done(t)
    /\ UNCHANGED <<present, table, user_order, order, marks, sets>> /\ Idling

-----------------------------------------------------------------------------
(* min_free_kbytes_sysctl_handler, lowmem_reserve_ratio_sysctl_handler.     *)

WriteMinFree(w, v) ==
    /\ Write(w)
    /\ min_free' = v
    /\ Goto(w, "marks")
    /\ UNCHANGED <<tables, watermark, ratio, reserve, totalreserve, sets>>

\* pages_min and lowmem_pages are read once.
BeginMarks(t) ==
    /\ At(t, "marks")
    /\ task' = [task EXCEPT ![t].pc = "mark", ![t].i = 1, ![t].min = min_free,
                           ![t].low = PagesOf(Lowmem)]
    /\ UNCHANGED <<tables, marks, sets>> /\ Idling

\* Mutant: totalreserve_pages is not recomputed.
WmarksNoTotal(t) ==
    LET i == task[t].i IN
    /\ At(t, "mark")
    /\ watermark' = [watermark EXCEPT ![ZoneSeq[i]] =
                        Marks(ZoneSeq[i], task[t].min, task[t].low)]
    /\ task' = [task EXCEPT ![t].i = @ + 1,
                           ![t].pc = IF i < Len(ZoneSeq) THEN @
                                     ELSE IF t = Hot THEN "setorder" ELSE "done"]
    /\ UNCHANGED <<tables, min_free, ratio, reserve, totalreserve, sets>> /\ Idling

setup_per_zone_wmarks(t) ==
    LET i == task[t].i IN
    /\ At(t, "mark")
    /\ watermark' = [watermark EXCEPT ![ZoneSeq[i]] =
                        Marks(ZoneSeq[i], task[t].min, task[t].low)]
    /\ task' = [task EXCEPT ![t].i = @ + 1,
                           ![t].pc = IF i = Len(ZoneSeq) THEN "sum" ELSE @]
    /\ UNCHANGED <<tables, min_free, ratio, reserve, totalreserve, sets>> /\ Idling

SumReserve(t) ==
    /\ At(t, "sum")
    /\ task' = [task EXCEPT ![t].pc = "store", ![t].total = TotalReserve]
    /\ UNCHANGED <<tables, marks, sets>> /\ Idling

calculate_totalreserve_pages(t) ==
    /\ At(t, "store")
    /\ totalreserve' = task[t].total
    /\ IF t = Hot THEN Goto(t, "setorder") ELSE Done(t)
    /\ UNCHANGED <<tables, min_free, watermark, ratio, reserve, sets>> /\ Idling

WriteRatio(w, i, v) ==
    /\ Write(w)
    /\ ratio' = [ratio EXCEPT ![i] = v]
    /\ GotoZone(w, "reserve")
    /\ UNCHANGED <<tables, min_free, watermark, reserve, totalreserve, sets>>

\* What the zones below keep from requests for zone j of node n.
setup_per_zone_lowmem_reserve(w) ==
    LET n == ZoneSeq[task[w].i][1]
        j == ZoneSeq[task[w].i][2]
    IN
    /\ At(w, "reserve")
    /\ ratio' = [i \in Ratio |-> IF i < j /\ ratio[i] < 1 THEN 1 ELSE ratio[i]]
    /\ reserve' = [z \in Zones |-> IF z[1] # n \/ z[2] > j THEN reserve[z]
                      ELSE [reserve[z] EXCEPT ![j] = Kept(ratio, n, z[2], j)]]
    /\ task' = [task EXCEPT ![w].i = @ + 1,
                           ![w].pc = IF task[w].i = Len(ZoneSeq) THEN "sum" ELSE @]
    /\ UNCHANGED <<tables, min_free, watermark, totalreserve, sets>> /\ Idling

-----------------------------------------------------------------------------
(* percpu_pagelist_fraction_sysctl_handler.                                 *)

WriteFraction(w, v) ==
    /\ Write(w)
    /\ fraction' = v
    /\ GotoZone(w, "high")
    /\ UNCHANGED <<tables, marks, pset, pcp, boot_pageset, slab, online, hot>>

\* The pageset of zone z and processor c gets a field f set to v.
SetField(z, c, f, v) ==
    IF pset[z][c] = "own"
    THEN pcp' = [pcp EXCEPT ![z][c][f] = v] /\ UNCHANGED boot_pageset
    ELSE boot_pageset' = [boot_pageset EXCEPT ![c][f] = v] /\ UNCHANGED pcp

NextPair(w) ==
    task' = [task EXCEPT ![w].i = @ + 1, ![w].pc = IF task[w].i = Len(PairSeq) THEN "done" ELSE "high"]

SetHigh(w) ==
    LET z == PairSeq[task[w].i][1]
        c == PairSeq[task[w].i][2]
    IN
    /\ At(w, "high")
    /\ IF z \in Populated /\ c \in online
       THEN SetField(z, c, "high", present[z] \div fraction) /\
            task' = [task EXCEPT ![w].pc = "batch", ![w].min = present[z] \div fraction]
       ELSE UNCHANGED <<pcp, boot_pageset>> /\ NextPair(w)
    /\ UNCHANGED <<tables, marks, fraction, pset, slab, online, hot>> /\ Idling

SetBatch(w) ==
    LET z == PairSeq[task[w].i][1]
        c == PairSeq[task[w].i][2]
    IN
    /\ At(w, "batch")
    /\ SetField(z, c, "batch", BatchOf(task[w].min))
    /\ NextPair(w)
    /\ UNCHANGED <<tables, marks, fraction, pset, slab, online, hot>> /\ Idling

FractionDone(w) ==
    /\ At(w, "done") /\ Done(w)
    /\ UNCHANGED <<tables, marks, sets>> /\ Idling

-----------------------------------------------------------------------------
(* Memory is added to a zone (memory_hotplug.c calls the rest in order).    *)

online_pages(z) ==
    /\ At(Hot, "idle") /\ ops < MaxOps /\ z \in HotAdd /\ present[z] = Boot[z[1]][z[2]]
    /\ present' = [present EXCEPT ![z] = @ + Added]
    /\ task' = [task EXCEPT ![Hot].pc = "pcp", ![Hot].zone = z]
    /\ clash' = (clash \/ (\E t \in Threads : ~ At(t, "idle")))
    /\ raced' = (raced \/ hot.on)
    /\ ops' = ops + 1
    /\ UNCHANGED <<table, user_order, order, lists, built, marks, sets>>

\* zone_pcp_update, with the machine stopped.  A pageset that failed to be
\* allocated is a null pointer here, and the machine stops for good.
__zone_pcp_update ==
    LET z == task[Hot].zone IN
    /\ At(Hot, "pcp")
    /\ \A c \in CPUs : pset[z][c] # "null"
    /\ pcp' = [pcp EXCEPT ![z] = [c \in CPUs |->
          IF pset[z][c] = "own" THEN setup_pageset(zone_batchsize(z)) ELSE @[c]]]
    /\ boot_pageset' = [c \in CPUs |->
          IF pset[z][c] = "boot" THEN setup_pageset(zone_batchsize(z)) ELSE boot_pageset[c]]
    /\ Goto(Hot, "marks")
    /\ UNCHANGED <<tables, marks, fraction, pset, slab, online, hot>> /\ Idling

-----------------------------------------------------------------------------
(* pageset_cpuup_callback.                                                  *)

CpuUpPrepare(c) ==
    /\ c \notin online /\ ~ hot.on /\ ops < MaxOps
    /\ hot' = [on |-> TRUE, cpu |-> c, at |-> 1]
    /\ ops' = ops + 1
    /\ UNCHANGED <<tables, marks, fraction, pset, pcp, boot_pageset, slab, online, task,
                   clash, raced>>

HotZone == ZoneSeq[hot.at]

\* One zone of process_zones.
process_zones ==
    LET c == hot.cpu IN
    /\ hot.on /\ hot.at <= Len(ZoneSeq)
    /\ IF HotZone \in Populated
       THEN /\ pset' = [pset EXCEPT ![HotZone][c] = "own"]
            /\ pcp' = [pcp EXCEPT ![HotZone][c] = NewPageset(HotZone)]
            /\ slab' = [slab EXCEPT ![HotZone][c] = @ + 1]
       ELSE UNCHANGED <<pset, pcp, slab>>
    /\ hot' = [hot EXCEPT !.at = @ + 1]
    /\ UNCHANGED <<tables, marks, fraction, boot_pageset, online, task>> /\ Idling

\* Mutant: the pagesets of the zones before are forgotten, not freed.
BadForgets ==
    LET c == hot.cpu IN
    /\ "nomem" \in Events
    /\ hot.on /\ hot.at <= Len(ZoneSeq) /\ HotZone \in Populated
    /\ pset' = [z \in Zones |-> [pset[z] EXCEPT ![c] = IF z = HotZone THEN "null" ELSE "boot"]]
    /\ hot' = NoCPU
    /\ UNCHANGED <<tables, marks, fraction, pcp, boot_pageset, slab, online, task>> /\ Idling

\* kmalloc_node fails: the pagesets of the populated zones before this one are
\* freed, and this one stays a null pointer.
ProcessZonesBad ==
    LET c      == hot.cpu
        before == {z \in Populated : \E i \in 1 .. hot.at - 1 : z = ZoneSeq[i]}
    IN
    /\ "nomem" \in Events
    /\ hot.on /\ hot.at <= Len(ZoneSeq) /\ HotZone \in Populated
    /\ pset' = [z \in Zones |-> [pset[z] EXCEPT ![c] =
                   IF z = HotZone THEN "null" ELSE IF z \in before THEN "boot" ELSE @]]
    /\ slab' = [z \in Zones |-> [slab[z] EXCEPT ![c] = IF z \in before THEN @ - 1 ELSE @]]
    /\ hot' = NoCPU
    /\ UNCHANGED <<tables, marks, fraction, pcp, boot_pageset, online, task>> /\ Idling

CpuOnline ==
    /\ hot.on /\ hot.at > Len(ZoneSeq)
    /\ online' = online \cup {hot.cpu}
    /\ hot' = NoCPU
    /\ UNCHANGED <<tables, marks, fraction, pset, pcp, boot_pageset, slab, task>> /\ Idling

free_zone_pagesets(c) ==
    /\ slab' = [z \in Zones |-> [slab[z] EXCEPT ![c] = IF pset[z][c] = "own" THEN @ - 1 ELSE @]]
    /\ pset' = [z \in Zones |-> [pset[z] EXCEPT ![c] = "boot"]]

\* Another notifier has said no.
CpuUpCanceled ==
    /\ "cancel" \in Events
    /\ hot.on /\ hot.at > Len(ZoneSeq)
    /\ free_zone_pagesets(hot.cpu)
    /\ hot' = NoCPU
    /\ UNCHANGED <<tables, marks, fraction, pcp, boot_pageset, online, task>> /\ Idling

CpuDead(c) ==
    /\ "down" \in Events
    /\ c \in online \ {cpu0} /\ ~ hot.on /\ ops < MaxOps
    /\ free_zone_pagesets(c)
    /\ online' = online \ {c}
    /\ ops' = ops + 1
    /\ UNCHANGED <<tables, marks, fraction, pcp, boot_pageset, hot, task, clash, raced>>

-----------------------------------------------------------------------------

Handler(w) ==
    \/ \E v \in Orders : WriteOrder(w, v)
    \/ \E v \in MinFree : WriteMinFree(w, v)
    \/ \E i \in Ratio, v \in Ratios : WriteRatio(w, i, v)
    \/ \E v \in Fractions : WriteFraction(w, v)
    \/ ReadOld(w) \/ __parse_numa_zonelist_order(w) \/ Compare(w)
    \/ setup_per_zone_lowmem_reserve(w)
    \/ SetHigh(w) \/ SetBatch(w) \/ FractionDone(w)

Recompute(t) ==
    \/ set_zonelist_order(t) \/ __build_all_zonelists(t)
    \/ BeginMarks(t) \/ setup_per_zone_wmarks(t) \/ SumReserve(t)
    \/ calculate_totalreserve_pages(t)

CpuHotplug ==
    \/ \E c \in CPUs : CpuUpPrepare(c) \/ CpuDead(c)
    \/ process_zones \/ ProcessZonesBad \/ CpuOnline \/ CpuUpCanceled

Next ==
    \/ \E w \in Writers : Handler(w)
    \/ \E t \in Threads : Recompute(t)
    \/ \E z \in HotAdd : online_pages(z)
    \/ __zone_pcp_update
    \/ CpuHotplug

Spec == Init /\ [][Next]_vars

-----------------------------------------------------------------------------
(* Properties.                                                              *)

Pcp == [high : Nat, batch : Nat]

\* The variables are of the declared kind: a refused zonelist order stays in the
\* table only until it has been parsed, and every order in force is a real one.
TypeOK ==
    /\ present \in [Zones -> Nat]
    /\ table \in Order \cup {"bogus"} /\ user_order \in Order /\ order \in {"node", "zone"}
    /\ lists \in [Nodes -> Seq(Zones)] /\ built \in {"node", "zone"}
    /\ min_free \in Nat /\ watermark \in [Zones -> [min : Nat, low : Nat, high : Nat]]
    /\ ratio \in [Ratio -> Nat] /\ reserve \in [Zones -> [ZoneTypes -> Nat]]
    /\ totalreserve \in Nat /\ fraction \in Nat
    /\ pset \in [Zones -> [CPUs -> {"own", "boot", "null"}]]
    /\ pcp \in [Zones -> [CPUs -> Pcp]] /\ boot_pageset \in [CPUs -> Pcp]
    /\ slab \in [Zones -> [CPUs -> Int]] /\ online \subseteq CPUs
    /\ hot \in [on : BOOLEAN, cpu : CPUs, at : 1 .. Len(ZoneSeq) + 1]
    /\ \A t \in Threads : task[t].pc \in {"idle", "readold", "parse", "compare", "setorder",
           "build", "marks", "mark", "sum", "store", "reserve", "high", "batch", "done", "pcp"}
    /\ ops \in 0 .. MaxOps /\ clash \in BOOLEAN /\ raced \in BOOLEAN

Rest == \A t \in Threads : At(t, "idle")

Before(l, y, z) == \E i, j \in DOMAIN l : i < j /\ l[i] = y /\ l[j] = z

\* Every node can fall back to every zone that has memory, and to each once;
\* in node order it exhausts a node before the next, in zone order a kind of
\* zone before the one below; its own node comes first, then the nearer ones.
ListsComplete ==
    At(Hot, "idle") => \A n \in Nodes : LET l == lists[n] IN
        /\ ToSet(l) = Populated /\ Len(l) = Cardinality(Populated)
        /\ \A y, z \in Populated : Before(l, y, z) =>
              /\ built = "zone" => y[2] >= z[2]
              /\ y[1] = z[1] => y[2] > z[2]
              /\ built = "node" /\ y[1] # z[1] =>
                    ~ \E x \in Populated : Before(l, z, x) /\ x[1] = y[1]
              /\ built = "node" \/ y[2] = z[2] =>
                    /\ z[1] = n => y[1] = n
                    /\ y[1] # n /\ (y[1] \in Headless <=> z[1] \in Headless) =>
                          node_distance[n][y[1]] <= node_distance[n][z[1]] + 1

\* Whoever sets current_zonelist_order builds the lists afterwards: the lists
\* are in that order whenever nobody is about to build them, even if two
\* writers overtake each other.
OrderBuilt == (\A t \in Threads : ~ At(t, "build")) => built = order

\* The zonelists are right whenever they are used: complete, in the order in
\* force, however numa_zonelist_order_handler and memory hot-add overlap.
ZonelistsRight == TypeOK /\ ListsComplete /\ OrderBuilt

\* The order in force is the one written last.  The code does not keep this:
\* see the README.
OrderApplied == Rest /\ present = [z \in Zones |-> Boot[z[1]][z[2]]] => order = InForce(user_order)

\* lowmem_reserve follows the ratios, however the writers overlap: whoever
\* recomputes an entry uses the ratio of that moment.  (Memory that is added
\* changes nothing here.)
ReserveFollows ==
    /\ \A t \in Threads : ~ At(t, "reserve")
    /\ present = [z \in Zones |-> Boot[z[1]][z[2]]]
    => \A z \in Zones, j \in ZoneTypes :
          j >= z[2] => reserve[z][j] = Kept(ratio, z[1], z[2], j)

\* The watermarks are those of min_free_kbytes and of the zones as they are,
\* and totalreserve_pages is the sum of what is kept, if the recomputations
\* do not overlap.
MarksFollow ==
    Rest /\ ~ clash =>
        /\ \A z \in Zones : watermark[z] = Marks(z, min_free, PagesOf(Lowmem))
        /\ totalreserve = TotalReserve

\* What the allocator compares free pages with follows min_free_kbytes and
\* lowmem_reserve_ratio: setup_per_zone_wmarks and setup_per_zone_lowmem_reserve
\* leave no zone with the numbers of an earlier setting.
TablesFollow == ReserveFollows /\ MarksFollow

\* Every pageset from the slab belongs to one zone and processor, and none is
\* lost or freed twice, whichever allocation fails while processors come and
\* go; unless memory is added to a zone meanwhile.
PagesetsOwned ==
    ~ raced => \A z \in Zones, c \in CPUs :
                  slab[z][c] = (IF pset[z][c] = "own" THEN 1 ELSE 0)

Fields(z, c) == IF pset[z][c] = "own" THEN pcp[z][c] ELSE boot_pageset[c]

\* A batch fits below the high mark of its pageset: free_hot_cold_page, which
\* frees a batch when the mark is reached, finds as many pages (BuddyZone
\* assumes this of the numbers).
BatchesFit ==
    Rest /\ ~ clash =>
        \A z \in Populated, c \in online :
            LET p == Fields(z, c) IN p.batch >= 1 /\ (p.batch <= p.high \/ p.batch = 1)

\* Every zone and processor has a pageset of its own to work with, and one
\* whose numbers free_hot_cold_page can use.
PagesetsRight == PagesetsOwned /\ BatchesFit

\* "The boot_pagesets must be kept ... for unused processors and/or zones":
\* no pageset is a null pointer.  The code does not keep this: see the README.
NoNullPageset == \A z \in Zones, c \in CPUs : pset[z][c] # "null"
=============================================================================
