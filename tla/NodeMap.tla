------------------------------ MODULE NodeMap ------------------------------
(* How mm/page_alloc.c finds the zones at boot: the architecture registers  *)
(* the ranges of page frames that are memory, node by node, and             *)
(* free_area_init_nodes cuts them into zones, with ZONE_MOVABLE at the end   *)
(* of each node, counts the holes, and links every page to its zone.        *)
(*                                                                          *)
(* Unsigned longs wrap at Word.  Everything runs on one processor before    *)
(* the others are started; what can go wrong is the arithmetic.             *)
EXTENDS Integers, Sequences, FiniteSets
LOCAL INSTANCE SequencesExt
LOCAL INSTANCE FiniteSetsExt

CONSTANTS
    MaxPfn,              \* page frames are 0 .. MaxPfn - 1
    NNodes,              \* nodes are 0 .. NNodes - 1, all online
    max_zone_pfn,        \* of each zone but ZONE_MOVABLE, zone 0 first
    MAX_ACTIVE_REGIONS,
    MAX_ORDER_NR_PAGES,
    Word,                \* ULONG_MAX + 1
    StructsPerPage,      \* how many struct page fit in a page
    dma_reserve,
    Kernelcore, Movablecore,  \* what kernelcore= and movablecore= may say
    NODES_SPAN_OTHER_NODES,   \* CONFIG_NODES_SPAN_OTHER_NODES
    MaxCalls             \* bound on the ranges added and removed

Nodes == 0 .. NNodes - 1
ZONE_MOVABLE == Len(max_zone_pfn)
ArchZones == 0 .. ZONE_MOVABLE - 1
Zones == 0 .. ZONE_MOVABLE
Pfns == 0 .. MaxPfn - 1

\* The last zone ends where memory can: nothing is registered above it.
ASSUME BootAssumption ==
    /\ MaxPfn \in Nat \ {0} /\ NNodes \in Nat \ {0}
    /\ MAX_ACTIVE_REGIONS \in Nat \ {0} /\ MAX_ORDER_NR_PAGES \in Nat \ {0}
    /\ StructsPerPage \in Nat \ {0} /\ dma_reserve \in Nat /\ Word \in Nat
    /\ MaxPfn + MAX_ORDER_NR_PAGES < Word
    /\ max_zone_pfn \in Seq(Nat) /\ Len(max_zone_pfn) > 0
    /\ max_zone_pfn[Len(max_zone_pfn)] = MaxPfn
    /\ Kernelcore \subseteq 0 .. Word - 1 /\ Movablecore \subseteq 0 .. Word - 1

VARIABLES
    early_node_map,   \* the ranges [nid, start, end) registered
    core,             \* required_kernelcore and required_movablecore
    pc,               \* how far free_area_init_nodes is, or "boot"
    walk,             \* the locals of its loops
    lowest, highest,  \* arch_zone_lowest_possible_pfn and ..highest..
    movable_pfn,      \* zone_movable_pfn
    node,             \* node_start_pfn, node_present_pages of each pgdat
    zone,             \* zone_start_pfn, spanned_pages, present_pages
    high_memory,      \* node_states[N_HIGH_MEMORY]
    page_links,       \* the node and zone each struct page is linked to
    memory,           \* history: the page frames of each node
    truncated,        \* history: a range did not fit into early_node_map
    calls             \* ranges added and removed so far

map == <<early_node_map, memory, truncated, calls>>
zones == <<pc, walk, lowest, highest, movable_pfn, node, zone, high_memory, page_links>>
vars == <<map, core, zones>>

MinOf(a, b) == IF a < b THEN a ELSE b
MaxOf(a, b) == IF a > b THEN a ELSE b
Minus(a, b) == (a - b) % Word
Roundup(a, b) == ((a + b - 1) \div b) * b

NoZone == [start |-> 0, spanned |-> 0, present |-> 0]
NoLink == <<-1, -1>>

Init ==
    /\ early_node_map = <<>>
    /\ core = [kernel |-> 0, movable |-> 0]
    /\ pc = "boot" /\ walk = [nid |-> 0, nodes |-> 0, need |-> 0, share |-> 0]
    /\ lowest = [z \in Zones |-> 0] /\ highest = [z \in Zones |-> 0]
    /\ movable_pfn = [n \in Nodes |-> 0]
    /\ node = [n \in Nodes |-> [start |-> 0, spanned |-> 0, present |-> 0]]
    /\ zone = [n \in Nodes |-> [z \in Zones |-> NoZone]]
    /\ high_memory = {}
    /\ page_links = [p \in Pfns |-> NoLink]
    /\ memory = [n \in Nodes |-> {}]
    /\ truncated = FALSE /\ calls = 0

-----------------------------------------------------------------------------
(* early_node_map.                                                          *)

\* for_each_active_range_index_in_nid
Ranges(m, nid) == SelectSeq(m, LAMBDA r : r.nid = nid)

Covers(r, start, end) == start >= r.start /\ end <= r.end
MergesForward(r, start, end) == start <= r.end /\ end > r.end
MergesBackward(r, start, end) == start < r.end /\ end >= r.start

\* What add_active_range makes of the map: the first range of the node that
\* covers the new one or can be merged with it decides.
Added(m, nid, start, end) ==
    LET hits == {i \in DOMAIN m :
                    /\ m[i].nid = nid
                    /\ \/ Covers(m[i], start, end)
                       \/ MergesForward(m[i], start, end)
                       \/ MergesBackward(m[i], start, end)}
        i    == Min(hits)
    IN  IF hits = {}
        THEN IF Len(m) >= MAX_ACTIVE_REGIONS THEN m
             ELSE Append(m, [nid |-> nid, start |-> start, end |-> end])
        ELSE IF Covers(m[i], start, end) THEN m
        ELSE IF MergesForward(m[i], start, end) THEN [m EXCEPT ![i].end = end]
        ELSE [m EXCEPT ![i].start = start]

\* No room is left for a new range of the node.
Truncates(m, nid, start, end) ==
    LET new == Added(m, nid, start, end)
    IN  \E p \in start .. end - 1 :
           \A i \in DOMAIN new : ~ (new[i].nid = nid /\ p \in new[i].start .. new[i].end - 1)

\* The architecture registers every page frame once.
add_active_range(nid, start, end) ==
    /\ pc = "boot" /\ calls < MaxCalls
    /\ start < end
    /\ \A n \in Nodes : memory[n] \cap (start .. end - 1) = {}
    /\ early_node_map' = Added(early_node_map, nid, start, end)
    /\ memory' = [memory EXCEPT ![nid] = @ \cup (start .. end - 1)]
    /\ truncated' = (truncated \/ Truncates(early_node_map, nid, start, end))
    /\ calls' = calls + 1
    /\ UNCHANGED <<core, zones>>

\* One turn of the loop of remove_active_range, over range k of the map.
Cleared(m, k, nid, start, end) ==
    k <= Len(m) /\ m[k].nid = nid /\ m[k].start >= start /\ m[k].end <= end
Shrunk(m, k, nid, start, end) ==
    LET r == m[k] IN
    IF k > Len(m) THEN m
    ELSE IF r.nid # nid THEN m
    ELSE IF Cleared(m, k, nid, start, end)
    THEN [m EXCEPT ![k].start = 0, ![k].end = 0]
    ELSE IF r.start < start /\ r.end > start
    THEN LET cut == [m EXCEPT ![k].end = start]
         IN  IF r.end > end THEN Added(cut, nid, end, r.end) ELSE cut
    ELSE IF r.start >= start /\ r.end > end /\ r.start < end
    THEN [m EXCEPT ![k].start = end]
    ELSE m

\* "remove the blank ones": the first range stays, blank or not.
Compacted(m, nid) ==
    IF m = <<>> THEN m
    ELSE <<Head(m)>> \o SelectSeq(Tail(m), LAMBDA r : ~ (r.nid = nid /\ r.end = 0))

\* Mutant: the part above the hole is not entered again.
RemovedUpper(m, nid, start, end) ==
    LET cut(k) == IF m[k].nid = nid /\ m[k].start < start /\ m[k].end > start
                  THEN [m[k] EXCEPT !.end = start] ELSE Shrunk(m, k, nid, start, end)[k]
    IN  Compacted([k \in DOMAIN m |-> cut(k)], nid)

Removed(m, nid, start, end) ==
    LET after[k \in 0 .. MAX_ACTIVE_REGIONS] ==
            IF k = 0 THEN m ELSE Shrunk(after[k - 1], k, nid, start, end)
        new == after[MAX_ACTIVE_REGIONS]
    IN  IF \E k \in 1 .. MAX_ACTIVE_REGIONS : Cleared(after[k - 1], k, nid, start, end)
        THEN Compacted(new, nid) ELSE new

\* The pages the map has for a node.
Mapped(m, nid) ==
    UNION {r.start .. r.end - 1 : r \in {m[i] : i \in {j \in DOMAIN m : m[j].nid = nid}}}

remove_active_range(nid, start, end) ==
    /\ pc = "boot" /\ calls < MaxCalls
    /\ start < end
    /\ early_node_map' = Removed(early_node_map, nid, start, end)
    /\ memory' = [memory EXCEPT ![nid] = @ \ (start .. end - 1)]
    /\ truncated' =
          (truncated \/ (/\ Len(early_node_map) = MAX_ACTIVE_REGIONS
                         /\ Mapped(early_node_map', nid) #
                               Mapped(early_node_map, nid) \ (start .. end - 1)))
    /\ calls' = calls + 1
    /\ UNCHANGED <<core, zones>>

remove_all_active_ranges ==
    /\ pc = "boot" /\ calls < MaxCalls
    /\ early_node_map' = <<>>
    /\ memory' = [n \in Nodes |-> {}]
    /\ truncated' = FALSE
    /\ calls' = calls + 1
    /\ UNCHANGED <<core, zones>>

cmdline_parse_core(kernel, movable) ==
    /\ pc = "boot" /\ calls = 0
    /\ core' = [kernel |-> kernel, movable |-> movable]
    /\ UNCHANGED <<map, zones>>

-----------------------------------------------------------------------------
(* Looking things up in the sorted map.                                     *)

sort_node_map == SortSeq(early_node_map, LAMBDA a, b : a.start < b.start)

__early_pfn_to_nid(pfn) ==
    LET hits == {i \in DOMAIN early_node_map :
                    early_node_map[i].start <= pfn /\ pfn < early_node_map[i].end}
    IN  IF hits = {} THEN -1 ELSE early_node_map[Min(hits)].nid

early_pfn_in_nid(pfn, nid) ==
    NODES_SPAN_OTHER_NODES => __early_pfn_to_nid(pfn) \in {-1, nid}

RangesOf(nid) ==
    {early_node_map[i] : i \in {j \in DOMAIN early_node_map : early_node_map[j].nid = nid}}

find_min_pfn_for_node(nid) ==
    IF RangesOf(nid) = {} THEN 0 ELSE Min({r.start : r \in RangesOf(nid)})

find_min_pfn_with_active_regions(m) ==
    IF m = <<>> THEN 0 ELSE Min({m[i].start : i \in DOMAIN m})

\* get_pfn_range_for_nid: the first page frame is the one above.
node_end_pfn(nid) ==
    IF RangesOf(nid) = {} THEN 0 ELSE Max({r.end : r \in RangesOf(nid)})

\* The pages of all ranges, and the nodes that have any.
early_calculate_totalpages ==
    LET upto[i \in 0 .. Len(early_node_map)] ==
            IF i = 0 THEN 0
            ELSE upto[i - 1] + Minus(early_node_map[i].end, early_node_map[i].start)
    IN  upto[Len(early_node_map)] % Word
HasMemory == {n \in Nodes : Mapped(early_node_map, n) # {}}

-----------------------------------------------------------------------------
(* free_area_init_nodes: where the zones may lie.                           *)

\* The highest page frame of each zone is never below that of the one before.
highest_possible(z) == Max({max_zone_pfn[y] : y \in 1 .. z + 1})

SortAndLimit ==
    LET m == sort_node_map IN
    /\ pc = "boot" /\ \E n \in Nodes : memory[n] # {}
    /\ early_node_map' = m
    /\ lowest' = [z \in Zones |->
          IF z = ZONE_MOVABLE THEN 0
          ELSE IF z = 0 THEN find_min_pfn_with_active_regions(m)
          ELSE highest_possible(z - 1)]
    /\ highest' = [z \in Zones |-> IF z = ZONE_MOVABLE THEN 0 ELSE highest_possible(z)]
    /\ pc' = "movable"
    /\ UNCHANGED <<core, memory, truncated, calls, walk, movable_pfn, node, zone,
                   high_memory, page_links>>

-----------------------------------------------------------------------------
(* find_zone_movable_pfns_for_nodes: where ZONE_MOVABLE begins.             *)

movable_zone == Max({z \in ArchZones : highest[z] > lowest[z]})
usable_startpfn == lowest[movable_zone]

\* required_kernelcore, once movablecore= has been taken into account.
required_kernelcore ==
    IF core.movable = 0 THEN core.kernel
    ELSE MaxOf(core.kernel, Minus(early_calculate_totalpages,
                                  Roundup(core.movable, MAX_ORDER_NR_PAGES)))

\* A pass over the nodes begins, with `nodes' of them counted.
PassOf(nodes, need) == [nid |-> 0, nodes |-> nodes, need |-> need, share |-> need \div nodes]

BeginMovable ==
    LET usable == Cardinality(HasMemory) IN
    /\ pc = "movable"
    /\ IF required_kernelcore = 0 \/ usable = 0
       THEN pc' = "nodes" /\ walk' = [walk EXCEPT !.nid = 0]
       ELSE pc' = "pass" /\ walk' = PassOf(usable, required_kernelcore)
    /\ UNCHANGED <<map, core, lowest, highest, movable_pfn, node, zone, high_memory,
                   page_links>>

\* Mutant: what lies below the usable zone counts twice.
CoreTwice(s, r) ==
    LET start  == MaxOf(r.start, s.pfn)
        kernel == IF start < usable_startpfn THEN MinOf(r.end, usable_startpfn) - start ELSE 0
        left   == s.left - MinOf(kernel, s.left)
        need   == s.need - MinOf(2 * kernel, s.need)
        from   == MaxOf(start, usable_startpfn)
        size   == MinOf(r.end - from, left)
    IN  IF s.met \/ start >= r.end THEN s
        ELSE IF r.end <= usable_startpfn
        THEN [pfn |-> r.end, need |-> need, left |-> left, met |-> FALSE]
        ELSE [pfn |-> from + size, need |-> need - MinOf(need, size),
              left |-> left - size, met |-> left = size]

\* One range of a node: s.need is required_kernelcore, s.left is
\* kernelcore_remaining, s.pfn is zone_movable_pfn[nid].
CoreFrom(s, r) ==
    LET start  == MaxOf(r.start, s.pfn)
        kernel == IF start < usable_startpfn THEN MinOf(r.end, usable_startpfn) - start ELSE 0
        left   == s.left - MinOf(kernel, s.left)
        need   == s.need - MinOf(kernel, s.need)
        from   == MaxOf(start, usable_startpfn)
        size   == MinOf(r.end - from, left)
    IN  IF s.met \/ start >= r.end THEN s
        ELSE IF r.end <= usable_startpfn
        THEN [pfn |-> r.end, need |-> need, left |-> left, met |-> FALSE]
        ELSE [pfn |-> from + size, need |-> need - MinOf(need, size),
              left |-> left - size, met |-> left = size]

\* One node of a pass.
SpreadKernelcore ==
    LET nid   == walk.nid
        share == IF walk.need < walk.share THEN walk.need \div walk.nodes ELSE walk.share
        R     == Ranges(early_node_map, nid)
        after[i \in 0 .. Len(R)] ==
            IF i = 0 THEN [pfn |-> movable_pfn[nid], need |-> walk.need, left |-> share,
                           met |-> FALSE]
            ELSE CoreFrom(after[i - 1], R[i])
    IN
    /\ pc = "pass" /\ nid < NNodes
    /\ IF nid \in HasMemory
       THEN /\ movable_pfn' = [movable_pfn EXCEPT ![nid] = after[Len(R)].pfn]
            /\ walk' = [walk EXCEPT !.nid = @ + 1, !.need = after[Len(R)].need, !.share = share]
       ELSE UNCHANGED movable_pfn /\ walk' = [walk EXCEPT !.nid = @ + 1]
    /\ UNCHANGED <<map, core, pc, lowest, highest, node, zone, high_memory, page_links>>

\* Another pass with a node less, or the starts are aligned.
EndOfPass ==
    /\ pc = "pass" /\ walk.nid = NNodes
    /\ IF walk.nodes > 1 /\ walk.need > walk.nodes - 1
       THEN walk' = PassOf(walk.nodes - 1, walk.need) /\ UNCHANGED <<pc, movable_pfn>>
       ELSE /\ walk' = [walk EXCEPT !.nid = 0]
            /\ movable_pfn' = [n \in Nodes |-> Roundup(movable_pfn[n], MAX_ORDER_NR_PAGES)]
            /\ pc' = "nodes"
    /\ UNCHANGED <<map, core, lowest, highest, node, zone, high_memory, page_links>>

-----------------------------------------------------------------------------
(* The sizes of the zones.                                                  *)

\* Mutant: a zone that lies above the start of ZONE_MOVABLE keeps its range.
AdjustedBelow(nid, z, start, end) ==
    LET mv == movable_pfn[nid] IN
    IF mv # 0 /\ z = ZONE_MOVABLE
    THEN [start |-> mv, end |-> MinOf(node_end_pfn(nid), highest[movable_zone])]
    ELSE IF mv # 0 /\ start < mv /\ end > mv THEN [start |-> start, end |-> mv]
    ELSE [start |-> start, end |-> end]

\* adjust_zone_range_for_zone_movable
Adjusted(nid, z, start, end) ==
    LET mv == movable_pfn[nid] IN
    IF mv = 0 THEN [start |-> start, end |-> end]
    ELSE IF z = ZONE_MOVABLE
    THEN [start |-> mv, end |-> MinOf(node_end_pfn(nid), highest[movable_zone])]
    ELSE IF start < mv /\ end > mv THEN [start |-> start, end |-> mv]
    ELSE IF start >= mv THEN [start |-> end, end |-> end]
    ELSE [start |-> start, end |-> end]

zone_spanned_pages_in_node(nid, z) ==
    LET a     == Adjusted(nid, z, lowest[z], highest[z])
        first == find_min_pfn_for_node(nid)
        last  == node_end_pfn(nid)
    IN  IF a.end < first \/ a.start > last THEN 0
        ELSE Minus(MinOf(a.end, last), MaxOf(a.start, first))

\* One turn of the loop of __absent_pages_in_range.
Hole(s, r, start, end) ==
    LET from == MinOf(r.start, end)
        prev == MaxOf(s.prev, start)
    IN  IF s.prev >= end THEN s
        ELSE [prev |-> r.end,
              holes |-> IF from > start THEN Minus(s.holes + from, prev) ELSE s.holes,
              bug |-> s.bug \/ (from > start /\ prev > from)]

\* The pages, and whether BUG_ON(prev_end_pfn > start_pfn) was hit.
__absent_pages_in_range(nid, start, end) ==
    LET R     == Ranges(early_node_map, nid)
        first == MinOf(R[1].start, end)
        after[i \in 0 .. Len(R)] ==
            IF i = 0
            THEN [prev |-> first, bug |-> FALSE,
                  holes |-> IF R[1].start > start THEN Minus(first, start) ELSE 0]
            ELSE Hole(after[i - 1], R[i], start, end)
        s     == after[Len(R)]
    IN  IF R = <<>> THEN [holes |-> 0, bug |-> FALSE]
        ELSE [holes |-> IF end > s.prev THEN Minus(s.holes + end, MaxOf(start, s.prev))
                        ELSE s.holes,
              bug |-> s.bug]

zone_absent_pages_in_node(nid, z) ==
    LET a == Adjusted(nid, z, MaxOf(lowest[z], find_min_pfn_for_node(nid)),
                              MinOf(highest[z], node_end_pfn(nid)))
    IN  __absent_pages_in_range(nid, a.start, a.end)

\* free_area_init_core: present_pages without the pages of the struct pages
\* and the DMA reserve.
Present(z, size, real) ==
    LET memmap == (size + StructsPerPage - 1) \div StructsPerPage
        less   == IF real >= memmap THEN real - memmap ELSE real
    IN  IF z = 0 /\ less > dma_reserve THEN less - dma_reserve ELSE less

\* Every zone begins where the one before it ends.
free_area_init_core(nid) ==
    LET size(z) == zone_spanned_pages_in_node(nid, z)
        start[z \in Zones] ==
            IF z = 0 THEN find_min_pfn_for_node(nid) ELSE start[z - 1] + size(z - 1)
    IN  [z \in Zones |->
            [start |-> IF size(z) = 0 THEN 0 ELSE start[z],
             spanned |-> size(z),
             present |-> Present(z, size(z),
                 Minus(size(z), zone_absent_pages_in_node(nid, z).holes))]]

calculate_node_totalpages(nid) ==
    LET total[z \in Zones] == zone_spanned_pages_in_node(nid, z)
                                  + (IF z = 0 THEN 0 ELSE total[z - 1])
        holes[z \in Zones] == zone_absent_pages_in_node(nid, z).holes
                                  + (IF z = 0 THEN 0 ELSE holes[z - 1])
    IN  [start |-> find_min_pfn_for_node(nid), spanned |-> total[ZONE_MOVABLE],
         present |-> Minus(total[ZONE_MOVABLE], holes[ZONE_MOVABLE])]

Span(zs, z) == zs[z].start .. zs[z].start + zs[z].spanned - 1

\* memmap_init_zone of all zones of a node: the pages they span are linked to
\* them, unless they are seen in another node.
memmap_init_zone(nid, zs) ==
    [p \in Pfns |->
        LET mine == {z \in Zones : p \in Span(zs, z)}
        IN  IF mine # {} /\ early_pfn_in_nid(p, nid) THEN <<nid, Max(mine)>>
            ELSE page_links[p]]

free_area_init_node ==
    LET nid == walk.nid IN
    /\ pc = "nodes" /\ nid < NNodes
    /\ node' = [node EXCEPT ![nid] = calculate_node_totalpages(nid)]
    /\ zone' = [zone EXCEPT ![nid] = free_area_init_core(nid)]
    /\ page_links' = memmap_init_zone(nid, zone'[nid])
    /\ high_memory' = IF node'[nid].present # 0 THEN high_memory \cup {nid} ELSE high_memory
    /\ walk' = [walk EXCEPT !.nid = @ + 1]
    /\ pc' = IF nid = NNodes - 1 THEN "up" ELSE pc
    /\ UNCHANGED <<map, core, lowest, highest, movable_pfn>>

free_area_init_nodes ==
    SortAndLimit \/ BeginMovable \/ SpreadKernelcore \/ EndOfPass \/ free_area_init_node

Next ==
    \/ \E nid \in Nodes, start \in Pfns, end \in 1 .. MaxPfn :
          \/ add_active_range(nid, start, end)
          \/ remove_active_range(nid, start, end)
    \/ remove_all_active_ranges
    \/ \E k \in Kernelcore, m \in Movablecore : cmdline_parse_core(k, m)
    \/ free_area_init_nodes

Spec == Init /\ [][Next]_vars

-----------------------------------------------------------------------------
(* Properties.                                                              *)

\* The variables are of the declared kind: the map stays within its array, and
\* no size or start wraps below zero or leaves physical memory.
TypeOK ==
    /\ early_node_map \in Seq([nid : Nodes, start : 0 .. MaxPfn, end : 0 .. MaxPfn])
    /\ Len(early_node_map) <= MAX_ACTIVE_REGIONS
    /\ core \in [kernel : 0 .. Word - 1, movable : 0 .. Word - 1]
    /\ pc \in {"boot", "movable", "pass", "nodes", "up"}
    /\ walk \in [nid : 0 .. NNodes, nodes : 0 .. NNodes, need : 0 .. Word - 1,
                share : 0 .. Word - 1]
    /\ lowest \in [Zones -> 0 .. MaxPfn] /\ highest \in [Zones -> 0 .. MaxPfn]
    /\ movable_pfn \in [Nodes -> 0 .. MaxPfn + MAX_ORDER_NR_PAGES]
    /\ \A n \in Nodes : node[n] \in [start : 0 .. MaxPfn, spanned : 0 .. MaxPfn,
                                     present : 0 .. MaxPfn]
    /\ \A n \in Nodes, z \in Zones :
          zone[n][z] \in [start : 0 .. MaxPfn, spanned : 0 .. MaxPfn, present : 0 .. MaxPfn]
    /\ high_memory \subseteq Nodes
    /\ page_links \in [Pfns -> (Nodes \X Zones) \cup {NoLink}]
    /\ memory \in [Nodes -> SUBSET Pfns]
    /\ truncated \in BOOLEAN /\ calls \in 0 .. MaxCalls

\* The map says of every node what the architecture has said of it, however
\* ranges were merged, cut and dropped; if one did not fit, no more.
MapIsMemory ==
    \A n \in Nodes :
        /\ Mapped(early_node_map, n) \subseteq memory[n]
        /\ ~ truncated =>
              /\ Mapped(early_node_map, n) = memory[n]
              /\ \A p \in memory[n] : __early_pfn_to_nid(p) = n

\* The spans of two nodes do not overlap.
Apart ==
    \A a, b \in Nodes : \A y, z \in Zones :
        a # b => Span(zone[a], y) \cap Span(zone[b], z) = {}

\* Where a page of a node belongs: to ZONE_MOVABLE from its start on, to the
\* zone of the architecture below it.
ZoneOf(n, p) ==
    IF movable_pfn[n] # 0 /\ p >= movable_pfn[n] THEN ZONE_MOVABLE
    ELSE CHOOSE z \in ArchZones : lowest[z] <= p /\ p < highest[z]

\* Every page of memory is linked to its own node, and there to the zone its
\* page frame belongs to: the starts, which free_area_init_core adds up, and
\* the sizes, which are computed one by one, agree.
PagesInTheirZones ==
    pc = "up" /\ (NODES_SPAN_OTHER_NODES \/ Apart) =>
        \A n \in Nodes : \A p \in Mapped(early_node_map, n) :
            page_links[p] = <<n, ZoneOf(n, p)>>

\* present_pages = spanned - absent is the number of pages of memory in the
\* zone, and BUG_ON(prev_end_pfn > start_pfn) is not reached.
HolesCounted ==
    pc = "up" => \A n \in Nodes : LET mem == Mapped(early_node_map, n) IN
        /\ node[n].present = Cardinality(mem)
        /\ \A z \in Zones :
              LET a == zone_absent_pages_in_node(n, z)
              IN  /\ ~ a.bug
                  /\ zone[n][z].spanned - a.holes = Cardinality(mem \cap Span(zone[n], z))

\* The zones free_area_init_nodes makes fit the memory: no start or size has
\* wrapped, every page is in its own zone, and the holes are counted.
ZonesFit == TypeOK /\ PagesInTheirZones /\ HolesCounted

\* The kernel gets the memory kernelcore= asks for, outside ZONE_MOVABLE, as
\* far as there is any: the passes that spread it over the nodes may stop
\* short of it by less than a page per node.
KernelcoreMet ==
    LET total  == UNION {Mapped(early_node_map, n) : n \in Nodes}
        kernel == {p \in total : page_links[p][2] # ZONE_MOVABLE}
        need   == required_kernelcore
    IN  pc = "up" /\ (NODES_SPAN_OTHER_NODES \/ Apart) =>
            Cardinality(kernel) > MinOf(need, Cardinality(total)) - NNodes

\* "Round-up so that ZONE_MOVABLE is at least as large as what was requested
\* by the user".  The code does not keep this: see the README.
MovablecoreMet ==
    pc = "up" /\ core.movable # 0 /\ core.kernel = 0 =>
        Cardinality({p \in Pfns : page_links[p][2] = ZONE_MOVABLE}) >=
            MinOf(core.movable, Cardinality({p \in Pfns : page_links[p] # NoLink}))
=============================================================================
