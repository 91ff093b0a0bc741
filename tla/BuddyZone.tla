----------------------------- MODULE BuddyZone -----------------------------
(* One zone of the buddy allocator of mm/page_alloc.c, with the per-cpu     *)
(* lists in front of it and the pageblock types that group pages by         *)
(* mobility.                                                                *)
(*                                                                          *)
(* A block is named by its order and by its index among the blocks of that  *)
(* order: page_idx ^ (1 << order) is the neighbour in the pair, and         *)
(* page_idx & ~(1 << order) the block one order up.  A free list is a set:  *)
(* which of its blocks comes first is left open.  The loops that merge and  *)
(* split blocks are one step per turn, taken by the holder of zone->lock.   *)
(* A processor is one context; what runs with interrupts off on it is not   *)
(* interrupted by itself, and everything interleaves with the others.       *)
EXTENDS Integers, FiniteSets

CONSTANTS
    CPUs, NoCPU,
    MAX_ORDER,
    pageblock_order,
    Size,         \* Size[o] = 1 << o
    ZonePages,    \* zone->spanned_pages; the zone starts at page 0
    batch, high,  \* of the per-cpu lists: pcp->batch, pcp->high
    AllocTypes,   \* the migrate types the callers ask for
    Orders,       \* the orders the callers ask for
    Events,       \* what happens besides allocating and freeing
    page_group_by_mobility_disabled

Event == {"isolate", "offline", "reserve", "drain", "split"}

MIGRATE_PCPTYPES == {"unmovable", "reclaimable", "movable"}
MIGRATE_TYPES == MIGRATE_PCPTYPES \cup {"reserve", "isolate"}

ASSUME ZoneAssumption ==
    /\ NoCPU \notin CPUs
    /\ MAX_ORDER \in Nat \ {0}
    /\ pageblock_order \in 1 .. MAX_ORDER - 1
    /\ Size \in [0 .. MAX_ORDER -> Nat \ {0}]
    /\ Size[0] = 1
    /\ \A o \in 0 .. MAX_ORDER - 1 : Size[o + 1] = 2 * Size[o]
    /\ ZonePages \in Nat \ {0}

ASSUME CallerAssumption ==
    /\ AllocTypes \subseteq MIGRATE_PCPTYPES
    /\ Orders \subseteq 0 .. MAX_ORDER - 1
    /\ batch \in Nat \ {0} /\ high \in Nat
    /\ batch <= high \/ batch = 1
    /\ Events \subseteq Event
    /\ page_group_by_mobility_disabled \in BOOLEAN

VARIABLES
    free,      \* free[b] = the list the free block b is on; PG_buddy is set
               \* on the first pages of the blocks in DOMAIN free
    nr_free,   \* zone->free_area[o].nr_free
    nr_pages,  \* NR_FREE_PAGES
    pcp,       \* pcp[c] = the pages on the lists of processor c
    count,     \* pcp->count
    used,      \* the blocks the callers hold
    gone,      \* the blocks taken offline
    blockmt,   \* the migrate type of each pageblock
    lock,      \* the holder of zone->lock
    cpu,       \* what each processor is doing
    pending    \* the processors drain_all_pages has still to reach

vars == <<free, nr_free, nr_pages, pcp, count, used, gone, blockmt, lock, cpu,
          pending>>

Order == 0 .. MAX_ORDER - 1
Block == [o : Order, i : 0 .. ZonePages - 1]
Head(b) == b.i * Size[b.o]
Pages(b) == Head(b) .. Head(b) + Size[b.o] - 1
Page(i) == [o |-> 0, i |-> i]
InZone(b) == Head(b) + Size[b.o] <= ZonePages

pageblock_nr_pages == Size[pageblock_order]
Pageblocks == 0 .. (ZonePages - 1) \div pageblock_nr_pages
PageblockOf(b) == Head(b) \div pageblock_nr_pages

\* A page on a per-cpu list: the list it is on, and page_private, the list of
\* the zone it will go back to.
PcpPage == [i : 0 .. ZonePages - 1, list : MIGRATE_PCPTYPES,
            private : MIGRATE_TYPES]

Steps == {"idle", "rmqueue", "expand", "bulkend", "account", "freeing",
          "drainlock", "drain", "merge"}

Cpu == [pc : Steps,
        blk : Block,           \* the block in hand
        want : Order,          \* the order asked for
        mt : MIGRATE_TYPES,    \* the type asked for, or to free to
        on : MIGRATE_TYPES,    \* the list expand() puts the halves on
        todo : Nat,            \* turns left of the loop
        done : Nat,            \* pages got so far; pages the drain began with
        why : {"one", "high", "zone", "all"}]  \* who called the merge

Idle == [pc |-> "idle", blk |-> Page(0), want |-> 0, mt |-> "movable",
         on |-> "movable", todo |-> 0, done |-> 0, why |-> "one"]

\* The blocks the bootmem allocator will hand over: as large as they come.
Largest(b) ==
    /\ InZone(b)
    /\ b.o < MAX_ORDER - 1 => ~ InZone([o |-> b.o + 1, i |-> b.i \div 2])

\* memmap_init_zone: every page is in use, every pageblock movable.
Init ==
    /\ free = [b \in {} |-> "movable"]
    /\ nr_free = [o \in Order |-> 0]
    /\ nr_pages = 0
    /\ pcp = [c \in CPUs |-> {}]
    /\ count = [c \in CPUs |-> 0]
    /\ used = {b \in Block : Largest(b)}
    /\ gone = {}
    /\ blockmt = [k \in Pageblocks |-> "movable"]
    /\ lock = NoCPU
    /\ cpu = [c \in CPUs |-> Idle]
    /\ pending = {}

-----------------------------------------------------------------------------
(* Helpers.                                                                 *)

At(c, step) == cpu[c].pc = step

\* The block with which b forms a block of the next order.
page_find_buddy(b) == [o |-> b.o, i |-> IF b.i % 2 = 0 THEN b.i + 1 ELSE b.i - 1]
find_combined(b) == [o |-> b.o + 1, i |-> b.i \div 2]
LowerHalf(b) == [o |-> b.o - 1, i |-> 2 * b.i]
UpperHalf(b) == [o |-> b.o - 1, i |-> 2 * b.i + 1]

page_is_buddy(b) == page_find_buddy(b) \in DOMAIN free

With(f, b, mt) == [x \in DOMAIN f \cup {b} |-> IF x = b THEN mt ELSE f[x]]
Without(f, b) == [x \in DOMAIN f \ {b} |-> f[x]]

\* set_pageblock_migratetype for the pageblocks in K.
set_pageblock_migratetype(K, mt) ==
    [k \in Pageblocks |->
        IF k \in K THEN IF page_group_by_mobility_disabled
                        THEN "unmovable" ELSE mt
                   ELSE blockmt[k]]

\* Free blocks that begin in pageblock k; none if k runs over the zone's end.
Movable(k) ==
    {b \in DOMAIN free : PageblockOf(b) = k /\ (k + 1) * pageblock_nr_pages <= ZonePages}
move_freepages_block(k, mt) ==
    [b \in DOMAIN free |-> IF b \in Movable(k) THEN mt ELSE free[b]]
PagesMoved(k) == Cardinality(UNION {Pages(b) : b \in Movable(k)})

OfType(o, mt) == {b \in DOMAIN free : b.o = o /\ free[b] = mt}

\* The blocks __rmqueue_smallest may take.
Smallest(order, mt) ==
    {b \in DOMAIN free :
        /\ free[b] = mt /\ b.o >= order
        /\ \A o \in order .. b.o - 1 : OfType(o, mt) = {}}

\* Each row ends with an element that is not spelled out, 0.
fallbacks(mt) ==
    CASE mt = "unmovable"   -> <<"reclaimable", "movable", "reserve", "unmovable">>
      [] mt = "reclaimable" -> <<"unmovable", "movable", "reserve", "unmovable">>
      [] mt = "movable"     -> <<"reclaimable", "unmovable", "reserve", "unmovable">>

\* The blocks __rmqueue_fallback may take: of the largest order, and there of
\* the first type in the row.  The reserve is left for later.
Fallback(order, mt) ==
    LET Candidate(o, n) ==
            IF fallbacks(mt)[n] = "reserve" THEN {} ELSE OfType(o, fallbacks(mt)[n])
    IN  {b \in DOMAIN free :
            /\ b.o >= order
            /\ \A o \in b.o + 1 .. MAX_ORDER - 1 :
                   \A n \in 1 .. 4 : Candidate(o, n) = {}
            /\ \E n \in 1 .. 4 : /\ b \in Candidate(b.o, n)
                                 /\ \A m \in 1 .. n - 1 : Candidate(b.o, m) = {}}

-----------------------------------------------------------------------------
(* Allocation: buffered_rmqueue.                                            *)

Take(c, q) ==
    /\ pcp' = [pcp EXCEPT ![c] = @ \ {q}]
    /\ used' = used \cup {Page(q.i)}

\* Order 0, and the list of the type is not empty.
AllocHot(c, mt) ==
    /\ At(c, "idle") /\ 0 \in Orders
    /\ \E q \in pcp[c] : q.list = mt /\ Take(c, q)
    /\ count' = [count EXCEPT ![c] = @ - 1]
    /\ UNCHANGED <<free, nr_free, nr_pages, gone, blockmt, lock, cpu, pending>>

\* Order 0 and the list is empty: rmqueue_bulk fetches a batch of pages.  A
\* larger order: straight from the zone.
buffered_rmqueue(c, order, mt) ==
    /\ At(c, "idle") /\ lock = NoCPU
    /\ order = 0 => \A q \in pcp[c] : q.list # mt
    /\ lock' = c
    /\ cpu' = [cpu EXCEPT ![c] =
          [pc |-> "rmqueue", blk |-> Page(0), want |-> order, mt |-> mt, on |-> mt,
           todo |-> IF order = 0 THEN batch ELSE 1, done |-> 0, why |-> "one"]]
    /\ UNCHANGED <<free, nr_free, nr_pages, pcp, count, used, gone, blockmt, pending>>

\* Remove b from its list, to be split down to the order asked for.
Grab(c, b, f, on) ==
    /\ free' = Without(f, b)
    /\ nr_free' = [nr_free EXCEPT ![b.o] = @ - 1]
    /\ cpu' = [cpu EXCEPT ![c] =
          [pc |-> "expand", blk |-> b, want |-> @.want, mt |-> @.mt, on |-> on,
           todo |-> @.todo, done |-> @.done, why |-> @.why]]
    /\ UNCHANGED <<nr_pages, pcp, count, used, gone, lock, pending>>

__rmqueue_smallest(c) ==
    /\ At(c, "rmqueue")
    /\ \E b \in Smallest(cpu[c].want, cpu[c].mt) : Grab(c, b, free, cpu[c].mt)
    /\ UNCHANGED blockmt

\* Take b for a type it does not belong to.
Steal(c, b) ==
    LET mt   == cpu[c].mt
        k    == PageblockOf(b)
        move == \/ b.o >= pageblock_order \div 2
                \/ mt = "reclaimable"
                \/ page_group_by_mobility_disabled
        half == \/ PagesMoved(k) >= Size[pageblock_order - 1]
                \/ page_group_by_mobility_disabled
        span == {PageblockOf(Page(p)) : p \in Pages(b)}
    IN  /\ Grab(c, b, IF move THEN move_freepages_block(k, mt) ELSE free,
                IF move THEN mt ELSE free[b])
        /\ blockmt' = IF b.o >= pageblock_order
                      THEN set_pageblock_migratetype(span, mt)
                      ELSE IF move /\ half
                           THEN set_pageblock_migratetype({k}, mt)
                           ELSE blockmt

__rmqueue_fallback(c) ==
    /\ At(c, "rmqueue")
    /\ Smallest(cpu[c].want, cpu[c].mt) = {}
    /\ \E b \in Fallback(cpu[c].want, cpu[c].mt) : Steal(c, b)

NothingElse(c) ==
    /\ At(c, "rmqueue")
    /\ Smallest(cpu[c].want, cpu[c].mt) = {}
    /\ Fallback(cpu[c].want, cpu[c].mt) = {}

\* __rmqueue's second turn: the reserve.
RetryReserve(c) ==
    /\ NothingElse(c)
    /\ \E b \in Smallest(cpu[c].want, "reserve") : Grab(c, b, free, "reserve")
    /\ UNCHANGED blockmt

\* Nothing at all: a bulk ends early, a larger order fails.
RmqueueFails(c) ==
    /\ NothingElse(c)
    /\ Smallest(cpu[c].want, "reserve") = {}
    /\ IF cpu[c].want = 0
       THEN cpu' = [cpu EXCEPT ![c].pc = "bulkend"] /\ UNCHANGED lock
       ELSE cpu' = [cpu EXCEPT ![c] = Idle] /\ lock' = NoCPU
    /\ UNCHANGED <<free, nr_free, nr_pages, pcp, count, used, gone, blockmt, pending>>

\* Mutant: the half that is kept is put on the list.
ExpandWrongHalf(c) ==
    LET b == cpu[c].blk IN
    /\ At(c, "expand") /\ b.o > cpu[c].want
    /\ free' = With(free, LowerHalf(b), cpu[c].on)
    /\ nr_free' = [nr_free EXCEPT ![b.o - 1] = @ + 1]
    /\ cpu' = [cpu EXCEPT ![c].blk = LowerHalf(b)]
    /\ UNCHANGED <<nr_pages, pcp, count, used, gone, blockmt, lock, pending>>

\* One turn of expand(): the upper half goes on the list of its order.
expand(c) ==
    LET b == cpu[c].blk IN
    /\ At(c, "expand") /\ b.o > cpu[c].want
    /\ free' = With(free, UpperHalf(b), cpu[c].on)
    /\ nr_free' = [nr_free EXCEPT ![b.o - 1] = @ + 1]
    /\ cpu' = [cpu EXCEPT ![c].blk = LowerHalf(b)]
    /\ UNCHANGED <<nr_pages, pcp, count, used, gone, blockmt, lock, pending>>

\* One page of rmqueue_bulk.  page_private becomes the type that was asked
\* for, wherever the page comes from.
BulkGot(c) ==
    /\ At(c, "expand") /\ cpu[c].blk.o = 0 /\ cpu[c].want = 0
    /\ pcp' = [pcp EXCEPT ![c] = @ \cup
          {[i |-> cpu[c].blk.i, list |-> cpu[c].mt, private |-> cpu[c].mt]}]
    /\ cpu' = [cpu EXCEPT ![c] =
          [pc |-> IF @.todo = 1 THEN "bulkend" ELSE "rmqueue",
           blk |-> Page(0), want |-> 0, mt |-> @.mt, on |-> @.mt,
           todo |-> @.todo - 1, done |-> @.done + 1, why |-> @.why]]
    /\ UNCHANGED <<free, nr_free, nr_pages, count, used, gone, blockmt, lock, pending>>

\* rmqueue_bulk returns and the caller gets one of the pages, if any came.
BulkEnd(c) ==
    /\ At(c, "bulkend")
    /\ nr_pages' = nr_pages - cpu[c].done
    /\ lock' = NoCPU
    /\ IF cpu[c].done = 0
       THEN UNCHANGED <<pcp, used, count>>
       ELSE /\ \E q \in pcp[c] : q.list = cpu[c].mt /\ Take(c, q)
            /\ count' = [count EXCEPT ![c] = @ + cpu[c].done - 1]
    /\ cpu' = [cpu EXCEPT ![c] = Idle]
    /\ UNCHANGED <<free, nr_free, gone, blockmt, pending>>

\* __rmqueue returns a larger block: the lock is given back first, the zone's
\* counter comes after it.
RmqueueGot(c) ==
    /\ At(c, "expand") /\ cpu[c].want > 0 /\ cpu[c].blk.o = cpu[c].want
    /\ lock' = NoCPU
    /\ cpu' = [cpu EXCEPT ![c].pc = "account"]
    /\ UNCHANGED <<free, nr_free, nr_pages, pcp, count, used, gone, blockmt, pending>>

\* Mutant: one page is subtracted, whatever the order.
AccountOne(c) ==
    /\ At(c, "account")
    /\ nr_pages' = nr_pages - 1
    /\ used' = used \cup {cpu[c].blk}
    /\ cpu' = [cpu EXCEPT ![c] = Idle]
    /\ UNCHANGED <<free, nr_free, pcp, count, gone, blockmt, lock, pending>>

Account(c) ==
    /\ At(c, "account")
    /\ nr_pages' = nr_pages - Size[cpu[c].want]
    /\ used' = used \cup {cpu[c].blk}
    /\ cpu' = [cpu EXCEPT ![c] = Idle]
    /\ UNCHANGED <<free, nr_free, pcp, count, gone, blockmt, lock, pending>>

-----------------------------------------------------------------------------
(* Freeing.                                                                 *)

\* __free_pages: the caller gives b up and the type of its pageblock is read,
\* without the lock.
__free_pages(c, b) ==
    /\ At(c, "idle")
    /\ b \in used
    /\ used' = used \ {b}
    /\ cpu' = [cpu EXCEPT ![c] =
          [pc |-> "freeing", blk |-> b, want |-> 0, mt |-> blockmt[PageblockOf(b)],
           on |-> "movable", todo |-> 0, done |-> 0, why |-> "one"]]
    /\ UNCHANGED <<free, nr_free, nr_pages, pcp, count, gone, blockmt, lock, pending>>

ToZone(c) == cpu[c].blk.o > 0 \/ cpu[c].mt = "isolate"

\* free_one_page, of __free_pages_ok and of a page of an isolated block.
free_one_page(c) ==
    /\ At(c, "freeing") /\ lock = NoCPU
    /\ ToZone(c)
    /\ lock' = c
    /\ nr_pages' = nr_pages + Size[cpu[c].blk.o]
    /\ cpu' = [cpu EXCEPT ![c].pc = "merge"]
    /\ UNCHANGED <<free, nr_free, pcp, count, used, gone, blockmt, pending>>

\* The drain of n pages that processor c begins for the reason why.
Draining(n, why) ==
    [pc |-> "drainlock", blk |-> Page(0), want |-> 0, mt |-> "movable",
     on |-> "movable", todo |-> n, done |-> n, why |-> why]

\* free_hot_cold_page: a page of the reserve goes on the movable list.
free_hot_cold_page(c) ==
    LET mt == cpu[c].mt IN
    /\ At(c, "freeing") /\ ~ ToZone(c)
    /\ pcp' = [pcp EXCEPT ![c] = @ \cup
          {[i |-> cpu[c].blk.i, private |-> mt,
            list |-> IF mt = "reserve" THEN "movable" ELSE mt]}]
    /\ count' = [count EXCEPT ![c] = @ + 1]
    /\ cpu' = [cpu EXCEPT ![c] =
          IF count[c] + 1 >= high THEN Draining(batch, "high") ELSE Idle]
    /\ UNCHANGED <<free, nr_free, nr_pages, used, gone, blockmt, lock, pending>>

free_pcppages_bulk(c) ==
    /\ At(c, "drainlock") /\ lock = NoCPU
    /\ lock' = c
    /\ nr_pages' = nr_pages + cpu[c].todo
    /\ cpu' = [cpu EXCEPT ![c].pc = "drain"]
    /\ UNCHANGED <<free, nr_free, pcp, count, used, gone, blockmt, pending>>

\* One page of free_pcppages_bulk, from whichever list the round reaches.
DrainOne(c) ==
    /\ At(c, "drain") /\ cpu[c].todo > 0
    /\ \E q \in pcp[c] :
          /\ pcp' = [pcp EXCEPT ![c] = @ \ {q}]
          /\ cpu' = [cpu EXCEPT ![c] =
                [pc |-> "merge", blk |-> Page(q.i), want |-> 0, mt |-> q.private,
                 on |-> "movable", todo |-> @.todo - 1, done |-> @.done,
                 why |-> @.why]]
    /\ UNCHANGED <<free, nr_free, nr_pages, count, used, gone, blockmt, lock, pending>>

\* Mutant: page->count is reset before the pages are gone.
DrainEndTwice(c) ==
    /\ At(c, "drain") /\ cpu[c].todo = 0
    /\ lock' = NoCPU
    /\ count' = [count EXCEPT ![c] = IF cpu[c].why = "high" THEN @ ELSE @ - cpu[c].done]
    /\ cpu' = [cpu EXCEPT ![c] = Idle]
    /\ UNCHANGED <<free, nr_free, nr_pages, pcp, used, gone, blockmt, pending>>

\* free_pcppages_bulk returns; its caller corrects pcp->count.
DrainEnd(c) ==
    /\ At(c, "drain") /\ cpu[c].todo = 0
    /\ lock' = NoCPU
    /\ count' = [count EXCEPT ![c] = IF cpu[c].why = "all" THEN 0 ELSE @ - cpu[c].done]
    /\ cpu' = [cpu EXCEPT ![c] = Idle]
    /\ UNCHANGED <<free, nr_free, nr_pages, pcp, used, gone, blockmt, pending>>

\* Mutant: the merge stops one order early.
MergeableLow(b) == b.o < MAX_ORDER - 2 /\ page_is_buddy(b)
Mergeable(b) == b.o < MAX_ORDER - 1 /\ page_is_buddy(b)

\* One turn of __free_one_page: the neighbour is free and of the same order.
MergeOne(c) ==
    LET b == cpu[c].blk IN
    /\ At(c, "merge") /\ Mergeable(b)
    /\ free' = Without(free, page_find_buddy(b))
    /\ nr_free' = [nr_free EXCEPT ![b.o] = @ - 1]
    /\ cpu' = [cpu EXCEPT ![c].blk = find_combined(b)]
    /\ UNCHANGED <<nr_pages, pcp, count, used, gone, blockmt, lock, pending>>

\* The block goes on the list of the type it was freed to.
__free_one_page(c) ==
    LET b == cpu[c].blk IN
    /\ At(c, "merge") /\ ~ Mergeable(b)
    /\ free' = With(free, b, cpu[c].mt)
    /\ nr_free' = [nr_free EXCEPT ![b.o] = @ + 1]
    /\ IF cpu[c].why = "one"
       THEN cpu' = [cpu EXCEPT ![c] = Idle] /\ lock' = NoCPU
       ELSE /\ cpu' = [cpu EXCEPT ![c] =
                  [pc |-> "drain", blk |-> Page(0), want |-> 0, mt |-> "movable",
                   on |-> "movable", todo |-> @.todo, done |-> @.done, why |-> @.why]]
            /\ UNCHANGED lock
    /\ UNCHANGED <<nr_pages, pcp, count, used, gone, blockmt, pending>>

-----------------------------------------------------------------------------
(* The rest.                                                                *)

\* drain_local_pages, on the processor itself or by drain_all_pages.
drain_pages(c) ==
    /\ "drain" \in Events \/ c \in pending
    /\ At(c, "idle")
    /\ cpu' = [cpu EXCEPT ![c] = Draining(count[c], "all")]
    /\ pending' = pending \ {c}
    /\ UNCHANGED <<free, nr_free, nr_pages, pcp, count, used, gone, blockmt, lock>>

drain_zone_pages(c) ==
    /\ "drain" \in Events
    /\ At(c, "idle")
    /\ cpu' = [cpu EXCEPT ![c] =
          Draining(IF count[c] >= batch THEN batch ELSE count[c], "zone")]
    /\ UNCHANGED <<free, nr_free, nr_pages, pcp, count, used, gone, blockmt, lock, pending>>

\* The zone is not ZONE_MOVABLE: only movable pageblocks can be isolated.
set_migratetype_isolate(k) ==
    /\ "isolate" \in Events
    /\ lock = NoCPU /\ pending = {}
    /\ blockmt[k] = "movable"
    /\ blockmt' = set_pageblock_migratetype({k}, "isolate")
    /\ free' = move_freepages_block(k, "isolate")
    /\ pending' = CPUs
    /\ UNCHANGED <<nr_free, nr_pages, pcp, count, used, gone, lock, cpu>>

unset_migratetype_isolate(k) ==
    /\ lock = NoCPU /\ pending = {}
    /\ blockmt[k] = "isolate"
    /\ blockmt' = set_pageblock_migratetype({k}, "movable")
    /\ free' = move_freepages_block(k, "movable")
    /\ UNCHANGED <<nr_free, nr_pages, pcp, count, used, gone, lock, cpu, pending>>

\* A whole range of the largest order goes offline, once every page of it is
\* found free and isolated (test_pages_isolated, which is not in this file).
__offline_isolated_pages(c, r) ==
    LET range == {b \in DOMAIN free : Pages(b) \cap Pages(r) # {}} IN
    /\ "offline" \in Events
    /\ lock = NoCPU /\ pending = {} /\ At(c, "idle")
    /\ r \in Block /\ r.o = MAX_ORDER - 1 /\ InZone(r)
    /\ \A p \in Pages(r) : blockmt[PageblockOf(Page(p))] = "isolate"
    /\ Pages(r) \subseteq UNION {Pages(b) : b \in range}
    /\ \A b \in range : free[b] = "isolate"
    /\ free' = [b \in DOMAIN free \ range |-> free[b]]
    /\ nr_free' = [o \in Order |->
                      nr_free[o] - Cardinality({b \in range : b.o = o})]
    /\ nr_pages' = nr_pages - Size[MAX_ORDER - 1]
    /\ gone' = gone \cup range
    /\ UNCHANGED <<pcp, count, used, blockmt, lock, cpu, pending>>

\* setup_zone_migrate_reserve: of the movable and reserved pageblocks the
\* first n are the reserve.
Rank(k) == Cardinality({j \in Pageblocks : j < k /\ blockmt[j] \in {"movable", "reserve"}})
Reserved(n) == {k \in Pageblocks : blockmt[k] \in {"movable", "reserve"} /\ Rank(k) < n}
setup_zone_migrate_reserve(n) ==
    LET new    == Reserved(n)
        old    == {k \in Pageblocks : blockmt[k] = "reserve"}
        to(b)  == IF \E k \in new \ old : b \in Movable(k) THEN "reserve"
                  ELSE IF \E k \in old \ new : b \in Movable(k) THEN "movable"
                  ELSE free[b]
    IN  /\ "reserve" \in Events
        /\ lock = NoCPU /\ ~ page_group_by_mobility_disabled
        /\ blockmt' = [k \in Pageblocks |->
              IF k \in new THEN "reserve" ELSE IF k \in old THEN "movable" ELSE blockmt[k]]
        /\ free' = [b \in DOMAIN free |-> to(b)]
        /\ UNCHANGED <<nr_free, nr_pages, pcp, count, used, gone, lock, cpu, pending>>

\* A caller turns a block into single pages.
split_page(b) ==
    /\ "split" \in Events
    /\ b \in used /\ b.o > 0
    /\ used' = (used \ {b}) \cup {Page(p) : p \in Pages(b)}
    /\ UNCHANGED <<free, nr_free, nr_pages, pcp, count, gone, blockmt, lock, cpu, pending>>

Alloc(c) ==
    \E mt \in AllocTypes :
        \/ AllocHot(c, mt)
        \/ \E order \in Orders : buffered_rmqueue(c, order, mt)

Rmqueue(c) ==
    \/ __rmqueue_smallest(c) \/ __rmqueue_fallback(c) \/ RetryReserve(c)
    \/ RmqueueFails(c) \/ expand(c) \/ BulkGot(c) \/ BulkEnd(c)
    \/ RmqueueGot(c) \/ Account(c)

Free(c) ==
    \/ \E b \in used : __free_pages(c, b)
    \/ free_one_page(c) \/ free_hot_cold_page(c) \/ free_pcppages_bulk(c)
    \/ DrainOne(c) \/ DrainEnd(c) \/ MergeOne(c) \/ __free_one_page(c)
    \/ drain_pages(c) \/ drain_zone_pages(c)

Next ==
    \/ \E c \in CPUs : Alloc(c) \/ Rmqueue(c) \/ Free(c)
    \/ \E k \in Pageblocks : set_migratetype_isolate(k) \/ unset_migratetype_isolate(k)
    \/ \E c \in CPUs, r \in Block : __offline_isolated_pages(c, r)
    \/ \E n \in 0 .. 2 : setup_zone_migrate_reserve(n)
    \/ \E b \in used : split_page(b)

Spec == Init /\ [][Next]_vars

-----------------------------------------------------------------------------
(* Properties.                                                              *)

\* The variables are of the declared kind: no block outside the zone is ever
\* formed by a merge or a split, no free list has a type of its own.
TypeOK ==
    /\ DOMAIN free \subseteq Block /\ free \in [DOMAIN free -> MIGRATE_TYPES]
    /\ nr_free \in [Order -> Int] /\ nr_pages \in Int
    /\ pcp \in [CPUs -> SUBSET PcpPage] /\ count \in [CPUs -> Int]
    /\ used \subseteq Block /\ gone \subseteq Block
    /\ blockmt \in [Pageblocks -> MIGRATE_TYPES]
    /\ lock \in CPUs \cup {NoCPU}
    /\ cpu \in [CPUs -> Cpu]
    /\ pending \subseteq CPUs

\* Who has which block: the lists, the callers, and a processor that is
\* splitting, merging, handing out or giving back the block in its hands.
Carries == {"expand", "account", "freeing", "merge"}
Owned ==
    {<<"free", NoCPU, b>> : b \in DOMAIN free}
    \cup {<<"used", NoCPU, b>> : b \in used}
    \cup {<<"gone", NoCPU, b>> : b \in gone}
    \cup (UNION {{<<"pcp", <<c, q>>, Page(q.i)>> : q \in pcp[c]} : c \in CPUs})
    \cup {<<"hand", c, cpu[c].blk>> : c \in {d \in CPUs : cpu[d].pc \in Carries}}

\* No page is in two places: what a caller got from the allocator is on no
\* list, on no processor's per-cpu list and with no other caller, whatever
\* splits and merges are under way (__free_one_page, expand).
NoOverlap ==
    \A x, y \in Owned : x # y => Pages(x[3]) \cap Pages(y[3]) = {}

\* No page gets lost: merging, splitting and draining account for all of them.
NoLeak == \A p \in 0 .. ZonePages - 1 : \E x \in Owned : p \in Pages(x[3])

\* Every page is in one place: with a caller, on one list, or in the hands of
\* one processor inside __free_one_page, expand or free_pcppages_bulk.
OnePlace == TypeOK /\ NoOverlap /\ NoLeak

\* "If a block is freed, and its buddy is also free, then this triggers
\* coalescing": no two free blocks could be one, even while a processor is
\* half-way through a split or a merge.
Coalesced ==
    \A b \in DOMAIN free :
        b.o < MAX_ORDER - 1 => page_find_buddy(b) \notin DOMAIN free

FreePages == Cardinality(UNION {Pages(b) : b \in DOMAIN free})

\* What zone_watermark_ok reads is right whenever no processor is inside the
\* allocator, and never promises more than there is when the lock is free,
\* except for blocks handed out and not yet subtracted (buffered_rmqueue).
Counted ==
    /\ \A o \in Order :
          lock = NoCPU => nr_free[o] = Cardinality({b \in DOMAIN free : b.o = o})
    /\ lock = NoCPU =>
          nr_pages = FreePages +
              Cardinality(UNION {Pages(cpu[c].blk) : c \in {d \in CPUs : At(d, "account")}})

\* free_pcppages_bulk looks for a list that is not empty in a loop with no
\* other exit, holding zone->lock: there must be one.
DrainFinds ==
    \A c \in CPUs : At(c, "drain") /\ cpu[c].todo > 0 => pcp[c] # {}

\* "page allocater never alloc memory from ISOLATE block": once the per-cpu
\* lists have been drained, nothing of such a pageblock is handed out.  The
\* code does not keep this: see the README.
NeverFromIsolated ==
    [][\A b \in used' \ used :
          /\ pending = {}
          /\ \A u \in used : Pages(b) \cap Pages(u) = {}
          => blockmt[PageblockOf(b)] # "isolate"]_vars
=============================================================================
