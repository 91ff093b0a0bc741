------------------------------ MODULE SlowPath ------------------------------
(* __alloc_pages_nodemask of mm/page_alloc.c for tasks that compete for the *)
(* zones of one zonelist: the watermark check and the take that follows it  *)
(* without a lock over both, the zonelist cache, the slow path with its     *)
(* retries, direct reclaim and the OOM killer, and the kcached thread of    *)
(* fs/drop_caches.c, which every allocation that fails wakes up.            *)
(*                                                                          *)
(* Pages have no names here (BuddyZone has them): a zone is the number of   *)
(* its free blocks of each order, and a freed block may or may not find its *)
(* neighbours free.  Reclaim, writeback, kswapd and the choice of the OOM   *)
(* victim are not in the repository; they are modelled by what the          *)
(* allocator sees of them.  Cpusets, node masks and the per-cpu lists are   *)
(* left out: every zone of the list is allowed.                             *)
EXTENDS Integers, FiniteSets

CONSTANTS
    Tasks, NoTask,
    NZones,          \* the zonelist of a request for zone n is n, n - 1, ..., 1
    Highmem,         \* the zones a __GFP_HIGHMEM request begins at
    MaxOrder,        \* MAX_ORDER - 1
    PAGE_ALLOC_COSTLY_ORDER,
    Size,            \* Size[o] = 1 << o
    Present,         \* Present[z][o] = free blocks of order o at the start
    Clean, Dirty,    \* pages in the page cache at the start
    watermark,       \* watermark[z] = [min |-> , low |-> , high |-> ]
    lowmem_reserve,  \* lowmem_reserve[z][class]
    Requests,        \* what the tasks ask for
    NUMA,            \* NUMA_BUILD && nr_online_nodes > 1
    zone_reclaim_mode, oom_killer_disabled,
    fail_page_alloc, \* is fault injection on; min_order is its default, 1
    MaxAsked         \* bound on the requests of a behaviour

Zones == 1 .. NZones
Order == 0 .. MaxOrder

\* gfp_mask and what gfp_to_alloc_flags reads of the task that asks.
Request == [order : Order, zone : Zones, wait : BOOLEAN, high : BOOLEAN,
            fs : BOOLEAN, noretry : BOOLEAN, nofail : BOOLEAN, repeat : BOOLEAN,
            thisnode : BOOLEAN, nomemalloc : BOOLEAN, memalloc : BOOLEAN,
            rt : BOOLEAN]

ASSUME TasksAssumption == IsFiniteSet(Tasks) /\ Tasks # {} /\ NoTask \notin Tasks
ASSUME ZonesAssumption ==
    /\ NZones \in Nat \ {0} /\ MaxOrder \in Nat /\ Highmem \subseteq Zones
    /\ Size \in [Order -> Nat \ {0}] /\ Size[0] = 1
    /\ \A o \in 0 .. MaxOrder - 1 : Size[o + 1] = 2 * Size[o]
    /\ watermark \in [Zones -> [min : Nat, low : Nat, high : Nat]]
    /\ \A z \in Zones : /\ watermark[z].min <= watermark[z].low
                        /\ watermark[z].min <= watermark[z].high
    /\ lowmem_reserve \in [Zones -> [Zones -> Nat]]
    /\ Present \in [Zones -> [Order -> Nat]]
    /\ Clean \in [Zones -> Nat] /\ Dirty \in [Zones -> Nat]
ASSUME RequestsAssumption ==
    /\ Requests \subseteq Request /\ Requests # {}
    /\ NUMA \in BOOLEAN /\ zone_reclaim_mode \in BOOLEAN
    /\ oom_killer_disabled \in BOOLEAN /\ fail_page_alloc \in BOOLEAN
    /\ MaxAsked \in Nat /\ PAGE_ALLOC_COSTLY_ORDER \in Nat

VARIABLES
    area,      \* area[z][o] = zone->free_area[o].nr_free
    nr,        \* NR_FREE_PAGES of each zone
    clean,     \* pages of each zone in the page cache that can be dropped
    dirty,     \* pages of each zone that have to be written first
    held,      \* held[t][z][o] = the blocks task t has got
    task,      \* where each task is
    fullzones, \* of the zonelist cache
    oom,       \* the task that has set ZONE_OOM_LOCKED
    memdie,    \* the tasks with TIF_MEMDIE
    done,      \* kcached_cmp.done
    kc,        \* what kcached is doing
    asked,     \* requests so far
    stale,     \* history: an allocation failed and kcached has not begun since
    floor      \* history: the lowest mark a taker of each zone was entitled to

mem == <<area, nr, clean, dirty, held>>
rest == <<done, kc, asked, stale>>
vars == <<mem, task, fullzones, oom, memdie, rest, floor>>

Marks == {"min", "low", "high", "none"}
Task ==
    [pc : {"idle", "scan", "recheck", "take", "restart", "rebalance", "prio",
           "desperate", "reclaim", "progress", "noprogress", "outofmem", "retry", "nopage"},
     req : Request,
     z : 0 .. NZones,                \* the zone the scan has come to
     wm : Marks,                     \* the watermark it applies
     nowm : BOOLEAN,                 \* ALLOC_NO_WATERMARKS in alloc_flags
     zlc : BOOLEAN, setup : BOOLEAN, \* zlc_active, did_zlc_setup
     seen : SUBSET Zones,            \* history: zones looked at closely
     back : {"restart", "rebalance", "prio", "retry", "outofmem"},
     reclaimed : Nat]                \* pages_reclaimed, as far as it matters

Idle == [pc |-> "idle", req |-> CHOOSE r \in Requests : TRUE, z |-> 0, wm |-> "low",
         nowm |-> FALSE, zlc |-> FALSE, setup |-> FALSE, seen |-> {},
         back |-> "restart", reclaimed |-> 0]

Nothing == [z \in Zones |-> [o \in Order |-> 0]]
PagesIn(blocks) ==
    LET upto[o \in Order] ==
            blocks[o] * Size[o] + (IF o = 0 THEN 0 ELSE upto[o - 1])
    IN  upto[MaxOrder]

\* At the start no zone is below its minimum: the watermarks are a fraction of
\* what is there.
ASSUME StartAssumption == \A z \in Zones : PagesIn(Present[z]) >= watermark[z].min

Init ==
    /\ area = Present
    /\ nr = [z \in Zones |-> PagesIn(Present[z])]
    /\ clean = Clean /\ dirty = Dirty
    /\ held = [t \in Tasks |-> Nothing]
    /\ task = [t \in Tasks |-> Idle]
    /\ fullzones = {} /\ oom = NoTask /\ memdie = {}
    /\ done = 0 /\ kc = "wait" /\ asked = 0 /\ stale = FALSE
    /\ floor = [z \in Zones |-> watermark[z].min]

-----------------------------------------------------------------------------
(* Blocks of a zone.                                                        *)

At(t, step) == task[t].pc = step

\* The orders a block of the order asked for can be split from; the smallest.
Enough(z, order) == {o \in Order : o >= order /\ area[z][o] > 0}
Smallest(z, order) == CHOOSE o \in Enough(z, order) : \A p \in Enough(z, order) : o <= p

\* One block of order from is taken and what is not needed goes back.
Split(a, from, order) ==
    [o \in Order |-> IF o = from THEN a[o] - 1
                     ELSE IF o \in order .. from - 1 THEN a[o] + 1 ELSE a[o]]

\* A block of this order comes back and meets free neighbours up to order to.
Merges(a, order) ==
    {to \in order .. MaxOrder : \A o \in order .. to - 1 : a[o] > 0}
Merged(a, order, to) ==
    [o \in Order |-> IF o = to THEN a[o] + 1
                     ELSE IF o \in order .. to - 1 THEN a[o] - 1 ELSE a[o]]

Give(z, order) ==
    /\ \E to \in Merges(area[z], order) :
          area' = [area EXCEPT ![z] = Merged(area[z], order, to)]
    /\ nr' = [nr EXCEPT ![z] = @ + Size[order]]

\* A clean page of the cache is dropped.
Drop(z) ==
    /\ clean[z] > 0
    /\ clean' = [clean EXCEPT ![z] = @ - 1]
    /\ Give(z, 0)
    /\ UNCHANGED <<dirty, held>>

Cached == {z \in Zones : clean[z] > 0}

-----------------------------------------------------------------------------
(* get_page_from_freelist.                                                  *)

\* gfp_to_alloc_flags, for the scan at hand: ALLOC_HIGH and ALLOC_HARDER go
\* with the minimum watermark only.
alloc_high(t) == task[t].wm = "min" /\ task[t].req.high
alloc_harder(t) == task[t].wm = "min" /\ (~ task[t].req.wait \/ task[t].req.rt)

\* What the caller has to leave in the zone.
Lowered(mark, high, harder) ==
    LET m == IF high THEN mark - (mark \div 2) ELSE mark
    IN  IF harder THEN m - (m \div 4) ELSE m

Mark(t, z) ==
    LET wm == task[t].wm
    IN  CASE wm = "none" -> 0
          [] wm = "min"  -> Lowered(watermark[z].min, alloc_high(t), alloc_harder(t))
          [] wm = "low"  -> watermark[z].low
          [] OTHER       -> watermark[z].high

\* Mutant: the pages of the order just below are not set aside.
WatermarkShort(z, order, min, class) ==
    LET start == nr[z] - Size[order] + 1
        left[o \in Order] ==
            IF o = 0 THEN start ELSE left[o - 1] - (IF o = order THEN 0 ELSE area[z][o - 1] * Size[o - 1])
        low[o \in Order] == IF o = 0 THEN min ELSE low[o - 1] \div 2
    IN  /\ start > min + lowmem_reserve[z][class]
        /\ \A o \in 1 .. order : left[o] > low[o]

\* left[o] is free_pages and low[o] is min after o turns of the loop.
zone_watermark_ok(z, order, min, class) ==
    LET start == nr[z] - Size[order] + 1
        left[o \in Order] ==
            IF o = 0 THEN start ELSE left[o - 1] - area[z][o - 1] * Size[o - 1]
        low[o \in Order] == IF o = 0 THEN min ELSE low[o - 1] \div 2
    IN  /\ start > min + lowmem_reserve[z][class]
        /\ \A o \in 1 .. order : left[o] > low[o]

WatermarkOk(t, z) ==
    zone_watermark_ok(z, task[t].req.order, Mark(t, z), task[t].req.zone)

\* A scan of the zonelist with the watermark wm; if it finds nothing the task
\* goes on at back.
Scanning(t, req, wm, nowm, back, reclaimed) ==
    [pc |-> "scan", req |-> req, z |-> req.zone, wm |-> wm, nowm |-> nowm,
     zlc |-> FALSE, setup |-> FALSE, seen |-> {}, back |-> back,
     reclaimed |-> reclaimed]

Scan(t, wm, nowm, back, reclaimed) ==
    task' = [task EXCEPT ![t] = Scanning(t, @.req, wm, nowm, back, reclaimed)]

Goto(t, step) == task' = [task EXCEPT ![t].pc = step]

\* try_next_zone, with zlc_setup after the first zone of the first scan: the
\* bits are cleared if a second has passed since they were last.
Onward(t, full) ==
    /\ task' = [task EXCEPT ![t] =
          [pc |-> "scan", req |-> @.req, z |-> @.z - 1, wm |-> @.wm, nowm |-> @.nowm,
           zlc |-> @.zlc \/ (NUMA /\ ~ @.setup), setup |-> @.setup \/ NUMA,
           seen |-> @.seen \cup {@.z}, back |-> @.back, reclaimed |-> @.reclaimed]]
    /\ \/ fullzones' = full
       \/ NUMA /\ ~ task[t].setup /\ fullzones' = {}

\* this_zone_full, zlc_mark_zone_full.
ZoneFull(t) ==
    Onward(t, IF NUMA THEN fullzones \cup {task[t].z} ELSE fullzones)

\* The zone passes the check.  Nothing keeps others from taking the pages.
TryThisZone(t) ==
    /\ Goto(t, "take")
    /\ floor' = [floor EXCEPT ![task[t].z] =
                    IF Mark(t, task[t].z) < @ THEN Mark(t, task[t].z) ELSE @]
    /\ UNCHANGED fullzones

\* zlc_zone_worth_trying says no: the zone is skipped.
SkipZone(t) ==
    /\ At(t, "scan") /\ task[t].z > 0
    /\ task[t].zlc /\ task[t].z \in fullzones
    /\ task' = [task EXCEPT ![t].z = @ - 1]
    /\ UNCHANGED <<mem, fullzones, oom, memdie, rest, floor>>

Closely(t) ==
    /\ At(t, "scan") /\ task[t].z > 0
    /\ ~ (task[t].zlc /\ task[t].z \in fullzones)

\* One zone of the scan has enough, or nobody asks whether it has.
ScanZone(t) ==
    LET z == task[t].z IN
    /\ Closely(t)
    /\ task[t].wm = "none" \/ WatermarkOk(t, z)
    /\ TryThisZone(t)
    /\ UNCHANGED <<mem, oom, memdie, rest>>

\* It has not.  If zone_reclaim_mode is set the zone is reclaimed first:
\* zone_reclaim finds nothing, does not scan, or frees something and the
\* watermark is looked at again.
zone_reclaim(t) ==
    LET z == task[t].z IN
    /\ Closely(t) /\ task[t].wm # "none" /\ ~ WatermarkOk(t, z)
    /\ \/ ZoneFull(t) /\ UNCHANGED mem
       \/ zone_reclaim_mode /\ Onward(t, fullzones) /\ UNCHANGED mem
       \/ /\ zone_reclaim_mode /\ Drop(z)
          /\ Goto(t, "recheck") /\ UNCHANGED fullzones
    /\ UNCHANGED <<oom, memdie, rest, floor>>

Recheck(t) ==
    /\ At(t, "recheck")
    /\ IF WatermarkOk(t, task[t].z)
       THEN TryThisZone(t)
       ELSE ZoneFull(t) /\ UNCHANGED floor
    /\ UNCHANGED <<mem, oom, memdie, rest>>

\* Mutant: the OOM lock is kept when the last look finds a page.
UnlockNever(t) == oom' = oom

\* clear_zonelist_oom, if it is __alloc_pages_may_oom that called the scan.
Unlock(t) == oom' = IF task[t].back = "outofmem" THEN NoTask ELSE oom

\* buffered_rmqueue finds a block, and the allocation returns it.
buffered_rmqueue(t) ==
    LET z     == task[t].z
        order == task[t].req.order
    IN
    /\ At(t, "take") /\ Enough(z, order) # {}
    /\ area' = [area EXCEPT ![z] = Split(@, Smallest(z, order), order)]
    /\ nr' = [nr EXCEPT ![z] = @ - Size[order]]
    /\ held' = [held EXCEPT ![t][z][order] = @ + 1]
    /\ task' = [task EXCEPT ![t] = Idle]
    /\ Unlock(t)
    /\ UNCHANGED <<clean, dirty, fullzones, memdie, rest, floor>>

\* The block has gone since the check.
RmqueueFails(t) ==
    /\ At(t, "take") /\ Enough(task[t].z, task[t].req.order) = {}
    /\ ZoneFull(t)
    /\ UNCHANGED <<mem, oom, memdie, rest, floor>>

\* Mutant: the cache has the last word.
NoSecondScan(t) ==
    /\ At(t, "scan") /\ task[t].z = 0
    /\ Goto(t, task[t].back)
    /\ UNCHANGED <<mem, fullzones, oom, memdie, rest, floor>>

\* The end of the list: once more without the cache, or NULL.
EndOfScan(t) ==
    /\ At(t, "scan") /\ task[t].z = 0
    /\ IF task[t].zlc
       THEN task' = [task EXCEPT ![t].z = task[t].req.zone, ![t].zlc = FALSE]
       ELSE Goto(t, task[t].back)
    /\ UNCHANGED <<mem, fullzones, oom, memdie, rest, floor>>

-----------------------------------------------------------------------------
(* __alloc_pages_nodemask and __alloc_pages_slowpath.                       *)

\* Fault injection: NULL before anything is tried.
should_fail_alloc_page(r) ==
    /\ fail_page_alloc
    /\ r.order >= 1 /\ ~ r.nofail /\ r.zone \notin Highmem /\ ~ r.wait

\* A task that is to die asks for nothing more.
__alloc_pages_nodemask(t, r) ==
    /\ At(t, "idle") /\ t \notin memdie /\ asked < MaxAsked
    /\ asked' = asked + 1
    /\ \/ task' = [task EXCEPT ![t] = Scanning(t, r, "low", FALSE, "restart", 0)]
       \/ should_fail_alloc_page(r) /\ UNCHANGED task
    /\ UNCHANGED <<mem, fullzones, oom, memdie, done, kc, stale, floor>>

\* restart: work out alloc_flags, last chance.  kswapd, which is woken here, is
\* taken to reclaim at any time.
Restart(t) ==
    LET r == task[t].req IN
    /\ At(t, "restart")
    /\ IF NUMA /\ r.thisnode
       THEN Goto(t, "nopage")
       ELSE Scan(t, "min", ~ r.nomemalloc /\ (r.memalloc \/ t \in memdie),
                 "rebalance", task[t].reclaimed)
    /\ UNCHANGED <<mem, fullzones, oom, memdie, rest, floor>>

\* rebalance: __alloc_pages_high_priority if the context allows.
Rebalance(t) ==
    /\ At(t, "rebalance")
    /\ IF task[t].nowm
       THEN Scan(t, "none", TRUE, "prio", task[t].reclaimed)
       ELSE Goto(t, "desperate")
    /\ UNCHANGED <<mem, fullzones, oom, memdie, rest, floor>>

__alloc_pages_high_priority(t) ==
    /\ At(t, "prio")
    /\ IF task[t].req.nofail
       THEN Scan(t, "none", TRUE, "prio", task[t].reclaimed)
       ELSE Goto(t, "desperate")
    /\ UNCHANGED <<mem, fullzones, oom, memdie, rest, floor>>

\* The exits before direct reclaim.
Desperate(t) ==
    LET r == task[t].req IN
    /\ At(t, "desperate")
    /\ IF ~ r.wait \/ r.memalloc \/ (t \in memdie /\ ~ r.nofail)
       THEN Goto(t, "nopage")
       ELSE Goto(t, "reclaim")
    /\ UNCHANGED <<mem, fullzones, oom, memdie, rest, floor>>

\* __alloc_pages_direct_reclaim: try_to_free_pages drops a page, and perhaps
\* more; pages_reclaimed is only compared with the size asked for, and only if
\* the request has __GFP_REPEAT.
ReclaimPage(t) ==
    LET size == IF task[t].req.repeat THEN Size[task[t].req.order] ELSE 0 IN
    /\ At(t, "reclaim") \/ At(t, "progress")
    /\ \E z \in Cached : Drop(z)
    /\ task' = [task EXCEPT ![t].pc = "progress",
                           ![t].reclaimed = IF @ < size THEN @ + 1 ELSE @]
    /\ UNCHANGED <<fullzones, oom, memdie, rest, floor>>

\* With some progress, the list is scanned with all of alloc_flags.
ReclaimEnds(t) ==
    /\ At(t, "progress")
    /\ Scan(t, IF task[t].nowm THEN "none" ELSE "min", task[t].nowm, "retry",
            task[t].reclaimed)
    /\ UNCHANGED <<mem, fullzones, oom, memdie, rest, floor>>

NoProgress(t) ==
    /\ At(t, "reclaim")
    /\ Goto(t, "noprogress")
    /\ UNCHANGED <<mem, fullzones, oom, memdie, rest, floor>>

OomMayHelp(r) == r.order <= PAGE_ALLOC_COSTLY_ORDER \/ r.nofail

\* __alloc_pages_may_oom: one task at a time looks once more, with the high
\* watermark; the others come back after a tick.
__alloc_pages_may_oom(t) ==
    LET r == task[t].req IN
    /\ At(t, "noprogress")
    /\ IF ~ r.fs \/ r.noretry
       THEN Goto(t, "retry") /\ UNCHANGED oom
       ELSE IF oom_killer_disabled
       THEN Goto(t, "nopage") /\ UNCHANGED oom
       ELSE IF oom # NoTask
       THEN Goto(t, IF OomMayHelp(r) THEN "restart" ELSE "nopage") /\ UNCHANGED oom
       ELSE /\ oom' = t
            /\ Scan(t, "high", task[t].nowm, "outofmem", task[t].reclaimed)
    /\ UNCHANGED <<mem, fullzones, memdie, rest, floor>>

Holding(t) == \E z \in Zones, o \in Order : held[t][z][o] > 0
PagesHeld(t) ==
    LET upto[z \in Zones] == PagesIn(held[t][z]) + (IF z = 1 THEN 0 ELSE upto[z - 1])
    IN  upto[NZones]

\* out_of_memory spares everybody while a victim is dying, and otherwise takes
\* the task with the most memory; if nobody has any, the one that asks.
Victims(t) ==
    IF memdie # {} THEN {}
    ELSE IF \E u \in Tasks : Holding(u)
    THEN {u \in Tasks : \A v \in Tasks : PagesHeld(v) <= PagesHeld(u)}
    ELSE {t}

out_of_memory(t) ==
    /\ At(t, "outofmem")
    /\ IF OomMayHelp(task[t].req)
       THEN /\ IF Victims(t) = {} THEN UNCHANGED memdie
               ELSE \E v \in Victims(t) : memdie' = memdie \cup {v}
            /\ Goto(t, "restart")
       ELSE Goto(t, "nopage") /\ UNCHANGED memdie
    /\ oom' = NoTask
    /\ UNCHANGED <<mem, fullzones, rest, floor>>

\* Mutant: the limit itself counts as costly.
RetryBelow(r, reclaimed) ==
    /\ ~ r.noretry
    /\ \/ r.order < PAGE_ALLOC_COSTLY_ORDER
       \/ r.repeat /\ reclaimed < Size[r.order]
       \/ r.nofail

should_alloc_retry(r, reclaimed) ==
    /\ ~ r.noretry
    /\ \/ r.order <= PAGE_ALLOC_COSTLY_ORDER
       \/ r.repeat /\ reclaimed < Size[r.order]
       \/ r.nofail

Retry(t) ==
    /\ At(t, "retry")
    /\ Goto(t, IF should_alloc_retry(task[t].req, task[t].reclaimed)
               THEN "rebalance" ELSE "nopage")
    /\ UNCHANGED <<mem, fullzones, oom, memdie, rest, floor>>

\* Mutant: complete() reaches kcached only while it waits.
RunIfWaiting == done' = IF kc = "wait" THEN done + 1 ELSE done

kcached_run == done' = done + 1

\* NULL, and kcached is told.
NoPage(t) ==
    /\ At(t, "nopage")
    /\ kcached_run
    /\ stale' = TRUE
    /\ task' = [task EXCEPT ![t] = Idle]
    /\ UNCHANGED <<mem, fullzones, oom, memdie, kc, asked, floor>>

Slowpath(t) ==
    \/ Restart(t) \/ Rebalance(t) \/ __alloc_pages_high_priority(t) \/ Desperate(t)
    \/ ReclaimPage(t) \/ ReclaimEnds(t) \/ NoProgress(t) \/ __alloc_pages_may_oom(t)
    \/ out_of_memory(t) \/ Retry(t) \/ NoPage(t)

get_page_from_freelist(t) ==
    \/ SkipZone(t) \/ ScanZone(t) \/ zone_reclaim(t) \/ Recheck(t)
    \/ buffered_rmqueue(t) \/ RmqueueFails(t) \/ EndOfScan(t)

-----------------------------------------------------------------------------
(* What the tasks do with their memory, and who gives it back.              *)

free_pages(t, z, o) ==
    /\ At(t, "idle") /\ held[t][z][o] > 0
    /\ held' = [held EXCEPT ![t][z][o] = @ - 1]
    /\ Give(z, o)
    /\ UNCHANGED <<clean, dirty, task, fullzones, oom, memdie, rest, floor>>

\* A page is used for the cache of a file, which has been written to or read.
ToCache(t, z) ==
    /\ At(t, "idle") /\ held[t][z][0] > 0
    /\ held' = [held EXCEPT ![t][z][0] = @ - 1]
    /\ \/ clean' = [clean EXCEPT ![z] = @ + 1] /\ UNCHANGED dirty
       \/ dirty' = [dirty EXCEPT ![z] = @ + 1] /\ UNCHANGED clean
    /\ UNCHANGED <<area, nr, task, fullzones, oom, memdie, rest, floor>>

\* The victim has given everything back and is gone; another takes its place.
VictimExits(t) ==
    /\ t \in memdie /\ At(t, "idle") /\ ~ Holding(t)
    /\ memdie' = memdie \ {t}
    /\ UNCHANGED <<mem, task, fullzones, oom, rest, floor>>

VictimFrees(t) ==
    /\ t \in memdie
    /\ \E z \in Zones, o \in Order : free_pages(t, z, o)

\* kcached_mng: wait_for_completion takes one of the failures told to it.
KcachedWakes ==
    /\ kc = "wait" /\ done > 0
    /\ done' = done - 1
    /\ kc' = "sync"
    /\ stale' = FALSE
    /\ UNCHANGED <<mem, task, fullzones, oom, memdie, asked, floor>>

sys_sync ==
    /\ kc = "sync"
    /\ clean' = [z \in Zones |-> clean[z] + dirty[z]]
    /\ dirty' = [z \in Zones |-> 0]
    /\ kc' = "drop"
    /\ UNCHANGED <<area, nr, held, task, fullzones, oom, memdie, done, asked,
                   stale, floor>>

\* One page of drop_pagecache, then drop_slab, which the model has nothing of.
drop_pagecache ==
    /\ kc = "drop"
    /\ IF Cached # {}
       THEN (\E z \in Cached : Drop(z)) /\ UNCHANGED kc
       ELSE kc' = "wait" /\ UNCHANGED mem
    /\ UNCHANGED <<task, fullzones, oom, memdie, done, asked, stale, floor>>

kcached_mng == KcachedWakes \/ sys_sync \/ drop_pagecache

\* Somebody writes to /proc/sys/vm/drop_caches, or kswapd reclaims: pages go,
\* at any time.
drop_caches_sysctl_handler ==
    /\ \E z \in Cached : Drop(z)
    /\ UNCHANGED <<task, fullzones, oom, memdie, rest, floor>>

Allocating(t) == get_page_from_freelist(t) \/ Slowpath(t)

Next ==
    \/ \E t \in Tasks :
          \/ \E r \in Requests : __alloc_pages_nodemask(t, r)
          \/ Allocating(t)
          \/ \E z \in Zones : ToCache(t, z) \/ (\E o \in Order : free_pages(t, z, o))
          \/ VictimExits(t)
    \/ kcached_mng \/ drop_caches_sysctl_handler

Spec == Init /\ [][Next]_vars

\* The scheduler runs every task that can run, kcached among them; a task that
\* has been killed gives its memory back.  Nobody else has to free anything.
FairSpec ==
    /\ Spec
    /\ \A t \in Tasks : WF_vars(Allocating(t)) /\ WF_vars(VictimFrees(t) \/ VictimExits(t))
    /\ WF_vars(kcached_mng)

-----------------------------------------------------------------------------
(* Properties.                                                              *)

\* The variables are of the declared kind: no count of blocks goes below zero
\* when several tasks take from a zone, and every task is in a known state.
TypeOK ==
    /\ area \in [Zones -> [Order -> Nat]] /\ nr \in [Zones -> Int]
    /\ clean \in [Zones -> Nat] /\ dirty \in [Zones -> Nat]
    /\ held \in [Tasks -> [Zones -> [Order -> Nat]]]
    /\ task \in [Tasks -> Task]
    /\ fullzones \subseteq Zones /\ oom \in Tasks \cup {NoTask} /\ memdie \subseteq Tasks
    /\ done \in Nat /\ kc \in {"wait", "sync", "drop"}
    /\ asked \in Nat /\ stale \in BOOLEAN /\ floor \in [Zones -> Int]

\* zone_watermark_ok promises a block: whatever the free lists look like, a
\* zone that passes the check for an order has a block of that order or of a
\* larger one.
WatermarkMeansBlock ==
    \A z, class \in Zones, order \in Order :
        \A min \in {0, Lowered(watermark[z].min, TRUE, TRUE), watermark[z].min} :
            zone_watermark_ok(z, order, min, class) => Enough(z, order) # {}

\* The check and the take are not one step, so tasks that pass the check
\* together may take more than it allows.  The damage is bounded: a zone never
\* falls below the lowest mark that one of its takers was entitled to by more
\* than one request of each other task.
ReserveKept ==
    \A z \in Zones : nr[z] >= floor[z] - (Cardinality(Tasks) - 1) * Size[MaxOrder]

\* The watermarks are worth reading: passing zone_watermark_ok means that there
\* is a block, and that the reserve below the mark is touched by no more than
\* the requests that pass it together.
WatermarksHold == TypeOK /\ WatermarkMeansBlock /\ ReserveKept

\* Where a task is once a scan has found nothing.
Failed == {"restart", "rebalance", "prio", "desperate", "reclaim", "progress",
           "noprogress", "outofmem", "retry", "nopage"}

\* "should leave no stone unturned looking for a free page": whatever the
\* others have marked full in the zonelist cache, a scan gives up only after
\* it has looked at every zone itself.
LeaveNoStone ==
    \A t \in Tasks : task[t].pc \in Failed => task[t].seen = 1 .. task[t].req.zone

\* "order <= PAGE_ALLOC_COSTLY_ORDER means __GFP_NOFAIL": a small request that
\* may wait and retry gets NULL only if its task is to die, or reclaims
\* already, or the OOM killer is off.
SmallNeverFails ==
    \A t \in Tasks :
        LET r == task[t].req IN
        /\ At(t, "nopage") /\ r.order <= PAGE_ALLOC_COSTLY_ORDER
        /\ r.wait /\ ~ r.noretry
        => \/ t \in memdie \/ r.memalloc
           \/ oom_killer_disabled /\ r.fs
           \/ NUMA /\ r.thisnode

\* A request that may start the OOM killer, or may not wait, returns, with a
\* page or without: nobody keeps the OOM lock, every victim gives its memory
\* back, and the retries end.  (A task that may not fail is a victim that
\* does not die, and holds up everybody: none asks.)
AllocsReturn ==
    (\A r \in Requests : ~ r.nofail)
    => \A t \in Tasks :
          (task[t].req.fs \/ ~ task[t].req.wait) /\ ~ At(t, "idle") ~> At(t, "idle")

\* Every allocation that fails is followed by a sync and drop that began after
\* it, whatever kcached was doing at the time.
FailureIsServed == stale ~> (~ stale /\ kc = "wait")
=============================================================================
