----------------------------- MODULE MCSlowPath -----------------------------
(* A small instance of SlowPath: two zones, blocks of one and two pages.    *)
EXTENDS SlowPath, TLC

PowersOfTwo == [o \in 0 .. MaxOrder |-> 2 ^ o]

SmallZones == <<(0 :> 3 @@ 1 :> 1), (0 :> 0 @@ 1 :> 0)>>
SmallClean == <<1, 0>>
SmallDirty == <<0, 0>>
SmallMarks == <<[min |-> 5, low |-> 5, high |-> 5], [min |-> 0, low |-> 1, high |-> 1]>>
SmallReserve == <<<<0, 0>>, <<0, 0>>>>

Plain == [order |-> 0, zone |-> 2, wait |-> TRUE, high |-> FALSE, fs |-> TRUE,
          noretry |-> FALSE, nofail |-> FALSE, repeat |-> FALSE, thisnode |-> FALSE,
          nomemalloc |-> FALSE, memalloc |-> FALSE, rt |-> FALSE]
Costly == [Plain EXCEPT !.order = 1, !.zone = 1, !.repeat = TRUE]
Emergency == [Plain EXCEPT !.order = 1, !.zone = 1, !.wait = FALSE, !.high = TRUE,
                           !.memalloc = TRUE]

SomeRequests == {Plain, Costly, Emergency}
=============================================================================
