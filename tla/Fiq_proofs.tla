------------------------------ MODULE Fiq_proofs ------------------------------
(* Proofs about Fiq: for every number of tasks and lines, every width of the *)
(* registers and whatever the devices do, a FIQ never finds half a           *)
(* registration and no registered line stays masked, as long as calls for    *)
(* lines of one mask register do not overlap.                                *)
EXTENDS Fiq, WellFoundedInduction, TLAPS

Label == {"idle", "mask", "masking", "set", "handler", "unmask",
          "unmasking", "clear", "forget"}

Desc == [handler : Tasks \cup {NULL}, dev : Tasks \cup {NULL}]

Shape ==
    /\ desc \in [Lines -> Desc]
    /\ mask \subseteq Lines
    /\ pc \in [Tasks -> Label]
    /\ line \in [Tasks -> Lines]
    /\ saved \in [Tasks -> SUBSET Lines]
    /\ ret \in [Tasks -> {"none", "ok", "EINVAL"}]
    /\ met \in BOOLEAN

\* Calls under way are for lines of different registers.
Apart ==
    \A t, u \in Tasks : t # u /\ pc[t] # "idle" /\ pc[u] # "idle"
                            => line[u] \notin Register(line[t])

\* What a task has read of its register is still there.
Fresh ==
    \A t \in Tasks : pc[t] \in {"masking", "unmasking"}
                        => saved[t] = mask \cap Register(line[t])

\* The line is masked from the first write to the second.
Closed ==
    \A t \in Tasks :
        pc[t] \in {"set", "handler", "unmask", "unmasking", "clear", "forget"}
            => line[t] \notin mask

\* The stores of request_fiq are in the table.
Filled ==
    \A t \in Tasks :
        /\ pc[t] = "handler" => desc[line[t]].dev = t
        /\ pc[t] \in {"unmask", "unmasking"}
              => desc[line[t]].dev = t /\ desc[line[t]].handler = t

Complete ==
    \A n \in mask : desc[n].handler # NULL /\ desc[n].dev = desc[n].handler

Reachable ==
    \A n \in Lines :
        /\ desc[n].handler # NULL
        /\ \A t \in Tasks : pc[t] # "idle" => line[t] # n
        => n \in mask

Alone == Apart /\ Fresh /\ Closed /\ Filled /\ Complete /\ Reachable

\* The inductive invariant.
IInv == Shape /\ (~met => Alone)

-----------------------------------------------------------------------------

\* There is a line 0.
LEMMA SomeLine == 0 \in Lines
  <1>1. GppLast - GppFirst + 1 \in Nat /\ PerBit \in Nat
    BY FiqAssumption
  <1> DEFINE k == GppLast - GppFirst + 1
  <1>2. PerBit * k \in Nat
    BY <1>1
  <1> HIDE DEF k
  <1>3. NR_IRQS = 3 * Bits + PerBit * k
    BY DEF NR_IRQS, IRQ_GPP_START, k
  <1> QED BY <1>2, <1>3, FiqAssumption DEF Lines

\* A line has its bit in its own register.
LEMMA InRegister ==
    ASSUME NEW n \in Lines
    PROVE  n \in Register(n)
  BY DEF Register

\* Two lines of different registers stay so seen from either.
LEMMA OtherRegister ==
    ASSUME NEW m \in Lines, NEW n \in Lines, m \notin Register(n)
    PROVE  n \notin Register(m) /\ m # n /\ Register(m) \cap Register(n) = {}
  BY DEF Register

\* Everything the proof looks at is in place at the start.
LEMMA InitAlone ==
    ASSUME Init
    PROVE  IInv
  <1>1. Shape
    BY SomeLine DEF Init, Shape, Label, Desc
  <1>2. Alone
    BY DEF Init, Alone, Apart, Fresh, Closed, Filled, Complete, Reachable
  <1> QED BY <1>1, <1>2 DEF IInv

-----------------------------------------------------------------------------
(* Steps that begin a call.                                                  *)

\* A call that begins has its register for itself unless it meets another.
LEMMA BeginsAlone ==
    ASSUME IInv, NEW t \in Tasks, NEW n \in Lines, pc[t] = "idle",
           Begins(t, n, "mask"), UNCHANGED <<desc, mask, saved, ret>>,
           ~met'
    PROVE  Alone'
  <1> USE DEF IInv, Shape
  <1>1. ~met /\ Alone
    BY DEF Begins
  <1>2. /\ pc' = [pc EXCEPT ![t] = "mask"]
        /\ line' = [line EXCEPT ![t] = n]
    BY DEF Begins, Goes
  <1>3. \A u \in Tasks \ {t} : pc[u] # "idle" => line[u] \notin Register(n)
    BY DEF Begins, Meets
  <1>4. Apart'
    <2> SUFFICES ASSUME NEW u \in Tasks, NEW w \in Tasks, u # w,
                        pc'[u] # "idle", pc'[w] # "idle"
                 PROVE  line'[w] \notin Register(line'[u])
      BY DEF Apart
    <2>1. CASE u = t
      BY <2>1, <1>2, <1>3
    <2>2. CASE w = t
      <3>1. line[u] \notin Register(n) /\ line'[u] = line[u] /\ line'[w] = n
        BY <2>2, <1>2, <1>3
      <3> QED BY <3>1, OtherRegister
    <2>3. CASE u # t /\ w # t
      BY <2>3, <1>1, <1>2 DEF Alone, Apart
    <2> QED BY <2>1, <2>2, <2>3
  <1>5. Fresh' /\ Closed' /\ Filled'
    BY <1>1, <1>2 DEF Alone, Fresh, Closed, Filled
  <1>6. Complete'
    BY <1>1 DEF Alone, Complete
  <1>7. Reachable'
    BY <1>1, <1>2 DEF Alone, Reachable
  <1> QED BY <1>4, <1>5, <1>6, <1>7 DEF Alone

-----------------------------------------------------------------------------
(* Steps of a call under way.                                                *)

\* A step of a task that stays on its line keeps the calls apart.
LEMMA ApartKept ==
    ASSUME IInv, ~met, NEW t \in Tasks, NEW to \in Label, pc[t] # "idle",
           Goes(t, to), UNCHANGED line
    PROVE  Apart'
  BY DEF IInv, Shape, Alone, Apart, Goes

\* Reading the mask register.
LEMMA ReadMaskAlone ==
    ASSUME IInv, ~met, NEW t \in Tasks, ReadMask(t)
    PROVE  Alone'
  <1> USE DEF IInv, Shape
  <1>1. /\ \/ pc[t] = "mask" /\ Goes(t, "masking")
           \/ pc[t] = "unmask" /\ Goes(t, "unmasking")
        /\ saved' = [saved EXCEPT ![t] = mask \cap Register(line[t])]
        /\ UNCHANGED <<desc, mask, line>>
    BY DEF ReadMask, Runs
  <1>2. Apart'
    BY <1>1, ApartKept DEF Label
  <1>3. Fresh' /\ Closed' /\ Filled' /\ Complete'
    BY <1>1 DEF Alone, Fresh, Closed, Filled, Complete, Goes
  <1>4. Reachable'
    BY <1>1 DEF Alone, Reachable, Goes
  <1> QED BY <1>2, <1>3, <1>4 DEF Alone

\* Writing back what was read, with one bit changed, changes that bit only.
LEMMA WriteOneBit ==
    ASSUME IInv, ~met, NEW t \in Tasks, pc[t] \in {"masking", "unmasking"}
    PROVE  /\ Written(t, saved[t] \ {line[t]}) => mask' = mask \ {line[t]}
           /\ Written(t, saved[t] \cup {line[t]}) => mask' = mask \cup {line[t]}
  <1>1. saved[t] = mask \cap Register(line[t])
    BY DEF IInv, Alone, Fresh
  <1>2. line[t] \in Register(line[t])
    BY InRegister DEF IInv, Shape
  <1> QED BY <1>1, <1>2 DEF Written

\* What a task has read is not touched by another that changes its own bit.
LEMMA FreshKept ==
    ASSUME IInv, ~met, NEW t \in Tasks, pc[t] # "idle",
           NEW to \in Label, Goes(t, to), to \notin {"masking", "unmasking"},
           UNCHANGED line,
           \A u \in Tasks \ {t} : saved'[u] = saved[u],
           \/ mask' = mask
           \/ mask' = mask \ {line[t]}
           \/ mask' = mask \cup {line[t]}
    PROVE  Fresh'
  <1> SUFFICES ASSUME NEW u \in Tasks, pc'[u] \in {"masking", "unmasking"}
               PROVE  saved'[u] = mask' \cap Register(line[u])
    BY DEF Fresh
  <1>1. u # t /\ pc[u] = pc'[u]
    BY DEF IInv, Shape, Goes
  <1>2. saved[u] = mask \cap Register(line[u])
    BY <1>1 DEF IInv, Alone, Fresh
  <1>3. line[t] \notin Register(line[u])
    BY <1>1 DEF IInv, Alone, Apart
  <1> QED BY <1>1, <1>2, <1>3

\* Every other task with a call under way works on another line.
LEMMA OtherLine ==
    ASSUME IInv, ~met, NEW t \in Tasks, NEW u \in Tasks, t # u,
           pc[t] # "idle", pc[u] # "idle"
    PROVE  line[u] # line[t]
  <1>1. line[u] \notin Register(line[t])
    BY DEF IInv, Alone, Apart
  <1> QED BY <1>1, InRegister DEF IInv, Shape

\* Masking the line.
LEMMA MaskAlone ==
    ASSUME IInv, ~met, NEW t \in Tasks, chip_mask_fiq(t)
    PROVE  Alone'
  <1> DEFINE to == IF ret[t] = "ok" THEN "clear" ELSE "set"
  <1>1. /\ pc[t] = "masking" /\ Goes(t, to)
        /\ saved' = [saved EXCEPT ![t] = {}]
        /\ UNCHANGED <<desc, line>>
    BY DEF chip_mask_fiq, Runs
  <1>2. mask' = mask \ {line[t]}
    BY <1>1, WriteOneBit DEF chip_mask_fiq
  <1>3. to \in {"clear", "set"}
    OBVIOUS
  <1> HIDE DEF to
  <1>4. pc' = [pc EXCEPT ![t] = to] /\ pc \in [Tasks -> Label]
    BY <1>1 DEF Goes, IInv, Shape
  <1>5. Apart'
    BY <1>1, <1>3, ApartKept DEF Label
  <1>6. Fresh'
    BY <1>1, <1>2, <1>3, FreshKept DEF Label, IInv, Shape
  <1>7. Closed'
    BY <1>1, <1>2, <1>3, <1>4 DEF IInv, Alone, Closed
  <1>8. Filled'
    BY <1>1, <1>3, <1>4 DEF IInv, Alone, Filled
  <1>9. Complete'
    BY <1>1, <1>2 DEF IInv, Alone, Complete
  <1>10. Reachable'
    <2> SUFFICES ASSUME NEW n \in Lines, desc'[n].handler # NULL,
                        \A u \in Tasks : pc'[u] # "idle" => line'[u] # n
                 PROVE  n \in mask'
      BY DEF Reachable
    <2>1. n # line[t]
      BY <1>1, <1>3, <1>4
    <2>2. \A u \in Tasks : pc[u] # "idle" => line[u] # n
      BY <1>1, <1>4, <2>1
    <2>3. n \in mask
      BY <1>1, <2>2 DEF IInv, Alone, Reachable
    <2> QED BY <1>2, <2>1, <2>3
  <1> QED BY <1>5, <1>6, <1>7, <1>8, <1>9, <1>10 DEF Alone

\* Unmasking the line: its registration is complete by then.
LEMMA UnmaskAlone ==
    ASSUME IInv, ~met, NEW t \in Tasks, chip_unmask_fiq(t)
    PROVE  Alone'
  <1>1. /\ pc[t] = "unmasking" /\ Goes(t, "idle")
        /\ saved' = [saved EXCEPT ![t] = {}]
        /\ UNCHANGED <<desc, line>>
    BY DEF chip_unmask_fiq, Runs
  <1>2. mask' = mask \cup {line[t]}
    BY <1>1, WriteOneBit DEF chip_unmask_fiq
  <1>3. pc' = [pc EXCEPT ![t] = "idle"] /\ pc \in [Tasks -> Label]
    BY <1>1 DEF Goes, IInv, Shape
  <1>4. Apart'
    BY <1>1, ApartKept DEF Label
  <1>5. Fresh'
    BY <1>1, <1>2, FreshKept DEF Label, IInv, Shape
  <1>6. Closed'
    <2> SUFFICES ASSUME NEW u \in Tasks,
                        pc'[u] \in {"set", "handler", "unmask", "unmasking",
                                   "clear", "forget"}
                 PROVE  line[u] \notin mask'
      BY <1>1 DEF Closed
    <2>1. u # t /\ pc[u] = pc'[u]
      BY <1>3
    <2>2. line[u] \notin mask
      BY <2>1 DEF IInv, Alone, Closed
    <2>3. line[u] # line[t]
      BY <1>1, <2>1, OtherLine
    <2> QED BY <1>2, <2>2, <2>3
  <1>7. Filled'
    BY <1>1, <1>3 DEF IInv, Alone, Filled
  <1>8. Complete'
    BY <1>1, <1>2, FiqAssumption DEF IInv, Alone, Complete, Filled
  <1>9. Reachable'
    BY <1>1, <1>2, <1>3 DEF IInv, Alone, Reachable
  <1> QED BY <1>4, <1>5, <1>6, <1>7, <1>8, <1>9 DEF Alone

-----------------------------------------------------------------------------
(* Stores into the table.                                                    *)

\* A store into the entry of a masked line disturbs no other line.
LEMMA StoreAlone ==
    ASSUME IInv, ~met, NEW t \in Tasks,
           pc[t] \in {"set", "handler", "clear", "forget"},
           NEW to \in {"handler", "unmask", "forget", "idle"}, Goes(t, to),
           UNCHANGED <<mask, saved>>,
           \A u \in Tasks \ {t} : line'[u] = line[u],
           to # "idle" => line' = line,
           NEW d \in Desc, desc' = [desc EXCEPT ![line[t]] = d],
           to = "handler" => d.dev = t,
           to = "unmask" => d.dev = t /\ d.handler = t,
           to = "forget" => pc[t] = "clear",
           to = "idle" => d.handler = NULL
    PROVE  Alone'
  <1>1. /\ pc' = [pc EXCEPT ![t] = to] /\ pc \in [Tasks -> Label]
        /\ desc \in [Lines -> Desc] /\ line[t] \in Lines
    BY DEF Goes, IInv, Shape
  <1>2. desc'[line[t]] = d /\ \A n \in Lines \ {line[t]} : desc'[n] = desc[n]
    BY <1>1
  <1>3. line[t] \notin mask /\ mask \subseteq Lines
    BY DEF IInv, Shape, Alone, Closed
  <1>4. \A u \in Tasks \ {t} : pc[u] # "idle" => line[u] \in Lines \ {line[t]}
    BY OtherLine DEF IInv, Shape
  <1>5. \A u \in Tasks \ {t} : pc'[u] = pc[u] /\ line'[u] = line[u]
    BY <1>1
  <1>6. Apart'
    <2> SUFFICES ASSUME NEW u \in Tasks, NEW w \in Tasks, u # w,
                        pc'[u] # "idle", pc'[w] # "idle"
                 PROVE  line'[w] \notin Register(line'[u])
      BY DEF Apart
    <2>1. pc[u] # "idle" /\ pc[w] # "idle" /\ line'[u] = line[u]
          /\ line'[w] = line[w]
      BY <1>1, <1>5
    <2> QED BY <2>1 DEF IInv, Alone, Apart
  <1>7. Fresh'
    BY <1>1, <1>5 DEF IInv, Alone, Fresh
  <1>8. Closed'
    BY <1>1, <1>3, <1>5 DEF IInv, Alone, Closed
  <1>9. Filled'
    <2> SUFFICES ASSUME NEW u \in Tasks
                 PROVE  /\ pc'[u] = "handler" => desc'[line'[u]].dev = u
                        /\ pc'[u] \in {"unmask", "unmasking"}
                              => /\ desc'[line'[u]].dev = u
                                 /\ desc'[line'[u]].handler = u
      BY DEF Filled
    <2>1. CASE u = t
      BY <2>1, <1>1, <1>2
    <2>2. CASE u # t
      <3>1. pc'[u] = pc[u] /\ line'[u] = line[u]
        BY <2>2, <1>5
      <3>2. CASE pc[u] = "idle"
        BY <3>1, <3>2
      <3>3. CASE pc[u] # "idle"
        <4>1. desc'[line[u]] = desc[line[u]]
          BY <3>3, <2>2, <1>2, <1>4
        <4> QED BY <4>1, <3>1 DEF IInv, Alone, Filled
      <3> QED BY <3>2, <3>3
    <2> QED BY <2>1, <2>2
  <1>10. Complete'
    BY <1>2, <1>3 DEF IInv, Alone, Complete
  <1>11. Reachable'
    <2> SUFFICES ASSUME NEW n \in Lines, desc'[n].handler # NULL,
                        \A u \in Tasks : pc'[u] # "idle" => line'[u] # n
                 PROVE  n \in mask
      BY DEF Reachable
    <2>1. n # line[t]
      <3>1. CASE to = "idle"
        BY <3>1, <1>2
      <3>2. CASE to # "idle"
        BY <3>2, <1>1
      <3> QED BY <3>1, <3>2
    <2>2. desc[n].handler # NULL
      BY <2>1, <1>2
    <2>3. \A u \in Tasks : pc[u] # "idle" => line[u] # n
      BY <2>1, <1>5
    <2> QED BY <2>2, <2>3 DEF IInv, Alone, Reachable
  <1> QED BY <1>6, <1>7, <1>8, <1>9, <1>10, <1>11 DEF Alone

\* The four stores of request_fiq and free_fiq.
LEMMA StoresAlone ==
    ASSUME IInv, ~met, NEW t \in Tasks,
           SetDev(t) \/ SetHandler(t) \/ ClearDev(t) \/ ClearHandler(t)
    PROVE  Alone'
  <1> DEFINE e == desc[line[t]]
  <1>1. e \in Desc /\ desc \in [Lines -> Desc] /\ line[t] \in Lines
    BY DEF IInv, Shape
  <1>2. CASE SetDev(t)
    <2> DEFINE d == [e EXCEPT !.dev = t]
    <2>1. d \in Desc /\ d.dev = t
      BY <1>1 DEF Desc
    <2>2. desc' = [desc EXCEPT ![line[t]] = d]
      BY <1>2 DEF SetDev
    <2> HIDE DEF d
    <2> QED BY <1>2, <2>1, <2>2, StoreAlone DEF SetDev, Runs
  <1>3. CASE SetHandler(t)
    <2> DEFINE d == [e EXCEPT !.handler = t]
    <2>1. e.dev = t
      BY <1>3 DEF IInv, Alone, Filled, SetHandler, Runs
    <2>2. d \in Desc /\ d.dev = t /\ d.handler = t
      BY <1>1, <2>1 DEF Desc
    <2>3. desc' = [desc EXCEPT ![line[t]] = d]
      BY <1>3 DEF SetHandler
    <2> HIDE DEF d
    <2> QED BY <1>3, <2>2, <2>3, StoreAlone DEF SetHandler, Runs
  <1>4. CASE ClearDev(t)
    <2> DEFINE d == [e EXCEPT !.dev = NULL]
    <2>1. d \in Desc
      BY <1>1 DEF Desc
    <2>2. desc' = [desc EXCEPT ![line[t]] = d]
      BY <1>4 DEF ClearDev
    <2> HIDE DEF d
    <2> QED BY <1>4, <2>1, <2>2, StoreAlone DEF ClearDev, Runs
  <1>5. CASE ClearHandler(t)
    <2> DEFINE d == [e EXCEPT !.handler = NULL]
    <2>1. d \in Desc /\ d.handler = NULL
      BY <1>1 DEF Desc
    <2>2. desc' = [desc EXCEPT ![line[t]] = d]
      BY <1>5 DEF ClearHandler
    <2>3. \A u \in Tasks \ {t} : line'[u] = line[u]
      BY <1>5 DEF ClearHandler, IInv, Shape
    <2> HIDE DEF d
    <2> QED BY <1>5, <2>1, <2>2, <2>3, StoreAlone DEF ClearHandler, Runs
  <1> QED BY <1>2, <1>3, <1>4, <1>5

-----------------------------------------------------------------------------

\* The types.
LEMMA ShapeStep ==
    ASSUME Shape, [Next]_vars
    PROVE  Shape'
  <1> USE DEF Shape, Label
  <1>1. CASE UNCHANGED vars
    BY <1>1 DEF vars, tvars
  <1>2. ASSUME \/ \E n \in Sources : Raise(n)
               \/ \E mode \in {"svc", "usr"} : asm_do_FIQ(mode)
               \/ \E dump, mmp \in BOOLEAN : generic_handle_fiq(dump, mmp)
               \/ FiqReturns
        PROVE  Shape'
    BY <1>2 DEF Raise, asm_do_FIQ, generic_handle_fiq, FiqReturns, tvars
  <1>3. ASSUME NEW t \in Tasks, NEW n \in Lines \cup {NR_IRQS},
               RequestRefused(t, n)
        PROVE  Shape'
    BY <1>3 DEF RequestRefused
  <1>4. ASSUME NEW t \in Tasks, NEW n \in Lines \cup {NR_IRQS},
               RequestTests(t, n)
        PROVE  Shape'
    <2>1. n \in Lines
      BY <1>4 DEF RequestTests, Lines
    <2> QED BY <1>4, <2>1 DEF RequestTests, Begins, Goes
  <1>5. ASSUME NEW t \in Tasks, free_fiq(t)
        PROVE  Shape'
    BY <1>5 DEF free_fiq, Begins, Goes
  <1>6. ASSUME NEW t \in Tasks, ReadMask(t)
        PROVE  Shape'
    BY <1>6 DEF ReadMask, Goes
  <1>7. ASSUME NEW t \in Tasks, chip_mask_fiq(t) \/ chip_unmask_fiq(t)
        PROVE  Shape'
    BY <1>7 DEF chip_mask_fiq, chip_unmask_fiq, Goes, Written
  <1>8. ASSUME NEW t \in Tasks,
               SetDev(t) \/ SetHandler(t) \/ ClearDev(t) \/ ClearHandler(t)
        PROVE  Shape'
    <2>1. desc' \in [Lines -> Desc]
      BY <1>8 DEF SetDev, SetHandler, ClearDev, ClearHandler, Desc
    <2> QED BY <1>8, <2>1, SomeLine
         DEF SetDev, SetHandler, ClearDev, ClearHandler, Goes
  <1> QED BY <1>1, <1>2, <1>3, <1>4, <1>5, <1>6, <1>7, <1>8 DEF Next

\* Every step keeps the inductive invariant.
LEMMA InvariantStep ==
    ASSUME IInv, [Next]_vars
    PROVE  IInv'
  <1> SUFFICES ASSUME ~met' PROVE Alone'
    BY ShapeStep DEF IInv
  <1>1. CASE UNCHANGED tvars
    BY <1>1 DEF tvars, IInv, Alone, Apart, Fresh, Closed, Filled, Complete,
                Reachable
  <1>2. ASSUME \/ \E n \in Sources : Raise(n)
               \/ \E mode \in {"svc", "usr"} : asm_do_FIQ(mode)
               \/ \E dump, mmp \in BOOLEAN : generic_handle_fiq(dump, mmp)
               \/ FiqReturns
        PROVE  Alone'
    BY <1>1, <1>2 DEF Raise, asm_do_FIQ, generic_handle_fiq, FiqReturns
  <1>3. ASSUME NEW t \in Tasks, NEW n \in Lines \cup {NR_IRQS},
               RequestRefused(t, n)
        PROVE  Alone'
    BY <1>3 DEF RequestRefused, IInv, Alone, Apart, Fresh, Closed, Filled,
                Complete, Reachable
  <1>4. ASSUME NEW t \in Tasks, NEW n \in Lines \cup {NR_IRQS},
               RequestTests(t, n)
        PROVE  Alone'
    <2>1. n \in Lines
      BY <1>4 DEF RequestTests, Lines
    <2> QED BY <1>4, <2>1, BeginsAlone DEF RequestTests, Runs
  <1>5. ASSUME NEW t \in Tasks, free_fiq(t)
        PROVE  Alone'
    <2>1. line[t] \in Lines
      BY DEF IInv, Shape
    <2> QED BY <1>5, <2>1, BeginsAlone DEF free_fiq, Runs
  <1>6. ASSUME NEW t \in Tasks, ReadMask(t)
        PROVE  Alone'
    BY <1>6, ReadMaskAlone DEF ReadMask
  <1>7. ASSUME NEW t \in Tasks, chip_mask_fiq(t)
        PROVE  Alone'
    BY <1>7, MaskAlone DEF chip_mask_fiq
  <1>8. ASSUME NEW t \in Tasks, chip_unmask_fiq(t)
        PROVE  Alone'
    BY <1>8, UnmaskAlone DEF chip_unmask_fiq
  <1>9. ASSUME NEW t \in Tasks,
               SetDev(t) \/ SetHandler(t) \/ ClearDev(t) \/ ClearHandler(t)
        PROVE  Alone'
    <2>1. ~met
      BY <1>9 DEF SetDev, SetHandler, ClearDev, ClearHandler
    <2> QED BY <1>9, <2>1, StoresAlone
  <1>10. CASE UNCHANGED vars
    BY <1>1, <1>10 DEF vars
  <1> QED BY <1>2, <1>3, <1>4, <1>5, <1>6, <1>7, <1>8, <1>9, <1>10 DEF Next

\* The invariant holds always.
LEMMA AlwaysInvariant == Spec => []IInv
  <1>1. Init => IInv
    BY InitAlone
  <1>2. IInv /\ [Next]_vars => IInv'
    BY InvariantStep
  <1> QED BY <1>1, <1>2, PTL DEF Spec

\* A FIQ that hits request_fiq or free_fiq between two stores never finds half
\* a registration.
THEOREM FindsReady == Spec => []Ready
  <1>1. IInv => Ready
    BY DEF IInv, Alone, Complete, Ready
  <1> QED BY <1>1, AlwaysInvariant, PTL

\* A line with a handler is left masked by nobody.
THEOREM StaysUnmasked == Spec => []HandledIsUnmasked
  <1>1. IInv => HandledIsUnmasked
    BY DEF IInv, Alone, Reachable, HandledIsUnmasked
  <1> QED BY <1>1, AlwaysInvariant, PTL

-----------------------------------------------------------------------------
(* Types.                                                                    *)

\* What the invariant above does not speak of.
Around ==
    /\ lines \in Mixes
    /\ raised \subseteq Sources /\ raises \in 0 .. MaxRaises
    /\ cpu \in {"run", "fiq", "exit"}
    /\ fiq \in Lines \cup {-1}
    /\ debug_regs \in {NULL, "svc", "usr"}
    /\ held \in BOOLEAN /\ oops \in BOOLEAN

\* find_first_bit returns a bit of the register it was given.
LEMMA FirstBit ==
    ASSUME NEW S, S \subseteq Nat, S # {}
    PROVE  find_first_bit(S) \in S
  <1>1. PICK n \in S : \A m \in S : ~ (<<m, n>> \in OpToRel(<, Nat))
    BY NatLessThanWellFounded, WFMin
  <1>2. \A m \in S : n <= m
    <2> SUFFICES ASSUME NEW m \in S PROVE n <= m
      OBVIOUS
    <2>1. <<m, n>> \notin {ss \in Nat \X Nat : ss[1] < ss[2]}
      BY <1>1, Zenon DEF OpToRel
    <2>2. ~ (m < n)
      BY <2>1
    <2> QED BY <2>2
  <1> QED BY <1>2 DEF find_first_bit

\* There is room for the lines of the three registers, and for the first pin
\* of every summary bit.
LEMMA LineRoom ==
    /\ \A n \in Int : 0 <= n /\ n < 3 * Bits => n \in Lines
    /\ \A b \in GppFirst .. GppLast : (b - GppFirst) * PerBit + IRQ_GPP_START \in Lines
  <1> DEFINE k == GppLast - GppFirst + 1
  <1>1. k \in Nat /\ PerBit \in Nat \ {0} /\ Bits \in Nat \ {0}
    BY FiqAssumption
  <1>2. PerBit * k \in Nat
    BY <1>1
  <1>3. NR_IRQS = 3 * Bits + PerBit * k
    BY DEF NR_IRQS, IRQ_GPP_START
  <1>4. ASSUME NEW b \in GppFirst .. GppLast
        PROVE  (b - GppFirst) * PerBit \in Nat /\ (b - GppFirst) * PerBit < PerBit * k
    <2>1. PICK c \in Nat : c = b - GppFirst
      BY FiqAssumption
    <2>2. PICK d \in Nat : k = c + d + 1
      <3>1. k - c - 1 \in Nat
        BY <2>1, FiqAssumption
      <3> QED BY <3>1, <1>1, <2>1
    <2>3. PerBit * k = c * PerBit + PerBit * d + PerBit
      BY <2>2, <1>1
    <2>4. c * PerBit \in Nat /\ PerBit * d \in Nat
      BY <1>1
    <2> HIDE DEF k
    <2> QED BY <2>1, <2>3, <2>4, <1>1
  <1> HIDE DEF k
  <1> QED BY <1>1, <1>2, <1>3, <1>4 DEF Lines, IRQ_GPP_START

\* get_fiq_nr returns a line or -1.
LEMMA NumberIsLine ==
    ASSUME IInv, Around
    PROVE  get_fiq_nr \in Lines \cup {-1}
  <1>1. mask \subseteq Lines /\ Lines \subseteq Nat
    BY DEF IInv, Shape, Lines
  <1> DEFINE low == CauseLow \cap mask
             high == IF 0 \in CauseLow THEN CauseHigh \cap mask ELSE {}
             error == CauseError \cap mask
  <1>2. low \subseteq mask /\ high \subseteq mask
    OBVIOUS
  <1>3. error \subseteq 2 * Bits .. 3 * Bits - 1
    BY DEF CauseError
  <1>4. low # {} => find_first_bit(low) \in Lines
    BY <1>1, <1>2, FirstBit
  <1>5. high # {} => FromHigh(find_first_bit(high)) \in Lines
    <2>1. high # {} => find_first_bit(high) \in Lines
      BY <1>1, <1>2, FirstBit
    <2> QED BY <2>1, LineRoom DEF FromHigh
  <1>6. error # {} => find_first_bit(error) - 2 * Bits \in Lines
    <2>1. Bits \in Nat
      BY FiqAssumption
    <2>2. error # {} => find_first_bit(error) \in 2 * Bits .. 3 * Bits - 1
      <3>1. error \subseteq Nat
        BY <1>1
      <3> QED BY <1>3, <3>1, FirstBit
    <2>3. error # {} => /\ find_first_bit(error) - 2 * Bits \in Int
                        /\ 0 <= find_first_bit(error) - 2 * Bits
                        /\ find_first_bit(error) - 2 * Bits < 3 * Bits
      BY <2>1, <2>2
    <2> QED BY <2>3, LineRoom
  <1> QED BY <1>4, <1>5, <1>6 DEF get_fiq_nr

\* The rest is of the declared kind after every step.
LEMMA AroundStep ==
    ASSUME IInv, Around, [Next]_vars
    PROVE  Around'
  <1> USE DEF Around
  <1>1. CASE \E n \in Sources : Raise(n)
    BY <1>1, FiqAssumption DEF Raise, fvars
  <1>2. CASE \E t \in Tasks, n \in Lines \cup {NR_IRQS} :
               RequestRefused(t, n) \/ RequestTests(t, n)
    BY <1>2 DEF RequestRefused, RequestTests, hvars, fvars, Sources
  <1>3. CASE \E t \in Tasks :
               \/ free_fiq(t)
               \/ ReadMask(t) \/ chip_mask_fiq(t) \/ chip_unmask_fiq(t)
               \/ SetDev(t) \/ SetHandler(t)
               \/ ClearDev(t) \/ ClearHandler(t)
    BY <1>3 DEF free_fiq, ReadMask, chip_mask_fiq, chip_unmask_fiq, SetDev, SetHandler,
                ClearDev, ClearHandler, hvars, fvars
  <1>4. ASSUME NEW mode \in {"svc", "usr"}, asm_do_FIQ(mode)
        PROVE  Around'
    BY <1>4, NumberIsLine DEF asm_do_FIQ, hvars
  <1>5. ASSUME NEW dump \in BOOLEAN, NEW mmp \in BOOLEAN, generic_handle_fiq(dump, mmp)
        PROVE  Around'
    <2>1. held' \in BOOLEAN
      BY <1>5, Zenon DEF generic_handle_fiq, show_fiq_debug, fiq_show_interrupts
    <2>2. oops' \in BOOLEAN
      BY <1>5 DEF generic_handle_fiq
    <2>3. raised' \subseteq raised
      BY <1>5 DEF generic_handle_fiq
    <2>4. cpu' = "exit" /\ UNCHANGED <<lines, raises, fiq, debug_regs>>
      BY <1>5 DEF generic_handle_fiq
    <2> QED BY <2>1, <2>2, <2>3, <2>4
  <1>6. CASE FiqReturns
    BY <1>6 DEF FiqReturns, hvars
  <1>7. CASE UNCHANGED vars
    BY <1>7 DEF vars, hvars, fvars
  <1> QED BY <1>1, <1>2, <1>3, <1>4, <1>5, <1>6, <1>7 DEF Next

\* The variables are always of the declared kind; in particular get_fiq_nr
\* returns nothing but lines and -1, so that no entry outside fiq_desc[] is
\* used.
THEOREM TypeCorrect == Spec => []TypeOK
  <1>1. Init => Around
    <2> SUFFICES ASSUME Init PROVE Around
      OBVIOUS
    <2>1. 0 \in 0 .. MaxRaises
      BY FiqAssumption
    <2>2. raised \subseteq Sources
      BY DEF Init
    <2> QED BY <2>1, <2>2 DEF Init, Around
  <1>2. IInv /\ Around /\ [Next]_vars => Around'
    BY AroundStep
  <1>3. IInv /\ Around => TypeOK
    BY DEF IInv, Shape, Label, Desc, Around, TypeOK
  <1> QED BY <1>1, <1>2, <1>3, AlwaysInvariant, PTL DEF Spec

\* Both directions, for every register width, number of pins and set of drivers.
THEOREM RegistersWhole == Spec => []UnmaskedIffReady
  <1>1. TypeOK /\ Ready /\ HandledIsUnmasked => UnmaskedIffReady
    BY DEF UnmaskedIffReady
  <1> QED BY <1>1, TypeCorrect, FindsReady, StaysUnmasked, PTL

-----------------------------------------------------------------------------
(* What a FIQ finds.                                                         *)

\* No bit is set, nor about to be, for a line that nobody has asked for.
Asked ==
    /\ mask \subseteq lines
    /\ \A t \in Tasks : /\ saved[t] \subseteq lines
                        /\ pc[t] # "idle" \/ ret[t] = "ok" => line[t] \in lines

\* A FIQ that is being served is one that is unmasked: request_fiq and
\* free_fiq do not go on before it has returned.
Served ==
    ~met /\ Numbered => /\ cpu = "fiq" /\ fiq # -1 => fiq \in mask
                        /\ ~oops

LEMMA AskedStep ==
    ASSUME IInv, Asked, [Next]_vars
    PROVE  Asked' /\ lines' = lines
  <1> USE DEF IInv, Shape, Label, Asked, Runs, Goes, tvars, fvars, hvars
  <1>1. CASE \E n \in Sources : Raise(n)
    BY <1>1 DEF Raise
  <1>2. ASSUME NEW t \in Tasks, NEW n \in Lines \cup {NR_IRQS},
               RequestRefused(t, n) \/ RequestTests(t, n)
        PROVE  Asked' /\ lines' = lines
    <2>1. CASE RequestRefused(t, n)
      BY <2>1 DEF RequestRefused
    <2>2. CASE RequestTests(t, n)
      BY <2>2 DEF RequestTests, Begins
    <2> QED BY <1>2, <2>1, <2>2
  <1>3. ASSUME NEW t \in Tasks, free_fiq(t)
        PROVE  Asked' /\ lines' = lines
    BY <1>3 DEF free_fiq, Begins
  <1>4. ASSUME NEW t \in Tasks, ReadMask(t)
        PROVE  Asked' /\ lines' = lines
    BY <1>4 DEF ReadMask
  <1>5. ASSUME NEW t \in Tasks, chip_mask_fiq(t) \/ chip_unmask_fiq(t)
        PROVE  Asked' /\ lines' = lines
    <2>1. CASE chip_mask_fiq(t)
      BY <2>1 DEF chip_mask_fiq, Written
    <2>2. CASE chip_unmask_fiq(t)
      BY <2>2 DEF chip_unmask_fiq, Written
    <2> QED BY <1>5, <2>1, <2>2
  <1>6. ASSUME NEW t \in Tasks, SetDev(t) \/ SetHandler(t) \/ ClearDev(t)
        PROVE  Asked' /\ lines' = lines
    BY <1>6 DEF SetDev, SetHandler, ClearDev
  <1>7. ASSUME NEW t \in Tasks, ClearHandler(t)
        PROVE  Asked' /\ lines' = lines
    BY <1>7 DEF ClearHandler
  <1>8. CASE \/ \E mode \in {"svc", "usr"} : asm_do_FIQ(mode)
             \/ \E dump, mmp \in BOOLEAN : generic_handle_fiq(dump, mmp)
             \/ FiqReturns \/ UNCHANGED vars
    <2>1. UNCHANGED <<lines, tvars>>
      BY <1>8 DEF asm_do_FIQ, generic_handle_fiq, FiqReturns, vars
    <2> QED BY <2>1
  <1> QED BY <1>1, <1>2, <1>3, <1>4, <1>5, <1>6, <1>7, <1>8, Zenon DEF Next

\* A pin that is the first of its summary bit is the one get_fiq_nr gives.
LEMMA FirstPin ==
    ASSUME NEW p \in Pins, (p - IRQ_GPP_START) % PerBit = 0
    PROVE  FromHigh(Summary(p)) = p /\ Summary(p) \in Bits .. 2 * Bits - 1
  <1> DEFINE k == GppLast - GppFirst + 1
  <1>1. k \in Nat /\ PerBit \in Nat \ {0} /\ Bits \in Nat \ {0}
        /\ GppFirst \in Nat /\ GppLast \in Nat
    BY FiqAssumption
  <1>2. PICK d \in Nat : d = p - IRQ_GPP_START
    BY <1>1 DEF Pins, IRQ_GPP_START
  <1>3. PICK c \in Nat : c = d \div PerBit
    BY <1>1, <1>2
  <1>4. d = c * PerBit
    BY <1>1, <1>2, <1>3
  <1>5. c < k
    <2>1. PerBit * k \in Nat
      BY <1>1
    <2>2. d < PerBit * k
      BY <1>1, <1>2, <2>1 DEF Pins, NR_IRQS, IRQ_GPP_START
    <2>3. ASSUME c >= k PROVE FALSE
      <3>1. PICK e \in Nat : c = k + e
        <4>1. c - k \in Nat
          BY <1>1, <2>3
        <4> QED BY <1>1, <4>1
      <3>2. c * PerBit = PerBit * k + e * PerBit /\ e * PerBit \in Nat
        BY <1>1, <3>1
      <3> HIDE DEF k
      <3> QED BY <1>4, <2>1, <2>2, <3>2
    <2> QED BY <1>1, <2>3
  <1>6. Summary(p) = Bits + GppFirst + c
    BY <1>2, <1>3 DEF Summary
  <1>7. Summary(p) - Bits \in GppFirst .. GppLast /\ Summary(p) - Bits - GppFirst = c
    BY <1>1, <1>5, <1>6
  <1>8. FromHigh(Summary(p)) = c * PerBit + IRQ_GPP_START
    BY <1>7 DEF FromHigh
  <1>9. p \in Int /\ IRQ_GPP_START \in Int
    BY <1>1 DEF Pins, IRQ_GPP_START
  <1>10. Summary(p) \in Bits .. 2 * Bits - 1
    BY <1>1, <1>6, <1>7, FiqAssumption
  <1> QED BY <1>2, <1>4, <1>8, <1>9, <1>10

\* get_fiq_nr returns an unmasked line, if those asked for are numbered as it
\* numbers them.
LEMMA NumberIsUnmasked ==
    ASSUME IInv, Around, Asked, Numbered
    PROVE  get_fiq_nr # -1 => get_fiq_nr \in mask
  <1>1. mask \subseteq Lines /\ Lines \subseteq Nat /\ mask \subseteq lines
    BY DEF IInv, Shape, Lines, Asked
  <1> DEFINE low == CauseLow \cap mask
             high == IF 0 \in CauseLow THEN CauseHigh \cap mask ELSE {}
             error == CauseError \cap mask
  <1>2. low # {} => find_first_bit(low) \in mask
    BY <1>1, FirstBit
  <1>3. error = {}
    BY <1>1 DEF CauseError, Numbered
  <1>4. ASSUME high # {} PROVE FromHigh(find_first_bit(high)) \in mask
    <2>1. PICK n : n = find_first_bit(high)
      OBVIOUS
    <2>2. high \subseteq Nat
      BY <1>1
    <2>3. n \in high
      BY <1>4, <2>1, <2>2, FirstBit
    <2>4. n \in CauseHigh /\ n \in mask
      BY <2>3
    <2>5. CASE n \in raised
      <3>1. n \in Sources
        BY <2>5 DEF Around
      <3>2. n - Bits \notin GppFirst .. GppLast \/ n \in Pins
        BY <3>1 DEF Sources
      <3>3. n \notin Pins
        <4>1. CASE n \in Bits .. 2 * Bits - 1
          BY <4>1, FiqAssumption DEF Pins, IRQ_GPP_START
        <4>2. ASSUME NEW p \in raised \cap Pins \cap mask, n = Summary(p)
              PROVE  n \in Bits .. 2 * Bits - 1
          BY <1>1, <4>2, FirstPin DEF Numbered
        <4>3. n \in Bits .. 2 * Bits - 1
          BY <2>4, <4>2 DEF CauseHigh
        <4> QED BY <4>1, <4>3
      <3>4. FromHigh(n) = n
        BY <3>2, <3>3 DEF FromHigh
      <3> QED BY <2>1, <2>4, <3>4
    <2>6. CASE n \notin raised
      <3>1. PICK p \in raised \cap Pins \cap mask : n = Summary(p)
        BY <2>4, <2>6 DEF CauseHigh
      <3>2. (p - IRQ_GPP_START) % PerBit = 0
        BY <1>1, <3>1 DEF Numbered
      <3>3. FromHigh(n) = p
        BY <3>1, <3>2, FirstPin
      <3> QED BY <2>1, <3>1, <3>3
    <2> QED BY <2>5, <2>6
  <1> QED BY <1>2, <1>3, <1>4 DEF get_fiq_nr

LEMMA ServedStep ==
    ASSUME IInv, Around, Asked, Served, [Next]_vars
    PROVE  Served'
  <1>0. lines' = lines
    BY AskedStep
  <1>1. Numbered' <=> Numbered
    BY <1>0 DEF Numbered
  <1>2. CASE \E mode \in {"svc", "usr"} : asm_do_FIQ(mode)
    BY <1>1, <1>2, NumberIsUnmasked DEF asm_do_FIQ, Served, tvars
  <1>3. ASSUME NEW dump \in BOOLEAN, NEW mmp \in BOOLEAN, generic_handle_fiq(dump, mmp)
        PROVE  Served'
    <2> SUFFICES ASSUME ~met', Numbered' PROVE ~oops'
      BY <1>3 DEF Served, generic_handle_fiq
    <2>1. ~met /\ Numbered /\ ~oops /\ cpu = "fiq" /\ (fiq # -1 => fiq \in mask)
      BY <1>1, <1>3 DEF generic_handle_fiq, tvars, Served
    <2>2. fiq # -1 => desc[fiq].handler # NULL /\ desc[fiq].dev # NULL
      BY <2>1 DEF IInv, Alone, Complete
    <2> QED BY <1>3, <2>1, <2>2 DEF generic_handle_fiq
  <1>4. CASE FiqReturns
    BY <1>1, <1>4 DEF FiqReturns, Served, tvars
  <1>5. CASE \E n \in Sources : Raise(n)
    BY <1>1, <1>5 DEF Raise, Served, tvars, fvars
  <1>6. ASSUME cpu = "run", met => met', UNCHANGED fvars PROVE Served'
    BY <1>1, <1>6 DEF Served, fvars
  <1>7. ASSUME NEW t \in Tasks, NEW n \in Lines \cup {NR_IRQS},
               RequestRefused(t, n) \/ RequestTests(t, n)
        PROVE  Served'
    BY <1>6, <1>7 DEF RequestRefused, RequestTests, Begins, Runs
  <1>8. ASSUME NEW t \in Tasks,
               \/ free_fiq(t)
               \/ ReadMask(t) \/ chip_mask_fiq(t) \/ chip_unmask_fiq(t)
               \/ SetDev(t) \/ SetHandler(t)
               \/ ClearDev(t) \/ ClearHandler(t)
        PROVE  Served'
    BY <1>6, <1>8 DEF free_fiq, ReadMask, chip_mask_fiq, chip_unmask_fiq, SetDev, SetHandler,
       ClearDev, ClearHandler, Begins, Runs
  <1>9. CASE UNCHANGED vars
    BY <1>1, <1>9 DEF vars, tvars, fvars, Served
  <1> QED BY <1>2, <1>3, <1>4, <1>5, <1>7, <1>8, <1>9 DEF Next

\* The part of FiqsEnd that is about safety: as long as no two calls meet on a
\* register, asm_do_FIQ calls no handler with the NULL that free_fiq stores,
\* whichever lines, numbered as get_fiq_nr does, are registered and released.
THEOREM NoNullDevice == Spec => ([]~met /\ Numbered => []~oops)
  <1>1. Init => Around /\ Asked /\ Served
    <2> SUFFICES ASSUME Init PROVE Around /\ Asked /\ Served
      OBVIOUS
    <2>1. 0 \in 0 .. MaxRaises
      BY FiqAssumption
    <2>2. raised \subseteq Sources
      BY DEF Init
    <2>3. Asked /\ Served
      BY DEF Init, Asked, Served
    <2> QED BY <2>1, <2>2, <2>3 DEF Init, Around
  <1>2. IInv /\ Around /\ Asked /\ Served /\ [Next]_vars => (Around /\ Asked /\ Served)'
    BY AroundStep, AskedStep, ServedStep
  <1>3. IInv /\ Asked /\ Numbered /\ [Next]_vars => Numbered'
    BY AskedStep DEF Numbered
  <1>4. Served /\ ~met /\ Numbered => ~oops
    BY DEF Served
  <1> QED BY <1>1, <1>2, <1>3, <1>4, AlwaysInvariant, PTL DEF Spec
=============================================================================
