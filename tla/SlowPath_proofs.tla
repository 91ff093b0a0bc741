-------------------------- MODULE SlowPath_proofs --------------------------
(* Proofs about SlowPath, for any number of tasks and zones, any MAX_ORDER, *)
(* any watermarks and reserves and any mix of requests.                     *)
EXTENDS SlowPath, TLAPS, FiniteSetTheorems, WellFoundedInduction

-----------------------------------------------------------------------------
(* Loops over the orders.                                                   *)

\* What holds of order 0 and is handed on holds of every order: otherwise take
\* the least order for which it does not.
LEMMA OrderInduction ==
    ASSUME NEW S, 0 \in S, \A o \in 0 .. MaxOrder - 1 : o \in S => o + 1 \in S
    PROVE  Order \subseteq S
  <1> DEFINE R == Order \ S
  <1> SUFFICES ASSUME R # {} PROVE FALSE
    OBVIOUS
  <1>1. R \subseteq Nat
    BY ZonesAssumption DEF Order
  <1>2. PICK n \in R : \A m \in R : ~ (<<m, n>> \in OpToRel(<, Nat))
    <2> HIDE DEF R
    <2> QED BY <1>1, NatLessThanWellFounded, WFMin
  <1>3. \A m \in R : ~ (m < n)
    <2> SUFFICES ASSUME NEW m \in R PROVE ~ (m < n)
      OBVIOUS
    <2>1. <<m, n>> \notin {ss \in Nat \X Nat : ss[1] < ss[2]}
      <3> HIDE DEF R
      <3> QED BY <1>2, Zenon DEF OpToRel
    <2>2. m \in Nat /\ n \in Nat
      <3> HIDE DEF R
      <3> QED BY <1>1
    <2> HIDE DEF R
    <2> QED BY <2>1, <2>2
  <1>4. n \in Order /\ n \notin S
    OBVIOUS
  <1>5. n # 0 /\ n \in 0 .. MaxOrder /\ MaxOrder \in Nat
    BY <1>4, ZonesAssumption DEF Order
  <1>6. n - 1 \in 0 .. MaxOrder - 1 /\ n - 1 \in Order /\ n - 1 < n /\ (n - 1) + 1 = n
    BY <1>5 DEF Order
  <1>7. n - 1 \in S
    BY <1>3, <1>6
  <1> QED BY <1>4, <1>6, <1>7

\* f begins with c and applies h[o] in turn o: there is one such function.
Runs(f, c, h) ==
    f \in [Order -> Int] /\ \A o \in Order : f[o] = IF o = 0 THEN c ELSE h[o][f[o - 1]]

Orders(n) == 0 .. n
RunsTo(f, c, h, n) ==
    f \in [Orders(n) -> Int] /\ \A o \in Orders(n) : f[o] = IF o = 0 THEN c ELSE h[o][f[o - 1]]

LEMMA RunsExists ==
    ASSUME NEW c \in Int, NEW h \in [Order -> [Int -> Int]]
    PROVE  \E f : Runs(f, c, h)
  <1> DEFINE S == {n \in Order : \E f : RunsTo(f, c, h, n)}
  <1>0. MaxOrder \in Nat /\ Order = 0 .. MaxOrder
    BY ZonesAssumption DEF Order
  <1>1. 0 \in S
    <2> DEFINE f == [o \in Orders(0) |-> c]
    <2>1. f \in [Orders(0) -> Int] /\ \A o \in Orders(0) : o = 0 /\ f[o] = c
      BY DEF Orders
    <2>2. RunsTo(f, c, h, 0)
      <3> HIDE DEF f
      <3> QED BY <2>1 DEF RunsTo
    <2> QED BY <2>2, <1>0
  <1>2. ASSUME NEW n \in 0 .. MaxOrder - 1, n \in S
        PROVE  n + 1 \in S
    <2>1. PICK g : RunsTo(g, c, h, n)
      BY <1>2
    <2> DEFINE f == [o \in Orders(n + 1) |-> IF o = n + 1 THEN h[n + 1][g[n]] ELSE g[o]]
    <2>2. n \in Nat /\ n + 1 \in Order
      BY <1>0
    <2>3. \A o \in Orders(n + 1) : o \in Nat /\ o <= n + 1 /\ (o # n + 1 => o \in Orders(n))
      BY <2>2 DEF Orders
    <2>4. g \in [Orders(n) -> Int] /\ n \in Orders(n) /\ h[n + 1] \in [Int -> Int]
      <3>1. g \in [Orders(n) -> Int] /\ n \in Orders(n)
        BY <2>1, <2>2 DEF RunsTo, Orders
      <3> QED BY <3>1, <2>2
    <2>5. f \in [Orders(n + 1) -> Int]
      BY <2>2, <2>3, <2>4
    <2>6. ASSUME NEW o \in Orders(n + 1)
          PROVE  f[o] = IF o = 0 THEN c ELSE h[o][f[o - 1]]
      <3>1. CASE o = n + 1
        <4>1. o # 0 /\ o - 1 = n /\ n # n + 1 /\ n \in Orders(n + 1)
          BY <3>1, <2>2 DEF Orders
        <4> QED BY <3>1, <4>1
      <3>2. CASE o # n + 1
        <4>1. o \in Orders(n) /\ g[o] = IF o = 0 THEN c ELSE h[o][g[o - 1]]
          BY <3>2, <2>1, <2>3 DEF RunsTo
        <4>2. o # 0 => o - 1 \in Orders(n + 1) /\ o - 1 # n + 1
          BY <4>1, <2>2 DEF Orders
        <4> QED BY <3>2, <4>1, <4>2
      <3> QED BY <3>1, <3>2
    <2>7. RunsTo(f, c, h, n + 1)
      <3> HIDE DEF f
      <3> QED BY <2>5, <2>6 DEF RunsTo
    <2> QED BY <2>2, <2>7
  <1>3. MaxOrder \in S
    <2> HIDE DEF S
    <2>1. Order \subseteq S
      BY <1>1, <1>2, OrderInduction
    <2> QED BY <2>1, <1>0
  <1>4. PICK f : RunsTo(f, c, h, MaxOrder)
    BY <1>3
  <1> QED BY <1>4, <1>0 DEF Runs, RunsTo, Orders

-----------------------------------------------------------------------------
(* PagesIn.                                                                 *)

\* f[o] is the pages in the blocks up to order o.
Upto(f, b) ==
    /\ f \in [Order -> Int]
    /\ \A o \in Order : f[o] = b[o] * Size[o] + (IF o = 0 THEN 0 ELSE f[o - 1])

LEMMA OrderFacts ==
    /\ MaxOrder \in Nat /\ Order = 0 .. MaxOrder /\ 0 \in Order /\ MaxOrder \in Order
    /\ \A o \in Order : o \in Nat /\ Size[o] \in Nat /\ Size[o] > 0
    /\ \A o \in Order : o # 0 => o - 1 \in Order /\ Size[o] = 2 * Size[o - 1]
  <1>1. MaxOrder \in Nat /\ Order = 0 .. MaxOrder /\ 0 \in Order /\ MaxOrder \in Order
    BY ZonesAssumption DEF Order
  <1>2. ASSUME NEW o \in Order PROVE o \in Nat /\ Size[o] \in Nat /\ Size[o] > 0
    BY <1>1, ZonesAssumption
  <1>3. ASSUME NEW o \in Order, o # 0 PROVE o - 1 \in Order /\ Size[o] = 2 * Size[o - 1]
    <2>1. o - 1 \in 0 .. MaxOrder - 1 /\ (o - 1) + 1 = o /\ o - 1 \in Order
      BY <1>1, <1>3
    <2> QED BY <2>1, ZonesAssumption
  <1> QED BY <1>1, <1>2, <1>3

LEMMA PagesInUpto ==
    ASSUME NEW b \in [Order -> Int]
    PROVE  \E f : Upto(f, b) /\ PagesIn(b) = f[MaxOrder]
  <1> DEFINE Def(f) == [o \in Order |-> b[o] * Size[o] + (IF o = 0 THEN 0 ELSE f[o - 1])]
  <1>0. \A o \in Order : b[o] * Size[o] \in Int
    BY OrderFacts
  <1>1. PICK c, h : c = b[0] * Size[0] /\ h = [o \in Order |-> [x \in Int |-> b[o] * Size[o] + x]]
    OBVIOUS
  <1>2. c \in Int /\ h \in [Order -> [Int -> Int]]
    <2>1. c \in Int
      BY <1>0, <1>1, OrderFacts
    <2>2. ASSUME NEW o \in Order PROVE [x \in Int |-> b[o] * Size[o] + x] \in [Int -> Int]
      <3>1. b[o] * Size[o] \in Int
        BY <1>0
      <3>2. PICK y : y = b[o] * Size[o]
        OBVIOUS
      <3> QED BY <3>1, <3>2
    <2> QED BY <2>1, <2>2, <1>1
  <1>3. PICK g : Runs(g, c, h)
    BY <1>2, RunsExists
  <1>4. g = Def(g)
    <2>1. ASSUME NEW o \in Order
          PROVE  g[o] = b[o] * Size[o] + (IF o = 0 THEN 0 ELSE g[o - 1])
      <3>1. g[o] = IF o = 0 THEN c ELSE h[o][g[o - 1]]
        BY <1>3 DEF Runs
      <3>2. CASE o = 0
        BY <3>1, <3>2, <1>0, <1>1
      <3>3. CASE o # 0
        <4>1. g[o - 1] \in Int /\ b[o] * Size[o] \in Int
          BY <3>3, <1>0, <1>3, OrderFacts DEF Runs
        <4> QED BY <3>1, <3>3, <4>1, <1>1
      <3> QED BY <3>2, <3>3
    <2>2. g \in [Order -> Int]
      BY <1>3 DEF Runs
    <2> QED BY <2>1, <2>2
  <1>5. PICK f : f = CHOOSE k : k = Def(k)
    OBVIOUS
  <1>6. f = Def(f)
    BY <1>4, <1>5
  <1>7. PagesIn(b) = f[MaxOrder]
    BY <1>5 DEF PagesIn
  <1>8. \A o \in Order : f[o] = b[o] * Size[o] + (IF o = 0 THEN 0 ELSE f[o - 1])
    BY <1>6
  <1>9. f \in [Order -> Int]
    <2> DEFINE S == {o \in Order : f[o] \in Int}
    <2>1. 0 \in S
      BY <1>0, <1>8, OrderFacts
    <2>2. ASSUME NEW o \in 0 .. MaxOrder - 1, o \in S PROVE o + 1 \in S
      <3>1. o + 1 \in Order /\ o + 1 # 0 /\ (o + 1) - 1 = o
        BY <2>2, OrderFacts
      <3>2. f[o + 1] = b[o + 1] * Size[o + 1] + f[o]
        BY <1>8, <3>1
      <3> QED BY <3>1, <3>2, <2>2, <1>0
    <2>3. Order \subseteq S
      <3> HIDE DEF S
      <3> QED BY <2>1, <2>2, OrderInduction
    <2>4. \A o \in Order : f[o] \in Int
      BY <2>3
    <2>5. f = [o \in Order |-> f[o]]
      BY <1>6
    <2> QED BY <2>4, <2>5
  <1> QED BY <1>7, <1>8, <1>9 DEF Upto

\* Blocks are pages: none is negative, and each one counts.
LEMMA PagesInBounds ==
    ASSUME NEW b \in [Order -> Nat]
    PROVE  PagesIn(b) \in Nat /\ \A o \in Order : b[o] > 0 => PagesIn(b) >= Size[o]
  <1>0. b \in [Order -> Int]
    OBVIOUS
  <1>1. PICK f : Upto(f, b) /\ PagesIn(b) = f[MaxOrder]
    BY <1>0, PagesInUpto
  <1>2. ASSUME NEW o \in Order
        PROVE  /\ b[o] * Size[o] \in Nat /\ f[o] \in Int
               /\ b[o] > 0 => b[o] * Size[o] >= Size[o]
    <2>1. b[o] \in Nat /\ Size[o] \in Nat /\ f[o] \in Int
      BY <1>1, OrderFacts DEF Upto
    <2>2. ASSUME NEW x \in Nat, NEW y \in Nat PROVE x * y \in Nat /\ (x > 0 => x * y >= y)
      OBVIOUS
    <2> QED BY <2>1, <2>2
  <1>3. ASSUME NEW p \in Order, b[p] > 0 \/ p = 0
        PROVE  \A k \in Order : f[k] >= 0 /\ (k >= p /\ b[p] > 0 => f[k] >= Size[p])
    <2> DEFINE S == {k \in Order : f[k] >= 0 /\ (k >= p /\ b[p] > 0 => f[k] >= Size[p])}
    <2>1. 0 \in S
      <3>1. f[0] = b[0] * Size[0] + 0 /\ p \in Nat
        BY <1>1, OrderFacts DEF Upto
      <3>2. b[0] * Size[0] \in Nat /\ (b[0] > 0 => b[0] * Size[0] >= Size[0]) /\ 0 \in Order
        BY <1>2, OrderFacts
      <3>3. f[0] = b[0] * Size[0]
        BY <3>1, <3>2
      <3>4. 0 >= p => p = 0
        BY <3>1
      <3> QED BY <3>2, <3>3, <3>4
    <2>2. ASSUME NEW k \in 0 .. MaxOrder - 1, k \in S PROVE k + 1 \in S
      <3>1. k + 1 \in Order /\ k \in Order /\ k + 1 # 0 /\ (k + 1) - 1 = k /\ k \in Nat /\ p \in Nat
        BY <2>2, OrderFacts
      <3>2. f[k + 1] = b[k + 1] * Size[k + 1] + f[k]
        BY <1>1, <3>1 DEF Upto
      <3>3. b[k + 1] * Size[k + 1] \in Nat /\ f[k] \in Int /\ f[k] >= 0 /\ Size[p] \in Nat
        BY <3>1, <1>2, <2>2, OrderFacts
      <3>4. f[k + 1] \in Int /\ f[k + 1] >= 0 /\ f[k + 1] >= f[k]
        BY <3>2, <3>3
      <3>5. ASSUME k + 1 >= p, b[p] > 0 PROVE f[k + 1] >= Size[p]
        <4>1. CASE k >= p
          BY <4>1, <3>1, <3>3, <3>4, <3>5, <2>2
        <4>2. CASE p = k + 1
          <5>1. b[k + 1] * Size[k + 1] >= Size[k + 1]
            BY <4>2, <3>1, <3>5, <1>2
          <5> QED BY <5>1, <4>2, <3>2, <3>3
        <4> QED BY <4>1, <4>2, <3>1, <3>5
      <3> QED BY <3>1, <3>4, <3>5
    <2>3. Order \subseteq S
      <3> HIDE DEF S
      <3> QED BY <2>1, <2>2, OrderInduction
    <2> QED BY <2>3
  <1>4. f[MaxOrder] >= 0
    BY <1>3, OrderFacts
  <1>5. ASSUME NEW o \in Order, b[o] > 0 PROVE f[MaxOrder] >= Size[o]
    <2>1. MaxOrder >= o
      BY OrderFacts
    <2> QED BY <1>3, <1>5, <2>1, OrderFacts
  <1> QED BY <1>1, <1>2, <1>4, <1>5, OrderFacts

\* Two lists of blocks whose pages differ, up to order k, by e[k].
LEMMA PagesInDiffer ==
    ASSUME NEW a \in [Order -> Int], NEW b \in [Order -> Int], NEW e \in [Order -> Int],
           \A o \in Order : b[o] * Size[o] + (IF o = 0 THEN 0 ELSE e[o - 1]) = a[o] * Size[o] + e[o]
    PROVE  PagesIn(b) = PagesIn(a) + e[MaxOrder]
  <1>1. PICK f : Upto(f, a) /\ PagesIn(a) = f[MaxOrder]
    BY PagesInUpto
  <1>2. PICK g : Upto(g, b) /\ PagesIn(b) = g[MaxOrder]
    BY PagesInUpto
  <1> DEFINE S == {k \in Order : g[k] = f[k] + e[k]}
  <1>3. \A o \in Order : f[o] \in Int /\ g[o] \in Int /\ e[o] \in Int
                         /\ a[o] * Size[o] \in Int /\ b[o] * Size[o] \in Int
    <2> SUFFICES ASSUME NEW o \in Order
                 PROVE  f[o] \in Int /\ g[o] \in Int /\ e[o] \in Int
                         /\ a[o] * Size[o] \in Int /\ b[o] * Size[o] \in Int
      OBVIOUS
    <2>1. f[o] \in Int /\ g[o] \in Int /\ e[o] \in Int
      BY <1>1, <1>2 DEF Upto
    <2>2. a[o] \in Int /\ b[o] \in Int /\ Size[o] \in Int
      BY OrderFacts
    <2> QED BY <2>1, <2>2
  <1>4. 0 \in S
    <2>1. f[0] = a[0] * Size[0] + 0 /\ g[0] = b[0] * Size[0] + 0
      BY <1>1, <1>2, OrderFacts DEF Upto
    <2>2. b[0] * Size[0] + 0 = a[0] * Size[0] + e[0]
      BY OrderFacts
    <2> QED BY <2>1, <2>2, <1>3, OrderFacts
  <1>5. ASSUME NEW k \in 0 .. MaxOrder - 1, k \in S PROVE k + 1 \in S
    <2>1. k + 1 \in Order /\ k \in Order /\ k + 1 # 0 /\ (k + 1) - 1 = k
      BY <1>5, OrderFacts
    <2>2. /\ f[k + 1] = a[k + 1] * Size[k + 1] + f[k]
          /\ g[k + 1] = b[k + 1] * Size[k + 1] + g[k]
          /\ b[k + 1] * Size[k + 1] + e[k] = a[k + 1] * Size[k + 1] + e[k + 1]
          /\ g[k] = f[k] + e[k]
      BY <1>1, <1>2, <1>5, <2>1 DEF Upto
    <2>3. PICK x, y : x = a[k + 1] * Size[k + 1] /\ y = b[k + 1] * Size[k + 1]
      OBVIOUS
    <2>4. x \in Int /\ y \in Int
      BY <1>3, <2>1, <2>3
    <2>5. g[k + 1] = f[k + 1] + e[k + 1]
      BY <2>1, <2>2, <2>3, <2>4, <1>3
    <2> QED BY <2>1, <2>5
  <1>6. Order \subseteq S
    <2> HIDE DEF S
    <2> QED BY <1>4, <1>5, OrderInduction
  <1> QED BY <1>1, <1>2, <1>6, OrderFacts

\* Sizes grow with the order.
LEMMA SizeGrows == \A p \in Order : \A o \in Order : p <= o => Size[p] <= Size[o]
  <1> TAKE p \in Order
  <1> DEFINE S == {o \in Order : p <= o => Size[p] <= Size[o]}
  <1>1. 0 \in S
    <2>1. p <= 0 => p = 0
      BY OrderFacts
    <2> QED BY <2>1, OrderFacts
  <1>2. ASSUME NEW o \in 0 .. MaxOrder - 1, o \in S PROVE o + 1 \in S
    <2>1. o + 1 \in Order /\ o \in Order /\ o + 1 # 0 /\ (o + 1) - 1 = o /\ p \in Nat /\ o \in Nat
      BY <1>2, OrderFacts
    <2>2. Size[o + 1] = 2 * Size[o] /\ Size[o] \in Nat /\ Size[p] \in Nat
      BY <2>1, OrderFacts
    <2>3. p <= o + 1 => p <= o \/ p = o + 1
      BY <2>1
    <2> QED BY <1>2, <2>1, <2>2, <2>3
  <1>3. Order \subseteq S
    <2> HIDE DEF S
    <2> QED BY <1>1, <1>2, OrderInduction
  <1> QED BY <1>3

\* expand: a block is taken, and only the pages asked for are missing.
LEMMA SplitPages ==
    ASSUME NEW a \in [Order -> Nat], NEW order \in Order, NEW from \in Order,
           order <= from, a[from] > 0
    PROVE  /\ Split(a, from, order) \in [Order -> Nat]
           /\ PagesIn(Split(a, from, order)) = PagesIn(a) - Size[order]
  <1>1. PICK b : b = Split(a, from, order)
    OBVIOUS
  <1>2. \A o \in Order : b[o] = IF o = from THEN a[o] - 1
                                ELSE IF o \in order .. from - 1 THEN a[o] + 1 ELSE a[o]
    BY <1>1 DEF Split
  <1>3. b \in [Order -> Nat]
    BY <1>1, OrderFacts DEF Split
  <1>4. PICK e : e = [o \in Order |-> IF o < order THEN 0
                                       ELSE IF o < from THEN Size[o + 1] - Size[order]
                                       ELSE 0 - Size[order]]
    OBVIOUS
  <1>5. \A o \in Order : o < from => o + 1 \in Order /\ Size[o + 1] = 2 * Size[o]
    <2> SUFFICES ASSUME NEW o \in Order, o < from
                 PROVE  o + 1 \in Order /\ Size[o + 1] = 2 * Size[o]
      OBVIOUS
    <2>1. o + 1 \in Order /\ o + 1 # 0 /\ (o + 1) - 1 = o
      BY OrderFacts
    <2> QED BY <2>1, OrderFacts
  <1>6. e \in [Order -> Int]
    <2> SUFFICES ASSUME NEW o \in Order
                 PROVE  (IF o < order THEN 0 ELSE IF o < from THEN Size[o + 1] - Size[order]
                                       ELSE 0 - Size[order]) \in Int
      BY <1>4
    <2>1. /\ o \in Nat /\ order \in Nat /\ from \in Nat /\ Size[order] \in Nat
          /\ o < from => Size[o + 1] \in Nat
      BY <1>5, OrderFacts
    <2> QED BY <2>1
  <1>7. ASSUME NEW o \in Order
        PROVE  b[o] * Size[o] + (IF o = 0 THEN 0 ELSE e[o - 1]) = a[o] * Size[o] + e[o]
    <2>1. /\ o \in Nat /\ order \in Nat /\ from \in Nat
          /\ Size[o] \in Nat /\ Size[order] \in Nat /\ a[o] \in Nat
      BY OrderFacts
    <2>2. (a[o] - 1) * Size[o] = a[o] * Size[o] - Size[o] /\ (a[o] + 1) * Size[o] = a[o] * Size[o] + Size[o]
          /\ a[o] * Size[o] \in Nat
      <3>1. ASSUME NEW x \in Nat, NEW y \in Nat
            PROVE  (x - 1) * y = x * y - y /\ (x + 1) * y = x * y + y /\ x * y \in Nat
        OBVIOUS
      <3> QED BY <2>1, <3>1
    <2>3. (IF o = 0 THEN 0 ELSE e[o - 1]) =
              IF o <= order THEN 0 ELSE IF o <= from THEN Size[o] - Size[order] ELSE 0 - Size[order]
      <3>1. CASE o = 0
        BY <3>1, <2>1
      <3>2. CASE o # 0
        <4>1. o - 1 \in Order /\ (o - 1) + 1 = o /\ (o - 1 < order <=> o <= order) /\ (o - 1 < from <=> o <= from)
          BY <3>2, <2>1, OrderFacts
        <4> QED BY <3>2, <4>1, <1>4
      <3> QED BY <3>1, <3>2
    <2>4. e[o] = IF o < order THEN 0 ELSE IF o < from THEN Size[o + 1] - Size[order] ELSE 0 - Size[order]
      BY <1>4
    <2>5. PICK x, y : x = a[o] * Size[o] /\ y = b[o] * Size[o]
      OBVIOUS
    <2>6. CASE o < order
      <3>1. y = x
        BY <2>1, <2>5, <2>6, <1>2
      <3> QED BY <3>1, <2>1, <2>2, <2>3, <2>4, <2>5, <2>6
    <2>7. CASE o >= order /\ o < from
      <3>1. y = x + Size[o] /\ x \in Nat /\ Size[o + 1] = 2 * Size[o]
        BY <2>1, <2>2, <2>5, <2>7, <1>2, <1>5
      <3>2. CASE o = order
        BY <3>1, <3>2, <2>1, <2>3, <2>4, <2>5, <2>7
      <3>3. CASE o # order
        BY <3>1, <3>3, <2>1, <2>3, <2>4, <2>5, <2>7
      <3> QED BY <3>2, <3>3
    <2>8. CASE o = from
      <3>1. y = x - Size[o] /\ x \in Nat
        BY <2>1, <2>2, <2>5, <2>8, <1>2
      <3>2. CASE o = order
        BY <3>1, <3>2, <2>1, <2>3, <2>4, <2>5, <2>8
      <3>3. CASE o # order
        BY <3>1, <3>3, <2>1, <2>3, <2>4, <2>5, <2>8
      <3> QED BY <3>2, <3>3
    <2>9. CASE o > from
      <3>1. y = x /\ x \in Nat
        BY <2>1, <2>2, <2>5, <2>9, <1>2
      <3> QED BY <3>1, <2>1, <2>3, <2>4, <2>5, <2>9
    <2> QED BY <2>1, <2>6, <2>7, <2>8, <2>9
  <1>8. PagesIn(b) = PagesIn(a) + e[MaxOrder]
    <2>1. a \in [Order -> Int] /\ b \in [Order -> Int]
      BY <1>3
    <2> QED BY <2>1, <1>6, <1>7, PagesInDiffer
  <1>9. e[MaxOrder] = 0 - Size[order]
    <2>1. ~ (MaxOrder < order) /\ ~ (MaxOrder < from) /\ MaxOrder \in Order
      BY OrderFacts
    <2> QED BY <2>1, <1>4
  <1>10. PagesIn(a) \in Nat /\ Size[order] \in Nat
    BY PagesInBounds, OrderFacts
  <1> QED BY <1>1, <1>3, <1>8, <1>9, <1>10

\* __free_one_page: a block comes back, and is merged as far as it goes; to
\* split the result again would give what was there.
LEMMA MergePages ==
    ASSUME NEW a \in [Order -> Nat], NEW order \in Order, NEW to \in Merges(a, order)
    PROVE  /\ Merged(a, order, to) \in [Order -> Nat]
           /\ PagesIn(Merged(a, order, to)) = PagesIn(a) + Size[order]
  <1>0. to \in Order /\ order <= to /\ \A o \in order .. to - 1 : o \in Order /\ a[o] > 0
    BY OrderFacts DEF Merges
  <1>1. PICK b : b = Merged(a, order, to)
    OBVIOUS
  <1>2. \A o \in Order : b[o] = IF o = to THEN a[o] + 1
                                ELSE IF o \in order .. to - 1 THEN a[o] - 1 ELSE a[o]
    BY <1>1 DEF Merged
  <1>3. b \in [Order -> Nat]
    <2>1. ASSUME NEW o \in Order PROVE b[o] \in Nat
      BY <1>0, <1>2
    <2> QED BY <2>1, <1>1 DEF Merged
  <1>4. b[to] > 0
    BY <1>0, <1>2
  <1>5. Split(b, to, order) = a
    <2>1. ASSUME NEW o \in Order PROVE Split(b, to, order)[o] = a[o]
      BY <1>2 DEF Split
    <2> QED BY <2>1 DEF Split
  <1>6. PagesIn(a) = PagesIn(b) - Size[order]
    BY <1>0, <1>3, <1>4, <1>5, SplitPages
  <1>7. PagesIn(a) \in Nat /\ PagesIn(b) \in Nat /\ Size[order] \in Nat
    BY <1>3, PagesInBounds, OrderFacts
  <1> QED BY <1>1, <1>3, <1>6, <1>7

-----------------------------------------------------------------------------
(* zone_watermark_ok.                                                       *)

\* NR_FREE_PAGES is what is on the free lists.
NrRight == \A z \in Zones : nr[z] = PagesIn(area[z])

\* The two loops of zone_watermark_ok: what is left of the free pages when the
\* blocks below order o are set aside, and the mark halved o times.
Leaves(f, z, start) ==
    /\ f \in [Order -> Int]
    /\ \A o \in Order : f[o] = IF o = 0 THEN start ELSE f[o - 1] - area[z][o - 1] * Size[o - 1]
Halves(f, min) ==
    /\ f \in [Order -> Int]
    /\ \A o \in Order : f[o] = IF o = 0 THEN min ELSE f[o - 1] \div 2

\* The CHOOSE of a recursive function is a fixed point, and so a function that
\* takes these steps.
LEMMA LeavesExists ==
    ASSUME NEW z \in Zones, area[z] \in [Order -> Nat], NEW start \in Int
    PROVE  LET Def(f) == [o \in Order |-> IF o = 0 THEN start
                                          ELSE f[o - 1] - area[z][o - 1] * Size[o - 1]]
           IN  Leaves(CHOOSE f : f = Def(f), z, start)
  <1> DEFINE Def(f) == [o \in Order |-> IF o = 0 THEN start
                                        ELSE f[o - 1] - area[z][o - 1] * Size[o - 1]]
             f == CHOOSE g : g = Def(g)
  <1>0. \A o \in Order : o # 0 => o - 1 \in Order /\ area[z][o - 1] * Size[o - 1] \in Int
    <2> SUFFICES ASSUME NEW o \in Order, o # 0
                 PROVE  o - 1 \in Order /\ area[z][o - 1] * Size[o - 1] \in Int
      OBVIOUS
    <2>1. o - 1 \in Order /\ area[z][o - 1] \in Int /\ Size[o - 1] \in Int
      BY OrderFacts
    <2> QED BY <2>1
  <1>1. PICK h : h = [o \in Order |-> [x \in Int |->
                         IF o = 0 THEN x ELSE x - area[z][o - 1] * Size[o - 1]]]
    OBVIOUS
  <1>2. h \in [Order -> [Int -> Int]]
    <2>1. ASSUME NEW o \in Order
          PROVE  [x \in Int |-> IF o = 0 THEN x ELSE x - area[z][o - 1] * Size[o - 1]] \in [Int -> Int]
      <3>1. PICK y : y = area[z][o - 1] * Size[o - 1]
        OBVIOUS
      <3>2. o # 0 => y \in Int
        BY <3>1, <1>0
      <3> QED BY <3>1, <3>2
    <2> QED BY <2>1, <1>1
  <1>3. PICK g : Runs(g, start, h)
    BY <1>2, RunsExists
  <1>4. g = Def(g)
    <2>1. ASSUME NEW o \in Order
          PROVE  g[o] = IF o = 0 THEN start ELSE g[o - 1] - area[z][o - 1] * Size[o - 1]
      <3>1. g[o] = IF o = 0 THEN start ELSE h[o][g[o - 1]]
        BY <1>3 DEF Runs
      <3>2. o # 0 => g[o - 1] \in Int
        BY <1>0, <1>3 DEF Runs
      <3> QED BY <3>1, <3>2, <1>1
    <2>2. g \in [Order -> Int]
      BY <1>3 DEF Runs
    <2> QED BY <2>1, <2>2
  <1>5. f = Def(f)
    BY <1>4
  <1> HIDE DEF f
  <1>6. f = [o \in Order |-> f[o]]
    BY <1>5
  <1>7. \A o \in Order : f[o] = IF o = 0 THEN start ELSE f[o - 1] - area[z][o - 1] * Size[o - 1]
    BY <1>5
  <1>8. f \in [Order -> Int]
    <2> DEFINE S == {o \in Order : f[o] \in Int}
    <2>1. 0 \in S
      BY <1>7, OrderFacts
    <2>2. ASSUME NEW o \in 0 .. MaxOrder - 1, o \in S PROVE o + 1 \in S
      <3>1. o + 1 \in Order /\ o + 1 # 0 /\ (o + 1) - 1 = o
        BY <2>2, OrderFacts
      <3>2. f[o + 1] = f[o] - area[z][o] * Size[o] /\ area[z][o] * Size[o] \in Int
        BY <1>0, <1>7, <3>1
      <3> QED BY <3>1, <3>2, <2>2
    <2>3. Order \subseteq S
      <3> HIDE DEF S
      <3> QED BY <2>1, <2>2, OrderInduction
    <2> QED BY <2>3, <1>6
  <1>9. Leaves(f, z, start)
    BY <1>7, <1>8 DEF Leaves
  <1> QED BY <1>9 DEF f

LEMMA HalvesExists ==
    ASSUME NEW min \in Int
    PROVE  LET Def(f) == [o \in Order |-> IF o = 0 THEN min ELSE f[o - 1] \div 2]
           IN  Halves(CHOOSE f : f = Def(f), min)
  <1> DEFINE Def(f) == [o \in Order |-> IF o = 0 THEN min ELSE f[o - 1] \div 2]
             f == CHOOSE g : g = Def(g)
  <1>0. \A o \in Order : o # 0 => o - 1 \in Order
    BY OrderFacts
  <1>1. PICK h : h = [o \in Order |-> [x \in Int |-> x \div 2]]
    OBVIOUS
  <1>2. h \in [Order -> [Int -> Int]]
    BY <1>1
  <1>3. PICK g : Runs(g, min, h)
    BY <1>2, RunsExists
  <1>4. g = Def(g)
    <2>1. ASSUME NEW o \in Order
          PROVE  g[o] = IF o = 0 THEN min ELSE g[o - 1] \div 2
      <3>1. g[o] = IF o = 0 THEN min ELSE h[o][g[o - 1]]
        BY <1>3 DEF Runs
      <3>2. o # 0 => g[o - 1] \in Int
        BY <1>0, <1>3 DEF Runs
      <3> QED BY <3>1, <3>2, <1>1
    <2>2. g \in [Order -> Int]
      BY <1>3 DEF Runs
    <2> QED BY <2>1, <2>2
  <1>5. f = Def(f)
    BY <1>4
  <1> HIDE DEF f
  <1>6. f = [o \in Order |-> f[o]]
    BY <1>5
  <1>7. \A o \in Order : f[o] = IF o = 0 THEN min ELSE f[o - 1] \div 2
    BY <1>5
  <1>8. f \in [Order -> Int]
    <2> DEFINE S == {o \in Order : f[o] \in Int}
    <2>1. 0 \in S
      BY <1>7, OrderFacts
    <2>2. ASSUME NEW o \in 0 .. MaxOrder - 1, o \in S PROVE o + 1 \in S
      <3>1. o + 1 \in Order /\ o + 1 # 0 /\ (o + 1) - 1 = o
        BY <2>2, OrderFacts
      <3>2. f[o + 1] = f[o] \div 2
        BY <1>7, <3>1
      <3> QED BY <3>1, <3>2, <2>2
    <2>3. Order \subseteq S
      <3> HIDE DEF S
      <3> QED BY <2>1, <2>2, OrderInduction
    <2> QED BY <2>3, <1>6
  <1>9. Halves(f, min)
    BY <1>7, <1>8 DEF Halves
  <1> QED BY <1>9 DEF f

\* What a zone that passes the check has.
LEMMA WatermarkPasses ==
    ASSUME NEW z \in Zones, NEW class \in Zones, NEW order \in Order, NEW min \in Nat,
           nr \in [Zones -> Int], area \in [Zones -> [Order -> Nat]],
           zone_watermark_ok(z, order, min, class)
    PROVE  /\ nr[z] >= min + Size[order]
           /\ \E left, low : /\ Leaves(left, z, nr[z] - Size[order] + 1) /\ Halves(low, min)
                             /\ \A o \in 1 .. order : left[o] > low[o]
  <1>0. nr[z] \in Int /\ Size[order] \in Nat /\ lowmem_reserve[z][class] \in Nat /\ area[z] \in [Order -> Nat]
    <2>1. lowmem_reserve[z] \in [Zones -> Nat]
      BY ZonesAssumption
    <2> QED BY <2>1, OrderFacts
  <1>1. PICK start : start = nr[z] - Size[order] + 1
    OBVIOUS
  <1> DEFINE Def(f) == [o \in Order |-> IF o = 0 THEN start
                                        ELSE f[o - 1] - area[z][o - 1] * Size[o - 1]]
             Half(f) == [o \in Order |-> IF o = 0 THEN min ELSE f[o - 1] \div 2]
  <1>2. PICK left, low : left = (CHOOSE f : f = Def(f)) /\ low = CHOOSE f : f = Half(f)
    OBVIOUS
  <1>3. start > min + lowmem_reserve[z][class] /\ \A o \in 1 .. order : left[o] > low[o]
    BY <1>1, <1>2 DEF zone_watermark_ok
  <1>4. Leaves(left, z, start)
    <2>1. start \in Int
      BY <1>0, <1>1
    <2>2. Leaves(CHOOSE f : f = Def(f), z, start)
      BY <1>0, <2>1, LeavesExists
    <2> QED BY <1>2, <2>2
  <1>5. Halves(low, min)
    BY <1>2, HalvesExists
  <1> QED BY <1>0, <1>1, <1>3, <1>4, <1>5

\* Setting aside every block that is too small leaves something, so there is
\* a block that is not.
LEMMA WatermarkBlock ==
    ASSUME NEW z \in Zones, NEW class \in Zones, NEW order \in Order, NEW min \in Nat,
           nr \in [Zones -> Int], area \in [Zones -> [Order -> Nat]], NrRight,
           zone_watermark_ok(z, order, min, class)
    PROVE  Enough(z, order) # {}
  <1> SUFFICES ASSUME \A o \in Order : o >= order => area[z][o] = 0 PROVE FALSE
    <2>1. \A o \in Order : area[z][o] \in Nat
      OBVIOUS
    <2> QED BY <2>1 DEF Enough
  <1>1. PICK left, low :
            /\ nr[z] >= min + Size[order]
            /\ Leaves(left, z, nr[z] - Size[order] + 1) /\ Halves(low, min)
            /\ \A o \in 1 .. order : left[o] > low[o]
    BY WatermarkPasses
  <1>2. area[z] \in [Order -> Nat] /\ area[z] \in [Order -> Int]
    OBVIOUS
  <1>3. PICK f : Upto(f, area[z]) /\ PagesIn(area[z]) = f[MaxOrder]
    BY <1>2, PagesInUpto
  <1>4. /\ nr[z] = f[MaxOrder] /\ nr[z] \in Int /\ Size[order] \in Nat /\ Size[order] > 0
        /\ \A o \in Order : f[o] \in Int /\ left[o] \in Int /\ low[o] \in Int /\ o \in Nat
    BY <1>1, <1>3, OrderFacts DEF NrRight, Upto, Leaves, Halves
  <1> DEFINE start == nr[z] - Size[order] + 1
             \* What the loops have computed after o turns.
             P(o) == /\ low[o] >= 0
                     /\ o # 0 => left[o] = start - f[o - 1]
                     /\ o >= order => f[o] = IF order = 0 THEN 0 ELSE f[order - 1]
             S == {o \in Order : P(o)}
  <1>5. 0 \in S
    <2>1. low[0] = min /\ f[0] = area[z][0] * Size[0] + 0
      BY <1>1, <1>3, OrderFacts DEF Halves, Upto
    <2>2. 0 >= order => order = 0 /\ area[z][0] = 0
      BY OrderFacts
    <2>3. 0 >= order => f[0] = 0
      BY <2>1, <2>2, OrderFacts
    <2> QED BY <2>1, <2>2, <2>3, OrderFacts
  <1>6. ASSUME NEW o \in 0 .. MaxOrder - 1, o \in S PROVE o + 1 \in S
    <2>1. /\ o + 1 \in Order /\ o \in Order /\ o + 1 # 0 /\ (o + 1) - 1 = o /\ o \in Nat
          /\ order \in Nat
      BY <1>6, OrderFacts
    <2>2. /\ low[o + 1] = low[o] \div 2
          /\ left[o + 1] = left[o] - area[z][o] * Size[o]
          /\ f[o + 1] = area[z][o + 1] * Size[o + 1] + f[o]
          /\ f[o] = area[z][o] * Size[o] + (IF o = 0 THEN 0 ELSE f[o - 1])
          /\ o = 0 => left[o] = start
      BY <1>1, <1>3, <2>1 DEF Halves, Leaves, Upto
    <2>3. low[o + 1] >= 0
      BY <2>1, <2>2, <1>4, <1>6
    <2>4. left[o + 1] = start - f[o]
      <3>1. PICK x : x = area[z][o] * Size[o]
        OBVIOUS
      <3>2. x \in Int /\ start \in Int /\ f[o] \in Int /\ left[o] \in Int
        <4>1. area[z][o] \in Int /\ Size[o] \in Int
          BY <2>1, <1>2, OrderFacts
        <4> QED BY <4>1, <3>1, <2>1, <1>4
      <3>3. CASE o = 0
        BY <3>1, <3>2, <3>3, <2>2
      <3>4. CASE o # 0
        <4>1. left[o] = start - f[o - 1] /\ f[o - 1] \in Int
          BY <3>4, <2>1, <1>4, <1>6, OrderFacts
        <4> HIDE DEF start
        <4> QED BY <4>1, <3>1, <3>2, <3>4, <2>2
      <3> QED BY <3>3, <3>4
    <2>5. ASSUME o + 1 >= order
          PROVE  f[o + 1] = IF order = 0 THEN 0 ELSE f[order - 1]
      <3>1. area[z][o + 1] = 0 /\ Size[o + 1] \in Nat /\ f[o] \in Int
        BY <2>1, <2>5, <1>4, OrderFacts
      <3>2. f[o + 1] = f[o]
        BY <3>1, <2>2
      <3>3. CASE o >= order
        BY <3>2, <3>3, <1>6
      <3>4. CASE o + 1 = order
        BY <3>2, <3>4, <2>1
      <3> QED BY <3>3, <3>4, <2>1, <2>5
    <2> HIDE DEF start
    <2> QED BY <2>1, <2>3, <2>4, <2>5
  <1>7. Order \subseteq S
    <2> HIDE DEF S
    <2> QED BY <1>5, <1>6, OrderInduction
  <1>8. /\ f[MaxOrder] = IF order = 0 THEN 0 ELSE f[order - 1]
        /\ low[order] >= 0 /\ (order # 0 => left[order] = start - f[order - 1])
    BY <1>7, OrderFacts
  <1>9. CASE order = 0
    BY <1>1, <1>4, <1>8, <1>9
  <1>10. CASE order # 0
    <2>1. order \in 1 .. order /\ order \in Order
      BY <1>10, OrderFacts
    <2>2. left[order] > low[order] /\ left[order] = nr[z] - Size[order] + 1 - nr[z]
      BY <2>1, <1>1, <1>4, <1>8, <1>10
    <2> QED BY <2>1, <2>2, <1>4, <1>8
  <1> QED BY <1>9, <1>10

-----------------------------------------------------------------------------
(* The invariant.                                                           *)

\* How far a scan has come: the zones above the one it is at have been looked
\* at, unless the zonelist cache has let it skip some, in which case it will
\* begin again; it is over only when all of them have been.
Looks(s) ==
    /\ s.seen \subseteq 1 .. s.req.zone
    /\ s.pc \in {"scan", "recheck", "take"} =>
          s.z <= s.req.zone /\ (~ s.zlc => s.z + 1 .. s.req.zone \subseteq s.seen)
    /\ s.pc \in {"recheck", "take"} => s.z > 0
    /\ s.pc \in Failed => s.seen = 1 .. s.req.zone

Looked == \A t \in Tasks : Looks(task[t])

\* Who has passed the check of zone z and not taken yet.  The last one to pass
\* found its pages above the mark; since then each other one has taken a
\* request, and there are no more of those than tasks that are not takers now.
\* A task that ignores the watermarks leaves a floor of 0.
Takers(z) == {t \in Tasks : At(t, "take") /\ task[t].z = z}
Spared(z) ==
    /\ floor[z] >= 0
    /\ \/ floor[z] = 0
       \/ nr[z] >= floor[z] - (Cardinality(Tasks) - 1 - Cardinality(Takers(z))) * Size[MaxOrder]
       \/ \E u \in Takers(z) :
             nr[z] >= floor[z] + Size[task[u].req.order]
                      - (Cardinality(Tasks) - Cardinality(Takers(z))) * Size[MaxOrder]
AllSpared == \A z \in Zones : Spared(z)

IInv == TypeOK /\ NrRight /\ Looked /\ AllSpared /\ SmallNeverFails

-----------------------------------------------------------------------------
(* The steps of one task.                                                   *)

\* What SmallNeverFails says of a task in state s.
Small(t, s) ==
    /\ s.pc = "nopage" /\ s.req.order <= PAGE_ALLOC_COSTLY_ORDER
    /\ s.req.wait /\ ~ s.req.noretry
    => \/ t \in memdie \/ s.req.memalloc
       \/ oom_killer_disabled /\ s.req.fs
       \/ NUMA /\ s.req.thisnode

\* The task goes to a good state s.
Good(t, s) == s \in Task /\ Looks(s) /\ Small(t, s)
Moves(t, s) == task' = [task EXCEPT ![t] = s] /\ Good(t, s)

LEMMA TaskFacts ==
    ASSUME TypeOK, NEW t \in Tasks
    PROVE  /\ task[t] \in Task /\ task[t].req \in Request
           /\ task[t].req.zone \in Zones /\ task[t].req.order \in Order
           /\ task[t].z \in 0 .. NZones /\ task[t].seen \subseteq Zones
           /\ NZones \in Nat /\ Zones = 1 .. NZones
  <1>1. task[t] \in Task
    BY DEF TypeOK
  <1>2. task[t].req \in Request /\ task[t].z \in 0 .. NZones /\ task[t].seen \subseteq Zones
    BY <1>1 DEF Task
  <1> QED BY <1>1, <1>2, ZonesAssumption DEF Request, Zones

LEMMA IdleGood == ASSUME NEW t PROVE Good(t, Idle)
  <1>1. Idle.req \in Request
    BY RequestsAssumption DEF Idle
  <1>2. Idle \in Task
    BY <1>1, ZonesAssumption DEF Idle, Task, Marks
  <1>3. Looks(Idle)
    BY DEF Looks, Idle, Failed
  <1>4. Small(t, Idle)
    BY DEF Small, Idle
  <1> QED BY <1>2, <1>3, <1>4 DEF Good

LEMMA ScanningGood ==
    ASSUME NEW t, NEW r \in Request, NEW wm \in Marks, NEW nowm \in BOOLEAN,
           NEW back \in {"restart", "rebalance", "prio", "retry", "outofmem"}, NEW n \in Nat
    PROVE  Good(t, Scanning(t, r, wm, nowm, back, n))
  <1>1. r.zone \in 0 .. NZones /\ r.zone \in Nat
    BY ZonesAssumption DEF Request, Zones
  <1> DEFINE s == Scanning(t, r, wm, nowm, back, n)
  <1>2. s \in Task
    BY <1>1 DEF Scanning, Task
  <1>3. Looks(s)
    <2>1. s.pc = "scan" /\ s.seen = {} /\ s.z = r.zone /\ s.req = r
      BY DEF Scanning
    <2>2. r.zone <= r.zone /\ (r.zone + 1) .. r.zone = {}
      BY <1>1
    <2> HIDE DEF s
    <2> QED BY <2>1, <2>2 DEF Looks, Failed
  <1>4. Small(t, s)
    BY DEF Scanning, Small
  <1> QED BY <1>2, <1>3, <1>4 DEF Good

LEMMA ScanMoves ==
    ASSUME TypeOK, NEW t \in Tasks, NEW wm \in Marks, NEW nowm \in BOOLEAN,
           NEW back \in {"restart", "rebalance", "prio", "retry", "outofmem"}, NEW n \in Nat,
           Scan(t, wm, nowm, back, n)
    PROVE  \E s : Moves(t, s) /\ s.pc = "scan"
  <1> DEFINE s == Scanning(t, task[t].req, wm, nowm, back, n)
  <1>1. task' = [task EXCEPT ![t] = s]
    BY DEF Scan, TypeOK
  <1>2. Good(t, s)
    BY TaskFacts, ScanningGood
  <1>3. s.pc = "scan"
    BY DEF Scanning
  <1> QED BY <1>1, <1>2, <1>3 DEF Moves

\* Another step of the slow path.
LEMMA GotoMoves ==
    ASSUME TypeOK, Looked, NEW t \in Tasks, task[t].pc \in Failed, NEW step \in Failed, Goto(t, step),
           Small(t, [task[t] EXCEPT !.pc = step])
    PROVE  \E s : Moves(t, s) /\ s.pc = step
  <1> DEFINE s == [task[t] EXCEPT !.pc = step]
  <1>1. task' = [task EXCEPT ![t] = s]
    BY DEF Goto, TypeOK
  <1>2. s \in Task /\ s.pc = step /\ s.seen = task[t].seen /\ s.req = task[t].req
    BY TaskFacts DEF Task, Failed
  <1>3. Looks(s)
    <2>1. Looks(task[t]) /\ task[t].pc \in Failed
      BY DEF Looked
    <2>2. step \notin {"scan", "recheck", "take"}
      BY DEF Failed
    <2> HIDE DEF s
    <2> QED BY <1>2, <2>1, <2>2 DEF Looks
  <1> QED BY <1>1, <1>2, <1>3 DEF Moves, Good

\* try_next_zone
LEMMA OnwardMoves ==
    ASSUME TypeOK, Looked, NEW t \in Tasks, task[t].pc \in {"scan", "recheck", "take"}, task[t].z > 0,
           NEW full, Onward(t, full)
    PROVE  \E s : Moves(t, s) /\ s.pc = "scan"
  <1> DEFINE o == task[t]
             s == [pc |-> "scan", req |-> o.req, z |-> o.z - 1, wm |-> o.wm, nowm |-> o.nowm,
                   zlc |-> o.zlc \/ (NUMA /\ ~ o.setup), setup |-> o.setup \/ NUMA,
                   seen |-> o.seen \cup {o.z}, back |-> o.back, reclaimed |-> o.reclaimed]
  <1>1. task' = [task EXCEPT ![t] = s]
    BY DEF Onward, TypeOK
  <1>2. /\ o \in Task /\ o.req.zone \in Nat /\ o.z \in Nat /\ o.seen \subseteq Zones
        /\ o.z \in Zones /\ o.z - 1 \in 0 .. NZones /\ Zones = 1 .. NZones
    BY TaskFacts
  <1>3. s \in Task
    BY <1>2, RequestsAssumption DEF Task
  <1>4. Looks(s)
    <2>1. Looks(o) /\ o.z <= o.req.zone /\ o.seen \subseteq 1 .. o.req.zone
      BY DEF Looked, Looks
    <2>2. o.z \in 1 .. o.req.zone /\ o.z - 1 <= o.req.zone
      BY <1>2, <2>1
    <2>3. ASSUME ~ s.zlc PROVE s.z + 1 .. s.req.zone \subseteq s.seen
      <3>1. ~ o.zlc
        BY <2>3
      <3>2. o.z + 1 .. o.req.zone \subseteq o.seen
        BY <3>1, <2>1 DEF Looks
      <3>3. \A y \in (o.z - 1) + 1 .. o.req.zone : y = o.z \/ y \in o.z + 1 .. o.req.zone
        BY <1>2
      <3> QED BY <3>2, <3>3
    <2>4. s.pc = "scan" /\ s.req = o.req /\ s.z = o.z - 1 /\ s.seen = o.seen \cup {o.z}
      OBVIOUS
    <2> HIDE DEF s, o
    <2> QED BY <2>1, <2>2, <2>3, <2>4 DEF Looks, Failed
  <1>5. Small(t, s) /\ s.pc = "scan"
    BY DEF Small
  <1> HIDE DEF s
  <1> QED BY <1>1, <1>3, <1>4, <1>5 DEF Moves, Good

LEMMA SkipMoves ==
    ASSUME TypeOK, Looked, NEW t \in Tasks, SkipZone(t)
    PROVE  \E s : Moves(t, s) /\ s.pc = "scan"
  <1> DEFINE s == [task[t] EXCEPT !.z = @ - 1]
  <1>1. task' = [task EXCEPT ![t] = s] /\ task[t].pc = "scan" /\ task[t].zlc /\ task[t].z > 0
    BY DEF SkipZone, TypeOK, At
  <1>0. task[t] \in Task /\ task[t].z - 1 \in 0 .. NZones
    BY <1>1, TaskFacts
  <1>2. s \in Task /\ s.pc = "scan" /\ s.seen = task[t].seen /\ s.req = task[t].req
        /\ s.zlc = task[t].zlc /\ s.z = task[t].z - 1
    <2>1. s \in Task
      BY <1>0 DEF Task
    <2>2. s.z = task[t].z - 1
      BY <1>0 DEF Task
    <2>3. s.pc = task[t].pc /\ s.seen = task[t].seen /\ s.req = task[t].req /\ s.zlc = task[t].zlc
      BY <1>0 DEF Task
    <2> HIDE DEF s
    <2> QED BY <1>1, <2>1, <2>2, <2>3
  <1>3. Looks(s)
    <2>1. Looks(task[t]) /\ task[t].z <= task[t].req.zone /\ task[t].z \in Nat /\ task[t].req.zone \in Nat
      BY <1>1, TaskFacts DEF Looked, Looks
    <2>2. s.z <= s.req.zone
      BY <1>2, <2>1
    <2> HIDE DEF s
    <2> QED BY <1>1, <1>2, <2>1, <2>2 DEF Looks, Failed
  <1>4. Small(t, s)
    BY <1>1 DEF Small
  <1> QED BY <1>1, <1>2, <1>3, <1>4 DEF Moves, Good

\* The scan has found nothing: it begins again without the cache, or is over.
LEMMA EndMoves ==
    ASSUME TypeOK, Looked, NEW t \in Tasks, EndOfScan(t)
    PROVE  \E s : Moves(t, s) /\ s.pc # "take"
  <1>1. task[t].pc = "scan" /\ task[t].z = 0 /\ Looks(task[t]) /\ task[t].req.zone \in Nat
    BY TaskFacts DEF EndOfScan, At, Looked
  <1>2. CASE task[t].zlc
    <2> DEFINE s == [task[t] EXCEPT !.z = task[t].req.zone, !.zlc = FALSE]
    <2>1. task' = [task EXCEPT ![t] = s]
      BY <1>2 DEF EndOfScan, TypeOK
    <2>0. task[t] \in Task /\ task[t].req.zone \in 0 .. NZones
      BY TaskFacts
    <2>2. s \in Task /\ s.pc = "scan" /\ s.seen = task[t].seen /\ s.req = task[t].req
          /\ s.z = task[t].req.zone
      <3>1. s \in Task
        BY <2>0 DEF Task
      <3>2. s.z = task[t].req.zone
        BY <2>0 DEF Task
      <3> QED BY <1>1, <3>1, <3>2
    <2>3. Looks(s)
      <3>1. s.z + 1 .. s.req.zone = {} /\ s.z <= s.req.zone
        BY <1>1, <2>2
      <3> HIDE DEF s
      <3> QED BY <1>1, <2>2, <3>1 DEF Looks, Failed
    <2>4. Small(t, s)
      BY <1>1 DEF Small
    <2> QED BY <2>1, <2>2, <2>3, <2>4 DEF Moves, Good
  <1>3. CASE ~ task[t].zlc
    <2> DEFINE s == [task[t] EXCEPT !.pc = task[t].back]
    <2>1. task' = [task EXCEPT ![t] = s]
      BY <1>3 DEF EndOfScan, TypeOK, Goto
    <2>2. task[t].back \in {"restart", "rebalance", "prio", "retry", "outofmem"}
      BY TaskFacts DEF Task
    <2>3. s \in Task /\ s.pc = task[t].back /\ s.seen = task[t].seen /\ s.req = task[t].req
      BY <1>1, <2>2, TaskFacts DEF Task
    <2>4. Looks(s)
      <3>0. task[t].z + 1 = 1 /\ (task[t].z + 1) .. task[t].req.zone \subseteq task[t].seen
        BY <1>1, <1>3 DEF Looks
      <3>1. 1 .. task[t].req.zone = task[t].seen
        BY <1>1, <3>0 DEF Looks
      <3>2. s.pc \notin {"scan", "recheck", "take"}
        BY <2>2, <2>3
      <3> HIDE DEF s
      <3> QED BY <2>3, <3>1, <3>2 DEF Looks
    <2>5. Small(t, s)
      <3> HIDE DEF s
      <3> QED BY <2>2, <2>3 DEF Small
    <2>6. s.pc # "take"
      <3> HIDE DEF s
      <3> QED BY <2>2, <2>3
    <2> QED BY <2>1, <2>3, <2>4, <2>5, <2>6 DEF Moves, Good
  <1> QED BY <1>2, <1>3

\* The zone passes the check, or is to be looked at again.
LEMMA ZoneMoves ==
    ASSUME TypeOK, Looked, NEW t \in Tasks, task[t].pc \in {"scan", "recheck"}, task[t].z > 0,
           NEW step \in {"recheck", "take"}, Goto(t, step)
    PROVE  \E s : Moves(t, s) /\ s.pc = step /\ s.z = task[t].z /\ s.req = task[t].req
  <1> DEFINE s == [task[t] EXCEPT !.pc = step]
  <1>1. task' = [task EXCEPT ![t] = s]
    BY DEF Goto, TypeOK
  <1>2. s \in Task /\ s.pc = step /\ s.seen = task[t].seen /\ s.req = task[t].req
        /\ s.z = task[t].z /\ s.zlc = task[t].zlc
    BY TaskFacts DEF Task
  <1>3. Looks(s)
    <2>1. Looks(task[t])
      BY DEF Looked
    <2> HIDE DEF s
    <2> QED BY <1>2, <2>1 DEF Looks, Failed
  <1>4. Small(t, s)
    <2> HIDE DEF s
    <2> QED BY <1>2 DEF Small
  <1> QED BY <1>1, <1>2, <1>3, <1>4 DEF Moves, Good

\* Pages reclaimed count for the task that waits for them.
LEMMA ReclaimMoves ==
    ASSUME TypeOK, Looked, NEW t \in Tasks, ReclaimPage(t)
    PROVE  \E s : Moves(t, s) /\ s.pc = "progress" /\ task[t].pc # "take"
  <1>1. PICK n : n = IF task[t].reclaimed < (IF task[t].req.repeat THEN Size[task[t].req.order] ELSE 0)
                     THEN task[t].reclaimed + 1 ELSE task[t].reclaimed
    OBVIOUS
  <1> DEFINE s == [task[t] EXCEPT !.pc = "progress", !.reclaimed = n]
  <1>2. task[t].pc \in {"reclaim", "progress"}
    BY DEF ReclaimPage, At
  <1>3. task' = [task EXCEPT ![t] = s]
    BY <1>1 DEF ReclaimPage, TypeOK
  <1>4. task[t] \in Task /\ n \in Nat
    <2>1. task[t].reclaimed \in Nat
      BY TaskFacts DEF Task
    <2> QED BY <1>1, <2>1, TaskFacts
  <1>5. s \in Task
    BY <1>4 DEF Task
  <1>6. s.pc = "progress" /\ s.seen = task[t].seen /\ s.req = task[t].req
    BY <1>4 DEF Task
  <1>7. Looks(s)
    <2>1. Looks(task[t]) /\ task[t].pc \in Failed
      BY <1>2 DEF Looked, Failed
    <2> HIDE DEF s
    <2> QED BY <1>6, <2>1 DEF Looks
  <1>8. Small(t, s)
    BY <1>6 DEF Small
  <1> HIDE DEF s
  <1> QED BY <1>2, <1>3, <1>5, <1>6, <1>7, <1>8 DEF Moves, Good

\* One task has moved: what is said of each task still holds.
LEMMA MovedTask ==
    ASSUME TypeOK, Looked, SmallNeverFails, memdie \subseteq memdie',
           NEW t \in Tasks, NEW s, Moves(t, s)
    PROVE  task' \in [Tasks -> Task] /\ Looked' /\ SmallNeverFails'
  <1>1. /\ task' = [task EXCEPT ![t] = s] /\ s \in Task /\ Looks(s) /\ Small(t, s)
        /\ task \in [Tasks -> Task]
    BY DEF Moves, Good, TypeOK
  <1>2. task' \in [Tasks -> Task]
    BY <1>1
  <1>3. ASSUME NEW u \in Tasks PROVE task'[u] = IF u = t THEN s ELSE task[u]
    BY <1>1, <1>3
  <1>4. Looked'
    <2> SUFFICES ASSUME NEW u \in Tasks PROVE Looks(task'[u])
      BY DEF Looked, Looks, Failed
    <2> QED BY <1>1, <1>3 DEF Looked
  <1>5. SmallNeverFails'
    <2> SUFFICES ASSUME NEW u \in Tasks,
                        task'[u].pc = "nopage",
                        task'[u].req.order <= PAGE_ALLOC_COSTLY_ORDER,
                        task'[u].req.wait, ~ task'[u].req.noretry
                 PROVE  \/ u \in memdie' \/ task'[u].req.memalloc
                        \/ oom_killer_disabled /\ task'[u].req.fs
                        \/ NUMA /\ task'[u].req.thisnode
      BY DEF SmallNeverFails, At
    <2>1. CASE u = t
      BY <2>1, <1>1, <1>3 DEF Small
    <2>2. CASE u # t
      <3>1. task'[u] = task[u]
        BY <2>2, <1>3
      <3> QED BY <3>1 DEF SmallNeverFails, At
    <2> QED BY <2>1, <2>2
  <1> QED BY <1>2, <1>4, <1>5

\* No task has moved.
LEMMA StillTasks ==
    ASSUME TypeOK, Looked, SmallNeverFails, UNCHANGED task,
           \A t \in memdie \ memdie' : At(t, "idle")
    PROVE  task' \in [Tasks -> Task] /\ Looked' /\ SmallNeverFails'
  <1>1. task' \in [Tasks -> Task] /\ Looked'
    BY DEF TypeOK, Looked, Looks, Failed
  <1>2. ASSUME NEW u \in Tasks, task[u].pc = "nopage", u \in memdie PROVE u \in memdie'
    BY <1>2 DEF At
  <1>3. SmallNeverFails'
    BY <1>2 DEF SmallNeverFails, At
  <1> QED BY <1>1, <1>3

-----------------------------------------------------------------------------
(* The memory of the zones.                                                 *)

Memory ==
    /\ area \in [Zones -> [Order -> Nat]] /\ nr \in [Zones -> Int]
    /\ clean \in [Zones -> Nat] /\ dirty \in [Zones -> Nat]
    /\ held \in [Tasks -> [Zones -> [Order -> Nat]]]
    /\ NrRight

\* No zone has lost a page.
Grown == \A z \in Zones : nr'[z] >= nr[z]

LEMMA MemoryStays ==
    ASSUME Memory, UNCHANGED <<area, nr, clean, dirty, held>>
    PROVE  Memory' /\ Grown
  <1>1. Memory'
    BY DEF Memory, NrRight
  <1>2. Grown
    BY DEF Memory, Grown
  <1> QED BY <1>1, <1>2

LEMMA GiveMemory ==
    ASSUME Memory, NEW z \in Zones, NEW o \in Order, Give(z, o)
    PROVE  area' \in [Zones -> [Order -> Nat]] /\ nr' \in [Zones -> Int] /\ NrRight' /\ Grown
  <1>1. PICK to \in Merges(area[z], o) : area' = [area EXCEPT ![z] = Merged(area[z], o, to)]
    BY DEF Give
  <1>2. /\ area \in [Zones -> [Order -> Nat]] /\ nr \in [Zones -> Int] /\ area[z] \in [Order -> Nat]
        /\ nr' = [nr EXCEPT ![z] = @ + Size[o]] /\ Size[o] \in Nat
    BY OrderFacts DEF Memory, Give
  <1>3. PICK b : b = Merged(area[z], o, to)
    OBVIOUS
  <1>4. b \in [Order -> Nat] /\ PagesIn(b) = PagesIn(area[z]) + Size[o]
    BY <1>2, <1>3, MergePages
  <1>5. area' \in [Zones -> [Order -> Nat]] /\ nr' \in [Zones -> Int]
    BY <1>1, <1>2, <1>3, <1>4
  <1>6. ASSUME NEW y \in Zones PROVE nr'[y] = PagesIn(area'[y]) /\ nr'[y] >= nr[y]
    <2>1. nr[y] = PagesIn(area[y]) /\ nr[y] \in Int
      BY <1>2 DEF Memory, NrRight
    <2>2. CASE y = z
      <3>1. nr'[y] = nr[y] + Size[o] /\ area'[y] = b
        BY <2>2, <1>1, <1>2, <1>3
      <3> QED BY <2>1, <2>2, <3>1, <1>2, <1>4
    <2>3. CASE y # z
      <3>1. nr'[y] = nr[y] /\ area'[y] = area[y]
        BY <2>3, <1>1, <1>2
      <3> QED BY <2>1, <3>1
    <2> QED BY <2>2, <2>3
  <1>7. NrRight'
    BY <1>6 DEF NrRight
  <1> QED BY <1>5, <1>6, <1>7 DEF Grown

LEMMA DropMemory ==
    ASSUME Memory, NEW z \in Zones, Drop(z)
    PROVE  Memory' /\ Grown
  <1>1. area' \in [Zones -> [Order -> Nat]] /\ nr' \in [Zones -> Int] /\ NrRight' /\ Grown
    BY OrderFacts, GiveMemory DEF Drop
  <1>2. clean' \in [Zones -> Nat]
    BY DEF Drop, Memory
  <1> QED BY <1>1, <1>2 DEF Memory, Drop

LEMMA CachedDrop ==
    ASSUME Memory, \E z \in Cached : Drop(z)
    PROVE  Memory' /\ Grown
  <1>1. PICK z \in Zones : Drop(z)
    BY DEF Cached
  <1> QED BY <1>1, DropMemory

LEMMA FreeMemory ==
    ASSUME Memory, NEW t \in Tasks, NEW z \in Zones, NEW o \in Order, free_pages(t, z, o)
    PROVE  Memory' /\ Grown
  <1>1. area' \in [Zones -> [Order -> Nat]] /\ nr' \in [Zones -> Int] /\ NrRight' /\ Grown
    BY GiveMemory DEF free_pages
  <1>2. held \in [Tasks -> [Zones -> [Order -> Nat]]] /\ held[t][z][o] - 1 \in Nat
    BY DEF free_pages, Memory
  <1>3. held' \in [Tasks -> [Zones -> [Order -> Nat]]]
    BY <1>2 DEF free_pages
  <1> QED BY <1>1, <1>3 DEF Memory, free_pages

LEMMA CacheMemory ==
    ASSUME Memory, NEW t \in Tasks, NEW z \in Zones, ToCache(t, z)
    PROVE  Memory' /\ Grown
  <1>1. held \in [Tasks -> [Zones -> [Order -> Nat]]] /\ held[t][z][0] - 1 \in Nat
    <2>1. held \in [Tasks -> [Zones -> [Order -> Nat]]] /\ 0 \in Order
      BY OrderFacts DEF Memory
    <2>2. held[t][z][0] \in Nat /\ held[t][z][0] > 0
      BY <2>1 DEF ToCache
    <2> QED BY <2>1, <2>2
  <1>2. held' \in [Tasks -> [Zones -> [Order -> Nat]]]
    BY <1>1, OrderFacts DEF ToCache
  <1>3. clean' \in [Zones -> Nat] /\ dirty' \in [Zones -> Nat]
    <2>1. clean \in [Zones -> Nat] /\ dirty \in [Zones -> Nat]
      BY DEF Memory
    <2>2. [clean EXCEPT ![z] = @ + 1] \in [Zones -> Nat] /\ [dirty EXCEPT ![z] = @ + 1] \in [Zones -> Nat]
      BY <2>1
    <2> QED BY <2>1, <2>2 DEF ToCache
  <1>4. NrRight' /\ Grown
    BY DEF ToCache, Memory, NrRight, Grown
  <1> QED BY <1>2, <1>3, <1>4 DEF Memory, ToCache

LEMMA SyncMemory ==
    ASSUME Memory, sys_sync
    PROVE  Memory' /\ Grown
  <1>1. clean' \in [Zones -> Nat] /\ dirty' \in [Zones -> Nat]
    BY DEF sys_sync, Memory
  <1>2. NrRight' /\ Grown
    BY DEF sys_sync, Memory, NrRight, Grown
  <1> QED BY <1>1, <1>2 DEF Memory, sys_sync

\* The smallest order that has a block exists.
LEMMA SmallestFits ==
    ASSUME NEW z \in Zones, NEW order \in Order, Enough(z, order) # {}
    PROVE  Smallest(z, order) \in Enough(z, order)
  <1> DEFINE E == Enough(z, order)
             S == {o \in Order : \A p \in 0 .. o : p \notin E}
  <1>1. E \subseteq Order /\ Order = 0 .. MaxOrder /\ MaxOrder \in Nat
    BY OrderFacts DEF Enough
  <1>2. \E o \in E : \A p \in E : o <= p
    <2> SUFFICES ASSUME \A o \in E : \E p \in E : ~ (o <= p) PROVE FALSE
      OBVIOUS
    <2> HIDE DEF E
    <2>1. 0 \in S
      <3>1. \A p \in E : 0 <= p
        BY <1>1
      <3>2. 0 \notin E
        BY <3>1
      <3> QED BY <1>1, <3>2
    <2>2. ASSUME NEW o \in 0 .. MaxOrder - 1, o \in S PROVE o + 1 \in S
      <3>1. o + 1 \in Order
        BY <1>1
      <3>2. \A p \in E : o + 1 <= p
        BY <2>2, <1>1
      <3>3. o + 1 \notin E
        BY <3>2
      <3>4. \A p \in 0 .. o + 1 : p \in 0 .. o \/ p = o + 1
        BY <1>1
      <3> QED BY <3>1, <3>3, <3>4, <2>2
    <2>3. Order \subseteq S
      <3> HIDE DEF S
      <3> QED BY <2>1, <2>2, OrderInduction
    <2>4. \A o \in Order : o \in 0 .. o
      BY <1>1
    <2>5. E = {}
      BY <1>1, <2>3, <2>4
    <2> QED BY <2>5 DEF E
  <1>3. PICK n : n = CHOOSE o \in E : \A p \in E : o <= p
    OBVIOUS
  <1>4. n \in E
    <2> HIDE DEF E
    <2> QED BY <1>2, <1>3
  <1> QED BY <1>3, <1>4 DEF Smallest

LEMMA TakeMemory ==
    ASSUME TypeOK, Memory, Looked, NEW t \in Tasks, buffered_rmqueue(t)
    PROVE  /\ Memory'
           /\ task[t].z \in Zones
           /\ nr' = [nr EXCEPT ![task[t].z] = @ - Size[task[t].req.order]]
  <1>1. PICK z, order, from : z = task[t].z /\ order = task[t].req.order /\ from = Smallest(z, order)
    OBVIOUS
  <1>2. task[t].pc = "take" /\ Looks(task[t])
    BY DEF buffered_rmqueue, At, Looked
  <1>3. z \in Zones /\ order \in Order
    BY <1>1, <1>2, TaskFacts DEF Looks
  <1>4. from \in Enough(z, order)
    BY <1>1, <1>3, SmallestFits DEF buffered_rmqueue
  <1>5. from \in Order /\ order <= from /\ area[z][from] > 0
    BY <1>3, <1>4, OrderFacts DEF Enough
  <1>6. /\ area' = [area EXCEPT ![z] = Split(@, from, order)]
        /\ nr' = [nr EXCEPT ![z] = @ - Size[order]]
        /\ held' = [held EXCEPT ![t][z][order] = @ + 1]
        /\ clean' = clean /\ dirty' = dirty
    BY <1>1 DEF buffered_rmqueue
  <1>7. /\ area \in [Zones -> [Order -> Nat]] /\ nr \in [Zones -> Int] /\ area[z] \in [Order -> Nat]
        /\ Size[order] \in Nat /\ held \in [Tasks -> [Zones -> [Order -> Nat]]]
    BY <1>3, OrderFacts DEF Memory
  <1>8. PICK b : b = Split(area[z], from, order)
    OBVIOUS
  <1>9. b \in [Order -> Nat] /\ PagesIn(b) = PagesIn(area[z]) - Size[order]
    BY <1>3, <1>5, <1>7, <1>8, SplitPages
  <1>10. area' = [area EXCEPT ![z] = b]
    BY <1>3, <1>6, <1>7, <1>8
  <1>11. area' \in [Zones -> [Order -> Nat]] /\ nr' \in [Zones -> Int]
    <2>1. area' \in [Zones -> [Order -> Nat]]
      BY <1>7, <1>9, <1>10
    <2>2. nr[z] - Size[order] \in Int
      BY <1>3, <1>7
    <2> QED BY <1>6, <1>7, <2>1, <2>2
  <1>12. held' \in [Tasks -> [Zones -> [Order -> Nat]]]
    <2>1. held[t][z][order] + 1 \in Nat
      BY <1>3, <1>7
    <2> QED BY <1>3, <1>6, <1>7, <2>1
  <1>13. NrRight'
    <2> SUFFICES ASSUME NEW y \in Zones PROVE nr'[y] = PagesIn(area'[y])
      BY DEF NrRight
    <2>1. nr[y] = PagesIn(area[y]) /\ nr[y] \in Int
      BY <1>7 DEF Memory, NrRight
    <2>2. CASE y = z
      <3>1. nr'[y] = nr[y] - Size[order] /\ area'[y] = b
        BY <2>2, <1>6, <1>7, <1>10
      <3> QED BY <2>1, <2>2, <3>1, <1>7, <1>9
    <2>3. CASE y # z
      <3>1. nr'[y] = nr[y] /\ area'[y] = area[y]
        BY <2>3, <1>6, <1>7, <1>10
      <3> QED BY <2>1, <3>1
    <2> QED BY <2>2, <2>3
  <1>14. Memory'
    BY <1>6, <1>11, <1>12, <1>13 DEF Memory
  <1> QED BY <1>1, <1>3, <1>6, <1>14

-----------------------------------------------------------------------------
(* The reserve.                                                             *)

LEMMA TakersFinite ==
    ASSUME NEW z
    PROVE  /\ IsFiniteSet(Takers(z)) /\ Cardinality(Takers(z)) \in Nat /\ Cardinality(Tasks) \in Nat
           /\ Cardinality(Takers(z)) <= Cardinality(Tasks) /\ Cardinality(Tasks) >= 1
           /\ Takers(z) # {} => Cardinality(Takers(z)) >= 1
  <1>1. IsFiniteSet(Tasks) /\ Tasks # {} /\ Takers(z) \subseteq Tasks
    BY TasksAssumption DEF Takers
  <1>2. /\ IsFiniteSet(Takers(z)) /\ Cardinality(Takers(z)) <= Cardinality(Tasks)
        /\ Cardinality(Takers(z)) \in Nat /\ Cardinality(Tasks) \in Nat
    BY <1>1, FS_Subset, FS_CardinalityType
  <1>3. Cardinality(Tasks) # 0 /\ (Takers(z) # {} => Cardinality(Takers(z)) # 0)
    BY <1>1, <1>2, FS_EmptySet
  <1> QED BY <1>2, <1>3

\* Only pages have come, and the takers are the ones there were.
LEMMA SparedQuiet ==
    ASSUME TypeOK, AllSpared, Memory', Grown, UNCHANGED floor,
           \A u \in Tasks : \/ task'[u] = task[u]
                            \/ ~ At(u, "take") /\ task'[u].pc # "take"
    PROVE  AllSpared'
  <1> SUFFICES ASSUME NEW z \in Zones PROVE Spared(z)'
    BY DEF AllSpared
  <1>1. Takers(z)' = Takers(z) /\ \A u \in Takers(z) : task'[u] = task[u]
    BY DEF Takers, At
  <1>2. nr[z] \in Int /\ nr'[z] \in Int /\ nr'[z] >= nr[z] /\ floor[z] \in Int /\ floor'[z] = floor[z]
    BY DEF TypeOK, Memory, Grown
  <1>3. PICK a : a = floor[z] - (Cardinality(Tasks) - 1 - Cardinality(Takers(z))) * Size[MaxOrder]
    OBVIOUS
  <1>4. a \in Int
    BY <1>2, <1>3, TakersFinite, OrderFacts
  <1>5. ASSUME NEW u \in Takers(z)
        PROVE  floor[z] + Size[task[u].req.order]
               - (Cardinality(Tasks) - Cardinality(Takers(z))) * Size[MaxOrder] \in Int
    <2>1. u \in Tasks
      BY DEF Takers
    <2>2. Size[task[u].req.order] \in Int
      BY <2>1, TaskFacts, OrderFacts
    <2> QED BY <2>2, <1>2, TakersFinite, OrderFacts
  <1>6. Spared(z)
    BY DEF AllSpared
  <1>7. CASE floor[z] = 0
    BY <1>2, <1>7 DEF Spared
  <1>8. CASE nr[z] >= a
    <2>1. nr'[z] >= a
      BY <1>2, <1>4, <1>8
    <2> QED BY <2>1, <1>1, <1>2, <1>3, <1>6 DEF Spared
  <1>9. CASE \E u \in Takers(z) :
               nr[z] >= floor[z] + Size[task[u].req.order]
                        - (Cardinality(Tasks) - Cardinality(Takers(z))) * Size[MaxOrder]
    <2>1. PICK u \in Takers(z) :
               nr[z] >= floor[z] + Size[task[u].req.order]
                        - (Cardinality(Tasks) - Cardinality(Takers(z))) * Size[MaxOrder]
      BY <1>9
    <2>2. PICK b : b = floor[z] + Size[task[u].req.order]
                        - (Cardinality(Tasks) - Cardinality(Takers(z))) * Size[MaxOrder]
      OBVIOUS
    <2>3. b \in Int /\ nr[z] >= b
      BY <2>1, <2>2, <1>5
    <2>4. nr'[z] >= b
      BY <2>3, <1>2
    <2>5. u \in Takers(z)' /\ task'[u] = task[u]
      BY <1>1
    <2> QED BY <2>2, <2>4, <2>5, <1>1, <1>2, <1>6 DEF Spared
  <1> QED BY <1>3, <1>6, <1>7, <1>8, <1>9 DEF Spared

\* One task moves outside the take, and no page goes.
LEMMA SparedMove ==
    ASSUME TypeOK, AllSpared, Memory', Grown, UNCHANGED floor,
           NEW t \in Tasks, NEW s, Moves(t, s), ~ At(t, "take"), s.pc # "take"
    PROVE  AllSpared'
  <1>1. \A u \in Tasks : task'[u] = IF u = t THEN s ELSE task[u]
    BY DEF Moves, TypeOK
  <1> QED BY <1>1, SparedQuiet

LEMMA SparedStill ==
    ASSUME TypeOK, AllSpared, Memory', Grown, UNCHANGED floor, UNCHANGED task
    PROVE  AllSpared'
  BY SparedQuiet

\* What the mark of a taker is.
LEMMA MarkNat ==
    ASSUME TypeOK, NEW t \in Tasks, NEW z \in Zones
    PROVE  Mark(t, z) \in Nat
  <1>1. watermark[z].min \in Nat /\ watermark[z].low \in Nat /\ watermark[z].high \in Nat
    BY ZonesAssumption
  <1>2. \A m \in Nat : m - (m \div 2) \in Nat /\ m - (m \div 4) \in Nat
    OBVIOUS
  <1>3. Lowered(watermark[z].min, alloc_high(t), alloc_harder(t)) \in Nat
    BY <1>1, <1>2 DEF Lowered
  <1> QED BY <1>1, <1>3 DEF Mark

\* A zone passes: the one who passes has found its pages above its mark.
LEMMA SparedPass ==
    ASSUME TypeOK, AllSpared, UNCHANGED nr,
           NEW t \in Tasks, NEW s, Moves(t, s), ~ At(t, "take"), s.pc = "take",
           s.z = task[t].z, s.req = task[t].req, task[t].z \in Zones,
           floor' = [floor EXCEPT ![task[t].z] =
                        IF Mark(t, task[t].z) < @ THEN Mark(t, task[t].z) ELSE @],
           \/ task[t].wm = "none"
           \/ nr[task[t].z] >= Mark(t, task[t].z) + Size[task[t].req.order]
    PROVE  AllSpared' /\ floor' \in [Zones -> Int]
  <1>1. PICK y, m : y = task[t].z /\ m = Mark(t, y)
    OBVIOUS
  <1>2. y \in Zones /\ m \in Nat /\ floor \in [Zones -> Int] /\ nr \in [Zones -> Int]
    BY <1>1, MarkNat DEF TypeOK
  <1>3. floor' = [floor EXCEPT ![y] = IF m < floor[y] THEN m ELSE floor[y]]
    BY <1>1, <1>2
  <1>4. floor' \in [Zones -> Int]
    BY <1>2, <1>3
  <1>5. \A u \in Tasks : task'[u] = IF u = t THEN s ELSE task[u]
    BY DEF Moves, TypeOK
  <1>6. ASSUME NEW z \in Zones PROVE Spared(z)'
    <2>1. Spared(z)
      BY DEF AllSpared
    <2>2. CASE z # y
      <3>1. floor'[z] = floor[z] /\ nr'[z] = nr[z]
        BY <2>2, <1>2, <1>3
      <3>2. Takers(z)' = Takers(z) /\ \A u \in Takers(z) : task'[u] = task[u]
        BY <2>2, <1>1, <1>5 DEF Takers, At
      <3> QED BY <2>1, <3>1, <3>2 DEF Spared
    <2>3. CASE z = y
      <3>1. floor[z] >= 0 /\ floor[z] \in Int /\ nr[z] \in Int /\ nr'[z] = nr[z]
        BY <2>1, <1>2 DEF Spared
      <3>2. floor'[z] >= 0 /\ floor'[z] <= m /\ floor'[z] \in Int
        BY <2>3, <3>1, <1>2, <1>3
      <3>3. CASE task[t].wm = "none"
        <4>1. m = 0
          BY <3>3, <1>1 DEF Mark
        <4>2. floor'[z] = 0
          BY <4>1, <3>2
        <4> QED BY <4>2, <3>2 DEF Spared
      <3>4. CASE nr[y] >= m + Size[task[t].req.order]
        <4>1. t \in Takers(z)' /\ task'[t].req = task[t].req
          BY <2>3, <1>1, <1>5 DEF Takers, At
        <4>2. PICK n : n = Cardinality(Tasks) - Cardinality(Takers(z)')
          OBVIOUS
        <4>3. n \in Nat
          <5>1. Takers(z)' \subseteq Tasks /\ IsFiniteSet(Tasks)
            BY TasksAssumption DEF Takers
          <5>2. /\ Cardinality(Takers(z)') <= Cardinality(Tasks)
                /\ Cardinality(Takers(z)') \in Nat /\ Cardinality(Tasks) \in Nat
            BY <5>1, FS_Subset, FS_CardinalityType
          <5> QED BY <4>2, <5>2
        <4>4. n * Size[MaxOrder] \in Nat
          BY <4>3, OrderFacts
        <4>5. Size[task[t].req.order] \in Nat
          BY TaskFacts, OrderFacts
        <4>6. nr'[z] >= floor'[z] + Size[task[t].req.order] - n * Size[MaxOrder]
          <5>1. PICK x : x = n * Size[MaxOrder]
            OBVIOUS
          <5> QED BY <5>1, <4>4, <4>5, <3>1, <3>2, <3>4, <2>3, <1>2
        <4> QED BY <4>1, <4>2, <4>6, <3>2 DEF Spared
      <3> QED BY <3>3, <3>4, <1>1
    <2> QED BY <2>2, <2>3
  <1> QED BY <1>4, <1>6 DEF AllSpared

\* A taker leaves, with its pages or without.
LEMMA SparedTake ==
    ASSUME TypeOK, AllSpared, UNCHANGED floor,
           NEW t \in Tasks, NEW s, Moves(t, s), At(t, "take"), s.pc # "take",
           task[t].z \in Zones, NEW x \in {0, Size[task[t].req.order]},
           nr' = [nr EXCEPT ![task[t].z] = @ - x]
    PROVE  AllSpared'
  <1>1. PICK y, N, M : y = task[t].z /\ N = Cardinality(Tasks) /\ M = Size[MaxOrder]
    OBVIOUS
  <1>2. /\ y \in Zones /\ floor \in [Zones -> Int] /\ nr \in [Zones -> Int]
        /\ N \in Nat /\ M \in Nat
        /\ \A u \in Tasks : Size[task[u].req.order] \in Nat /\ Size[task[u].req.order] <= M
    <2>1. ASSUME NEW u \in Tasks
          PROVE  Size[task[u].req.order] \in Nat /\ Size[task[u].req.order] <= M
      <3>1. task[u].req.order \in Order /\ task[u].req.order <= MaxOrder
        BY TaskFacts, OrderFacts
      <3> QED BY <3>1, <1>1, SizeGrows, OrderFacts
    <2> QED BY <2>1, <1>1, TakersFinite, OrderFacts DEF TypeOK
  <1>3. \A u \in Tasks : task'[u] = IF u = t THEN s ELSE task[u]
    BY DEF Moves, TypeOK
  <1>4. ASSUME NEW z \in Zones PROVE Spared(z)'
    <2>1. Spared(z) /\ floor'[z] = floor[z]
      BY DEF AllSpared
    <2>2. CASE z # y
      <3>1. nr'[z] = nr[z]
        BY <2>2, <1>1, <1>2
      <3>2. Takers(z)' = Takers(z) /\ \A u \in Takers(z) : task'[u] = task[u]
        BY <2>2, <1>1, <1>3 DEF Takers, At
      <3> QED BY <2>1, <3>1, <3>2 DEF Spared
    <2>3. CASE z = y
      <3>1. t \in Takers(z) /\ Takers(z)' = Takers(z) \ {t}
        BY <2>3, <1>1, <1>3 DEF Takers, At
      <3>2. PICK K : K = Cardinality(Takers(z))
        OBVIOUS
      <3>3. K \in Nat /\ Cardinality(Takers(z)') = K - 1
        BY <3>1, <3>2, TakersFinite, FS_RemoveElement
      <3>4. nr'[z] = nr[z] - x /\ nr[z] \in Int /\ floor[z] \in Int /\ x \in Nat /\ x <= M
        BY <2>3, <1>1, <1>2
      <3>5. PICK p, q, w : /\ p = (N - 1 - K) * M /\ q = (N - K) * M
                           /\ w = (N - (K - 1)) * M
        OBVIOUS
      <3>6. p \in Int /\ q \in Int /\ w \in Int /\ q = p + M /\ w = q + M
            /\ (N - 1 - (K - 1)) * M = q
        BY <3>3, <3>5, <1>2
      <3>7. CASE floor[z] = 0
        BY <3>7, <2>1, <3>4 DEF Spared
      <3>8. CASE nr[z] >= floor[z] - p
        <4>1. nr'[z] >= floor[z] - q
          BY <3>4, <3>6, <3>8, <1>2
        <4> QED BY <4>1, <3>3, <3>6, <2>1, <1>1 DEF Spared
      <3>9. CASE \E u \in Takers(z) : nr[z] >= floor[z] + Size[task[u].req.order] - q
        <4>1. PICK u \in Takers(z) : nr[z] >= floor[z] + Size[task[u].req.order] - q
          BY <3>9
        <4>2. u \in Tasks /\ Size[task[u].req.order] \in Nat
          BY <1>2 DEF Takers
        <4>3. CASE u = t
          <5>1. x <= Size[task[u].req.order]
            BY <4>2, <4>3
          <5>2. nr'[z] >= floor[z] - q
            BY <4>1, <4>2, <5>1, <3>4, <3>6
          <5> QED BY <5>2, <3>3, <3>6, <2>1, <1>1 DEF Spared
        <4>4. CASE u # t
          <5>1. u \in Takers(z)' /\ task'[u] = task[u]
            BY <4>2, <4>4, <3>1, <1>3
          <5>2. nr'[z] >= floor[z] + Size[task[u].req.order] - w
            BY <4>1, <4>2, <3>4, <3>6, <1>2
          <5> QED BY <5>1, <5>2, <3>3, <3>5, <2>1, <1>1 DEF Spared
        <4> QED BY <4>3, <4>4
      <3> QED BY <3>2, <3>5, <3>7, <3>8, <3>9, <2>1, <1>1 DEF Spared
    <2> QED BY <2>2, <2>3
  <1> QED BY <1>4 DEF AllSpared

\* The invariant bounds the damage.
LEMMA SparedReserve ==
    ASSUME TypeOK, NrRight, AllSpared
    PROVE  ReserveKept
  <1> SUFFICES ASSUME NEW z \in Zones
               PROVE  nr[z] >= floor[z] - (Cardinality(Tasks) - 1) * Size[MaxOrder]
    BY DEF ReserveKept
  <1>1. PICK N, K, M : N = Cardinality(Tasks) /\ K = Cardinality(Takers(z)) /\ M = Size[MaxOrder]
    OBVIOUS
  <1>2. N \in Nat /\ K \in Nat /\ M \in Nat /\ N >= 1 /\ (Takers(z) # {} => K >= 1)
    BY <1>1, TakersFinite, OrderFacts
  <1>3. nr[z] \in Nat /\ floor[z] \in Int
    <2>1. area[z] \in [Order -> Nat] /\ nr[z] = PagesIn(area[z])
      BY DEF TypeOK, NrRight
    <2> QED BY <2>1, PagesInBounds DEF TypeOK
  <1>4. PICK p, q, w : p = (N - 1) * M /\ q = (N - 1 - K) * M /\ w = (N - K) * M
    OBVIOUS
  <1>5. p \in Nat /\ q \in Int /\ w \in Int /\ q <= p /\ (K >= 1 => w <= p)
    <2>1. ASSUME NEW a \in Int, NEW b \in Int, a <= b PROVE a * M <= b * M
      BY <2>1, <1>2
    <2>2. N - 1 - K <= N - 1 /\ (K >= 1 => N - K <= N - 1)
      BY <1>2
    <2>3. q <= p /\ (K >= 1 => w <= p)
      BY <2>1, <2>2, <1>2, <1>4
    <2> QED BY <1>2, <1>4, <2>3
  <1>6. Spared(z)
    BY DEF AllSpared
  <1>7. CASE floor[z] = 0
    BY <1>1, <1>3, <1>4, <1>5, <1>7
  <1>8. CASE nr[z] >= floor[z] - q
    BY <1>1, <1>3, <1>4, <1>5, <1>8
  <1>9. CASE \E u \in Takers(z) : nr[z] >= floor[z] + Size[task[u].req.order] - w
    <2>1. PICK u \in Takers(z) : nr[z] >= floor[z] + Size[task[u].req.order] - w
      BY <1>9
    <2>2. Size[task[u].req.order] \in Nat /\ K >= 1
      BY <1>2, TaskFacts, OrderFacts DEF Takers
    <2> QED BY <2>1, <2>2, <1>1, <1>3, <1>4, <1>5
  <1> QED BY <1>1, <1>4, <1>6, <1>7, <1>8, <1>9 DEF Spared

-----------------------------------------------------------------------------
(* Every step keeps the invariant.                                          *)

Rest ==
    /\ fullzones \subseteq Zones /\ oom \in Tasks \cup {NoTask} /\ memdie \subseteq Tasks
    /\ done \in Nat /\ kc \in {"wait", "sync", "drop"}
    /\ asked \in Nat /\ stale \in BOOLEAN /\ floor \in [Zones -> Int]

LEMMA IInvParts ==
    IInv <=> /\ Memory /\ Rest /\ task \in [Tasks -> Task]
             /\ Looked /\ SmallNeverFails /\ AllSpared
  BY DEF IInv, TypeOK, Memory, Rest

LEMMA IInvPartsNext ==
    ASSUME Memory', Rest', task' \in [Tasks -> Task], Looked', SmallNeverFails', AllSpared'
    PROVE  IInv'
  BY DEF IInv, TypeOK, Memory, Rest

\* A task moves, outside the take, and no page goes.
LEMMA MoveKeeps ==
    ASSUME IInv, Memory', Grown, Rest', UNCHANGED floor, memdie \subseteq memdie',
           NEW t \in Tasks, ~ At(t, "take"), \E s : Moves(t, s) /\ s.pc # "take"
    PROVE  IInv'
  <1>1. PICK s : Moves(t, s) /\ s.pc # "take"
    OBVIOUS
  <1>2. TypeOK /\ Looked /\ SmallNeverFails /\ AllSpared
    BY DEF IInv
  <1>3. task' \in [Tasks -> Task] /\ Looked' /\ SmallNeverFails'
    BY <1>1, <1>2, MovedTask
  <1>4. AllSpared'
    BY <1>1, <1>2, SparedMove
  <1> QED BY <1>3, <1>4, IInvPartsNext

\* No task moves, and no page goes.
LEMMA StillKeeps ==
    ASSUME IInv, Memory', Grown, Rest', UNCHANGED <<task, floor>>,
           \A t \in memdie \ memdie' : At(t, "idle")
    PROVE  IInv'
  <1>1. TypeOK /\ Looked /\ SmallNeverFails /\ AllSpared /\ UNCHANGED task /\ UNCHANGED floor
    BY DEF IInv
  <1>2. task' \in [Tasks -> Task] /\ Looked' /\ SmallNeverFails'
    BY <1>1, StillTasks
  <1>3. AllSpared'
    BY <1>1, SparedStill
  <1> QED BY <1>2, <1>3, IInvPartsNext

\* Zones are marked full, and that is all that changes beside the task.
LEMMA OnwardRest ==
    ASSUME IInv, NEW t \in Tasks, task[t].z > 0, NEW full \in SUBSET Zones, Onward(t, full),
           UNCHANGED <<oom, memdie, rest, floor>>
    PROVE  Rest'
  <1>1. Rest
    BY IInvParts
  <1>2. fullzones' \subseteq Zones
    BY DEF Onward
  <1> QED BY <1>1, <1>2 DEF Rest, rest

LEMMA FullZones ==
    ASSUME IInv, NEW t \in Tasks, task[t].z > 0
    PROVE  /\ fullzones \in SUBSET Zones
           /\ (IF NUMA THEN fullzones \cup {task[t].z} ELSE fullzones) \in SUBSET Zones
           /\ task[t].z \in Zones
  <1>1. TypeOK /\ fullzones \subseteq Zones
    BY DEF IInv, TypeOK
  <1>2. task[t].z \in Zones
    BY <1>1, TaskFacts
  <1> QED BY <1>1, <1>2

LEMMA SkipKeeps ==
    ASSUME IInv, NEW t \in Tasks, SkipZone(t)
    PROVE  IInv'
  <1>1. TypeOK /\ Looked /\ Memory /\ Rest
    BY IInvParts DEF IInv
  <1>2. \E s : Moves(t, s) /\ s.pc # "take"
    BY <1>1, SkipMoves
  <1>3. Memory' /\ Grown
    BY <1>1, MemoryStays DEF SkipZone, mem
  <1>4. Rest' /\ UNCHANGED floor /\ memdie \subseteq memdie' /\ ~ At(t, "take")
    BY <1>1 DEF SkipZone, Rest, rest, At
  <1> QED BY <1>2, <1>3, <1>4, MoveKeeps

LEMMA EndKeeps ==
    ASSUME IInv, NEW t \in Tasks, EndOfScan(t)
    PROVE  IInv'
  <1>1. TypeOK /\ Looked /\ Memory /\ Rest
    BY IInvParts DEF IInv
  <1>2. \E s : Moves(t, s) /\ s.pc # "take"
    BY <1>1, EndMoves
  <1>3. Memory' /\ Grown
    BY <1>1, MemoryStays DEF EndOfScan, mem
  <1>4. Rest' /\ UNCHANGED floor /\ memdie \subseteq memdie' /\ ~ At(t, "take")
    BY <1>1 DEF EndOfScan, Rest, rest, At
  <1> QED BY <1>2, <1>3, <1>4, MoveKeeps

\* The zone has passed.
LEMMA PassKeeps ==
    ASSUME IInv, NEW t \in Tasks, task[t].pc \in {"scan", "recheck"}, task[t].z > 0,
           task[t].wm = "none" \/ WatermarkOk(t, task[t].z),
           TryThisZone(t), UNCHANGED <<mem, oom, memdie, rest>>
    PROVE  IInv'
  <1>1. TypeOK /\ Looked /\ SmallNeverFails /\ AllSpared /\ Memory /\ Rest /\ task[t].z \in Zones
    BY IInvParts, FullZones DEF IInv
  <1>2. PICK s : /\ Moves(t, s) /\ s.pc = "take" /\ s.z = task[t].z /\ s.req = task[t].req
    BY <1>1, ZoneMoves DEF TryThisZone
  <1>3. Memory' /\ nr' = nr
    BY <1>1, MemoryStays DEF mem
  <1>4. \/ task[t].wm = "none"
        \/ nr[task[t].z] >= Mark(t, task[t].z) + Size[task[t].req.order]
    <2> SUFFICES ASSUME WatermarkOk(t, task[t].z)
                 PROVE  nr[task[t].z] >= Mark(t, task[t].z) + Size[task[t].req.order]
      OBVIOUS
    <2>1. /\ Mark(t, task[t].z) \in Nat /\ task[t].req.order \in Order /\ task[t].req.zone \in Zones
          /\ nr \in [Zones -> Int] /\ area \in [Zones -> [Order -> Nat]]
      BY <1>1, MarkNat, TaskFacts DEF Memory
    <2> QED BY <1>1, <2>1, WatermarkPasses DEF WatermarkOk
  <1>5. floor' = [floor EXCEPT ![task[t].z] =
                    IF Mark(t, task[t].z) < @ THEN Mark(t, task[t].z) ELSE @]
    BY DEF TryThisZone
  <1>6. AllSpared' /\ floor' \in [Zones -> Int]
    <2>1. ~ At(t, "take")
      BY DEF At
    <2> QED BY <1>1, <1>2, <1>3, <1>4, <1>5, <2>1, SparedPass
  <1>7. task' \in [Tasks -> Task] /\ Looked' /\ SmallNeverFails'
    BY <1>1, <1>2, MovedTask
  <1>8. Rest'
    BY <1>1, <1>6 DEF Rest, rest, TryThisZone
  <1> QED BY <1>3, <1>6, <1>7, <1>8, IInvPartsNext

LEMMA ScanKeeps ==
    ASSUME IInv, NEW t \in Tasks, ScanZone(t)
    PROVE  IInv'
  BY PassKeeps DEF ScanZone, Closely, At

\* The next zone is tried, from anywhere but the take.
LEMMA OnwardKeeps ==
    ASSUME IInv, NEW t \in Tasks, task[t].pc \in {"scan", "recheck"}, task[t].z > 0,
           NEW full \in SUBSET Zones, Onward(t, full), UNCHANGED <<mem, oom, memdie, rest, floor>>
    PROVE  IInv'
  <1>1. TypeOK /\ Looked /\ Memory
    BY IInvParts DEF IInv
  <1>2. \E s : Moves(t, s) /\ s.pc # "take"
    BY <1>1, OnwardMoves
  <1>3. Memory' /\ Grown
    BY <1>1, MemoryStays DEF mem
  <1>4. Rest'
    BY OnwardRest
  <1>5. ~ At(t, "take")
    BY DEF At
  <1> QED BY <1>2, <1>3, <1>4, <1>5, MoveKeeps

LEMMA ReclaimZoneKeeps ==
    ASSUME IInv, NEW t \in Tasks, zone_reclaim(t)
    PROVE  IInv'
  <1>1. TypeOK /\ Looked /\ Memory /\ Rest
    BY IInvParts DEF IInv
  <1>2. task[t].pc = "scan" /\ task[t].z > 0 /\ UNCHANGED <<oom, memdie, rest, floor>>
    BY DEF zone_reclaim, Closely, At
  <1>3. CASE ZoneFull(t) /\ UNCHANGED mem
    BY <1>2, <1>3, FullZones, OnwardKeeps DEF ZoneFull
  <1>4. CASE Onward(t, fullzones) /\ UNCHANGED mem
    BY <1>2, <1>4, FullZones, OnwardKeeps
  <1>5. CASE Drop(task[t].z) /\ Goto(t, "recheck") /\ UNCHANGED fullzones
    <2>1. \E s : Moves(t, s) /\ s.pc # "take"
      BY <1>1, <1>2, <1>5, ZoneMoves
    <2>2. Memory' /\ Grown
      BY <1>1, <1>2, <1>5, FullZones, DropMemory
    <2>3. Rest'
      BY <1>1, <1>2, <1>5 DEF Rest, rest
    <2>4. ~ At(t, "take")
      BY <1>2 DEF At
    <2> QED BY <1>2, <2>1, <2>2, <2>3, <2>4, MoveKeeps
  <1> QED BY <1>3, <1>4, <1>5 DEF zone_reclaim

LEMMA RecheckKeeps ==
    ASSUME IInv, NEW t \in Tasks, Recheck(t)
    PROVE  IInv'
  <1>1. task[t].pc = "recheck" /\ Looks(task[t])
    BY DEF IInv, Looked, Recheck, At
  <1>2. task[t].z > 0
    BY <1>1 DEF Looks
  <1>3. CASE WatermarkOk(t, task[t].z)
    BY <1>1, <1>2, <1>3, PassKeeps DEF Recheck
  <1>4. CASE ~ WatermarkOk(t, task[t].z)
    BY <1>1, <1>2, <1>4, FullZones, OnwardKeeps DEF Recheck, ZoneFull
  <1> QED BY <1>3, <1>4

LEMMA TakeKeeps ==
    ASSUME IInv, NEW t \in Tasks, buffered_rmqueue(t)
    PROVE  IInv'
  <1>1. TypeOK /\ Looked /\ SmallNeverFails /\ AllSpared /\ Memory /\ Rest
    BY IInvParts DEF IInv
  <1>2. /\ Memory' /\ task[t].z \in Zones
        /\ nr' = [nr EXCEPT ![task[t].z] = @ - Size[task[t].req.order]]
    BY <1>1, TakeMemory
  <1>3. Moves(t, Idle) /\ Idle.pc # "take" /\ At(t, "take")
    BY IdleGood DEF Moves, buffered_rmqueue, Idle
  <1>4. task' \in [Tasks -> Task] /\ Looked' /\ SmallNeverFails'
    BY <1>1, <1>3, MovedTask DEF buffered_rmqueue
  <1>5. AllSpared'
    BY <1>1, <1>2, <1>3, SparedTake DEF buffered_rmqueue
  <1>6. Rest'
    BY <1>1 DEF Rest, rest, buffered_rmqueue, Unlock
  <1> QED BY <1>2, <1>4, <1>5, <1>6, IInvPartsNext

LEMMA RmqueueFailsKeeps ==
    ASSUME IInv, NEW t \in Tasks, RmqueueFails(t)
    PROVE  IInv'
  <1>1. TypeOK /\ Looked /\ SmallNeverFails /\ AllSpared /\ Memory /\ Rest
    BY IInvParts DEF IInv
  <1>2. At(t, "take") /\ task[t].pc = "take" /\ Looks(task[t]) /\ ZoneFull(t)
    BY <1>1 DEF RmqueueFails, At, Looked
  <1>3. task[t].z > 0 /\ task[t].z \in Zones
    BY <1>2, FullZones DEF Looks
  <1>4. PICK s : Moves(t, s) /\ s.pc # "take"
    BY <1>1, <1>2, <1>3, OnwardMoves DEF ZoneFull
  <1>5. task' \in [Tasks -> Task] /\ Looked' /\ SmallNeverFails'
    BY <1>1, <1>4, MovedTask DEF RmqueueFails
  <1>6. nr' = [nr EXCEPT ![task[t].z] = @ - 0]
    BY <1>1, <1>3 DEF RmqueueFails, mem, Memory
  <1>7. AllSpared'
    BY <1>1, <1>2, <1>3, <1>4, <1>6, SparedTake DEF RmqueueFails
  <1>8. Rest'
    BY <1>3, FullZones, OnwardRest DEF ZoneFull, RmqueueFails
  <1>9. Memory'
    BY <1>1, MemoryStays DEF RmqueueFails, mem
  <1> QED BY <1>5, <1>7, <1>8, <1>9, IInvPartsNext

\* A step of the slow path between two scans: only the task moves, and the OOM
\* lock and the victims may change.
LEMMA SlowKeeps ==
    ASSUME IInv, NEW t \in Tasks, task[t].pc \in Failed, \E s : Moves(t, s) /\ s.pc # "take",
           UNCHANGED <<mem, fullzones, rest, floor>>, oom' \in Tasks \cup {NoTask},
           memdie \subseteq memdie', memdie' \subseteq Tasks
    PROVE  IInv'
  <1>1. Memory /\ Rest
    BY IInvParts
  <1>2. Memory' /\ Grown
    BY <1>1, MemoryStays DEF mem
  <1>3. Rest'
    BY <1>1 DEF Rest, rest
  <1>4. ~ At(t, "take")
    BY DEF At, Failed
  <1> QED BY <1>2, <1>3, <1>4, MoveKeeps

\* The slow path goes on at another step; NULL is for those it may be given to.
LEMMA StepMoves ==
    ASSUME IInv, NEW t \in Tasks, task[t].pc \in Failed, NEW step \in Failed, Goto(t, step),
           step = "nopage" => Small(t, [task[t] EXCEPT !.pc = "nopage"])
    PROVE  \E s : Moves(t, s) /\ s.pc # "take"
  <1>1. TypeOK /\ Looked
    BY DEF IInv
  <1>2. Small(t, [task[t] EXCEPT !.pc = step])
    <2>1. [task[t] EXCEPT !.pc = step].pc = step
      BY <1>1, TaskFacts DEF Task
    <2> QED BY <2>1 DEF Small
  <1>3. step # "take"
    BY DEF Failed
  <1> QED BY <1>1, <1>2, <1>3, GotoMoves

\* What a task has to be for NULL.
LEMMA MayFail ==
    ASSUME IInv, NEW t \in Tasks,
           \/ ~ (task[t].req.order <= PAGE_ALLOC_COSTLY_ORDER)
           \/ ~ task[t].req.wait \/ task[t].req.noretry \/ t \in memdie \/ task[t].req.memalloc
           \/ oom_killer_disabled /\ task[t].req.fs
           \/ NUMA /\ task[t].req.thisnode
    PROVE  Small(t, [task[t] EXCEPT !.pc = "nopage"])
  <1>1. [task[t] EXCEPT !.pc = "nopage"].req = task[t].req
    BY TaskFacts DEF Task, IInv
  <1> QED BY <1>1 DEF Small

LEMMA RescanMoves ==
    ASSUME IInv, NEW t \in Tasks, NEW wm \in Marks, NEW nowm \in BOOLEAN,
           NEW back \in {"restart", "rebalance", "prio", "retry", "outofmem"},
           Scan(t, wm, nowm, back, task[t].reclaimed)
    PROVE  \E s : Moves(t, s) /\ s.pc # "take"
  <1>1. TypeOK /\ task[t].reclaimed \in Nat
    BY TaskFacts DEF IInv, Task
  <1> QED BY <1>1, ScanMoves

LEMMA BoolFacts ==
    ASSUME IInv, NEW t \in Tasks
    PROVE  /\ task[t].nowm \in BOOLEAN
           /\ task[t].req.nomemalloc \in BOOLEAN /\ task[t].req.memalloc \in BOOLEAN
           /\ oom \in Tasks \cup {NoTask} /\ memdie \subseteq Tasks
  <1>1. task[t] \in Task /\ task[t].req \in Request
    BY TaskFacts DEF IInv
  <1> QED BY <1>1 DEF Task, Request, IInv, TypeOK

LEMMA RestartKeeps ==
    ASSUME IInv, NEW t \in Tasks, Restart(t)
    PROVE  IInv'
  <1>1. task[t].pc = "restart" /\ task[t].pc \in Failed /\ "nopage" \in Failed
    BY DEF Restart, At, Failed
  <1>2. \E s : Moves(t, s) /\ s.pc # "take"
    <2>1. CASE NUMA /\ task[t].req.thisnode
      BY <1>1, <2>1, MayFail, StepMoves DEF Restart
    <2>2. CASE ~ (NUMA /\ task[t].req.thisnode)
      <3>1. PICK b \in BOOLEAN : b = (~ task[t].req.nomemalloc /\ (task[t].req.memalloc \/ t \in memdie))
        OBVIOUS
      <3>2. Scan(t, "min", b, "rebalance", task[t].reclaimed)
        BY <2>2, <3>1 DEF Restart
      <3> QED BY <3>1, <3>2, RescanMoves DEF Marks
    <2> QED BY <2>1, <2>2
  <1> QED BY <1>1, <1>2, BoolFacts, SlowKeeps DEF Restart

LEMMA RebalanceKeeps ==
    ASSUME IInv, NEW t \in Tasks, Rebalance(t)
    PROVE  IInv'
  <1>1. task[t].pc \in Failed /\ "desperate" \in Failed
    BY DEF Rebalance, At, Failed
  <1>2. \E s : Moves(t, s) /\ s.pc # "take"
    <2>1. CASE task[t].nowm
      BY <2>1, RescanMoves DEF Rebalance, Marks
    <2>2. CASE ~ task[t].nowm
      BY <1>1, <2>2, StepMoves DEF Rebalance
    <2> QED BY <2>1, <2>2
  <1> QED BY <1>1, <1>2, BoolFacts, SlowKeeps DEF Rebalance

LEMMA PriorityKeeps ==
    ASSUME IInv, NEW t \in Tasks, __alloc_pages_high_priority(t)
    PROVE  IInv'
  <1>1. task[t].pc \in Failed /\ "desperate" \in Failed
    BY DEF __alloc_pages_high_priority, At, Failed
  <1>2. \E s : Moves(t, s) /\ s.pc # "take"
    <2>1. CASE task[t].req.nofail
      BY <2>1, RescanMoves DEF __alloc_pages_high_priority, Marks
    <2>2. CASE ~ task[t].req.nofail
      BY <1>1, <2>2, StepMoves DEF __alloc_pages_high_priority
    <2> QED BY <2>1, <2>2
  <1> QED BY <1>1, <1>2, BoolFacts, SlowKeeps DEF __alloc_pages_high_priority

LEMMA DesperateKeeps ==
    ASSUME IInv, NEW t \in Tasks, Desperate(t)
    PROVE  IInv'
  <1>1. task[t].pc \in Failed /\ "reclaim" \in Failed /\ "nopage" \in Failed
    BY DEF Desperate, At, Failed
  <1> DEFINE out == \/ ~ task[t].req.wait \/ task[t].req.memalloc
                    \/ t \in memdie /\ ~ task[t].req.nofail
  <1>2. \E s : Moves(t, s) /\ s.pc # "take"
    <2>1. CASE out
      BY <1>1, <2>1, MayFail, StepMoves DEF Desperate
    <2>2. CASE ~ out
      BY <1>1, <2>2, StepMoves DEF Desperate
    <2> QED BY <2>1, <2>2
  <1> QED BY <1>1, <1>2, BoolFacts, SlowKeeps DEF Desperate

LEMMA ReclaimKeeps ==
    ASSUME IInv, NEW t \in Tasks, ReclaimPage(t)
    PROVE  IInv'
  <1>1. TypeOK /\ Looked /\ Memory /\ Rest
    BY IInvParts DEF IInv
  <1>2. (\E s : Moves(t, s) /\ s.pc # "take") /\ ~ At(t, "take")
    BY <1>1, ReclaimMoves DEF At
  <1>3. Memory' /\ Grown
    BY <1>1, CachedDrop DEF ReclaimPage
  <1>4. Rest' /\ UNCHANGED floor /\ memdie \subseteq memdie'
    BY <1>1 DEF ReclaimPage, Rest, rest
  <1> QED BY <1>2, <1>3, <1>4, MoveKeeps

LEMMA ReclaimEndsKeeps ==
    ASSUME IInv, NEW t \in Tasks, ReclaimEnds(t)
    PROVE  IInv'
  <1>1. task[t].pc \in Failed
    BY DEF ReclaimEnds, At, Failed
  <1>2. \E s : Moves(t, s) /\ s.pc # "take"
    <2>1. PICK wm \in Marks : wm = IF task[t].nowm THEN "none" ELSE "min"
      BY DEF Marks
    <2>2. Scan(t, wm, task[t].nowm, "retry", task[t].reclaimed)
      BY <2>1 DEF ReclaimEnds
    <2> QED BY <2>2, BoolFacts, RescanMoves
  <1> QED BY <1>1, <1>2, BoolFacts, SlowKeeps DEF ReclaimEnds

LEMMA NoProgressKeeps ==
    ASSUME IInv, NEW t \in Tasks, NoProgress(t)
    PROVE  IInv'
  <1>1. task[t].pc \in Failed /\ "noprogress" \in Failed
    BY DEF NoProgress, At, Failed
  <1>2. \E s : Moves(t, s) /\ s.pc # "take"
    BY <1>1, StepMoves DEF NoProgress
  <1> QED BY <1>1, <1>2, BoolFacts, SlowKeeps DEF NoProgress

LEMMA MayOomKeeps ==
    ASSUME IInv, NEW t \in Tasks, __alloc_pages_may_oom(t)
    PROVE  IInv'
  <1>1. task[t].pc \in Failed /\ {"retry", "restart", "nopage"} \subseteq Failed
    BY DEF __alloc_pages_may_oom, At, Failed
  <1> DEFINE r == task[t].req
  <1>2. (\E s : Moves(t, s) /\ s.pc # "take") /\ oom' \in Tasks \cup {NoTask}
    <2>1. CASE ~ r.fs \/ r.noretry
      BY <1>1, <2>1, BoolFacts, StepMoves DEF __alloc_pages_may_oom
    <2>2. CASE r.fs /\ ~ r.noretry /\ oom_killer_disabled
      BY <1>1, <2>2, BoolFacts, MayFail, StepMoves DEF __alloc_pages_may_oom
    <2>3. CASE r.fs /\ ~ r.noretry /\ ~ oom_killer_disabled /\ oom # NoTask /\ OomMayHelp(r)
      BY <1>1, <2>3, BoolFacts, StepMoves DEF __alloc_pages_may_oom
    <2>4. CASE r.fs /\ ~ r.noretry /\ ~ oom_killer_disabled /\ oom # NoTask /\ ~ OomMayHelp(r)
      <3>1. ~ (r.order <= PAGE_ALLOC_COSTLY_ORDER)
        BY <2>4 DEF OomMayHelp
      <3>2. Goto(t, "nopage") /\ UNCHANGED oom
        BY <2>4 DEF __alloc_pages_may_oom
      <3> QED BY <1>1, <3>1, <3>2, BoolFacts, MayFail, StepMoves
    <2>5. CASE r.fs /\ ~ r.noretry /\ ~ oom_killer_disabled /\ oom = NoTask
      <3>1. oom' = t /\ Scan(t, "high", task[t].nowm, "outofmem", task[t].reclaimed)
        BY <2>5 DEF __alloc_pages_may_oom
      <3> QED BY <3>1, BoolFacts, RescanMoves DEF Marks
    <2> QED BY <2>1, <2>2, <2>3, <2>4, <2>5
  <1> QED BY <1>1, <1>2, BoolFacts, SlowKeeps DEF __alloc_pages_may_oom

LEMMA OutOfMemoryKeeps ==
    ASSUME IInv, NEW t \in Tasks, out_of_memory(t)
    PROVE  IInv'
  <1>1. task[t].pc \in Failed /\ {"restart", "nopage"} \subseteq Failed
    BY DEF out_of_memory, At, Failed
  <1>2. (\E s : Moves(t, s) /\ s.pc # "take") /\ memdie \subseteq memdie' /\ memdie' \subseteq Tasks
    <2>1. CASE OomMayHelp(task[t].req)
      <3>1. Goto(t, "restart")
        BY <2>1 DEF out_of_memory
      <3>2. memdie \subseteq memdie' /\ memdie' \subseteq Tasks
        <4>1. Victims(t) \subseteq Tasks
          BY DEF Victims
        <4> QED BY <2>1, <4>1, BoolFacts DEF out_of_memory
      <3> QED BY <1>1, <3>1, <3>2, StepMoves
    <2>2. CASE ~ OomMayHelp(task[t].req)
      <3>1. Goto(t, "nopage") /\ UNCHANGED memdie
        BY <2>2 DEF out_of_memory
      <3>2. ~ (task[t].req.order <= PAGE_ALLOC_COSTLY_ORDER)
        BY <2>2 DEF OomMayHelp
      <3> QED BY <1>1, <3>1, <3>2, BoolFacts, MayFail, StepMoves
    <2> QED BY <2>1, <2>2
  <1> QED BY <1>1, <1>2, SlowKeeps DEF out_of_memory

LEMMA RetryKeeps ==
    ASSUME IInv, NEW t \in Tasks, Retry(t)
    PROVE  IInv'
  <1>1. task[t].pc \in Failed /\ {"rebalance", "nopage"} \subseteq Failed
    BY DEF Retry, At, Failed
  <1>2. \E s : Moves(t, s) /\ s.pc # "take"
    <2>1. CASE should_alloc_retry(task[t].req, task[t].reclaimed)
      BY <1>1, <2>1, StepMoves DEF Retry
    <2>2. CASE ~ should_alloc_retry(task[t].req, task[t].reclaimed)
      <3>1. task[t].req.noretry \/ ~ (task[t].req.order <= PAGE_ALLOC_COSTLY_ORDER)
        BY <2>2 DEF should_alloc_retry
      <3> QED BY <1>1, <2>2, <3>1, MayFail, StepMoves DEF Retry
    <2> QED BY <2>1, <2>2
  <1> QED BY <1>1, <1>2, BoolFacts, SlowKeeps DEF Retry

LEMMA NoPageKeeps ==
    ASSUME IInv, NEW t \in Tasks, NoPage(t)
    PROVE  IInv'
  <1>1. Memory /\ Rest
    BY IInvParts
  <1>2. Moves(t, Idle) /\ Idle.pc # "take" /\ ~ At(t, "take")
    BY IdleGood DEF Moves, NoPage, Idle, At
  <1>3. Memory' /\ Grown
    BY <1>1, MemoryStays DEF NoPage, mem
  <1>4. Rest' /\ UNCHANGED floor /\ memdie \subseteq memdie'
    BY <1>1 DEF NoPage, Rest, kcached_run
  <1> QED BY <1>2, <1>3, <1>4, MoveKeeps

LEMMA AllocKeeps ==
    ASSUME IInv, NEW t \in Tasks, NEW r \in Requests, __alloc_pages_nodemask(t, r)
    PROVE  IInv'
  <1>1. Memory /\ Rest
    BY IInvParts
  <1>2. Memory' /\ Grown
    BY <1>1, MemoryStays DEF __alloc_pages_nodemask, mem
  <1>3. Rest' /\ UNCHANGED floor /\ memdie' = memdie /\ ~ At(t, "take")
    BY <1>1 DEF __alloc_pages_nodemask, Rest, At
  <1>4. CASE task' = [task EXCEPT ![t] = Scanning(t, r, "low", FALSE, "restart", 0)]
    <2> DEFINE s == Scanning(t, r, "low", FALSE, "restart", 0)
    <2>1. Good(t, s)
      BY RequestsAssumption, ScanningGood DEF Marks
    <2>2. s.pc # "take"
      BY DEF Scanning
    <2> HIDE DEF s
    <2>3. Moves(t, s)
      BY <1>4, <2>1 DEF Moves, s
    <2> QED BY <1>2, <1>3, <2>2, <2>3, MoveKeeps
  <1>5. CASE UNCHANGED task
    BY <1>2, <1>3, <1>5, StillKeeps
  <1> QED BY <1>4, <1>5 DEF __alloc_pages_nodemask

LEMMA FreeKeeps ==
    ASSUME IInv, NEW t \in Tasks, NEW z \in Zones, NEW o \in Order, free_pages(t, z, o)
    PROVE  IInv'
  <1>1. Memory /\ Rest
    BY IInvParts
  <1>2. Memory' /\ Grown
    BY <1>1, FreeMemory
  <1>3. Rest' /\ UNCHANGED <<task, floor>> /\ memdie' = memdie
    BY <1>1 DEF free_pages, Rest, rest
  <1> QED BY <1>2, <1>3, StillKeeps

LEMMA ToCacheKeeps ==
    ASSUME IInv, NEW t \in Tasks, NEW z \in Zones, ToCache(t, z)
    PROVE  IInv'
  <1>1. Memory /\ Rest
    BY IInvParts
  <1>2. Memory' /\ Grown
    BY <1>1, CacheMemory
  <1>3. Rest' /\ UNCHANGED <<task, floor>> /\ memdie' = memdie
    BY <1>1 DEF ToCache, Rest, rest
  <1> QED BY <1>2, <1>3, StillKeeps

LEMMA VictimKeeps ==
    ASSUME IInv, NEW t \in Tasks, VictimExits(t)
    PROVE  IInv'
  <1>1. Memory /\ Rest
    BY IInvParts
  <1>2. Memory' /\ Grown
    BY <1>1, MemoryStays DEF VictimExits, mem
  <1>3. Rest' /\ UNCHANGED <<task, floor>>
    BY <1>1 DEF VictimExits, Rest, rest
  <1>4. \A u \in memdie \ memdie' : At(u, "idle")
    BY DEF VictimExits
  <1> QED BY <1>2, <1>3, <1>4, StillKeeps

LEMMA KcachedKeeps ==
    ASSUME IInv, kcached_mng
    PROVE  IInv'
  <1>1. Memory /\ Rest
    BY IInvParts
  <1>2. CASE KcachedWakes
    <2>1. Memory' /\ Grown
      BY <1>1, <1>2, MemoryStays DEF KcachedWakes, mem
    <2>2. Rest' /\ UNCHANGED <<task, floor>> /\ memdie' = memdie
      <3>1. done' \in Nat
        BY <1>1, <1>2 DEF KcachedWakes, Rest
      <3> QED BY <1>1, <1>2, <3>1 DEF KcachedWakes, Rest
    <2> QED BY <2>1, <2>2, StillKeeps
  <1>3. CASE sys_sync
    <2>1. Memory' /\ Grown
      BY <1>1, <1>3, SyncMemory
    <2>2. Rest' /\ UNCHANGED <<task, floor>> /\ memdie' = memdie
      BY <1>1, <1>3 DEF sys_sync, Rest
    <2> QED BY <2>1, <2>2, StillKeeps
  <1>4. CASE drop_pagecache
    <2>1. Memory' /\ Grown
      <3>1. CASE Cached # {}
        BY <1>1, <1>4, <3>1, CachedDrop DEF drop_pagecache
      <3>2. CASE Cached = {}
        BY <1>1, <1>4, <3>2, MemoryStays DEF drop_pagecache, mem
      <3> QED BY <3>1, <3>2
    <2>2. Rest' /\ UNCHANGED <<task, floor>> /\ memdie' = memdie
      BY <1>1, <1>4 DEF drop_pagecache, Rest
    <2> QED BY <2>1, <2>2, StillKeeps
  <1> QED BY <1>2, <1>3, <1>4 DEF kcached_mng

LEMMA DropKeeps ==
    ASSUME IInv, drop_caches_sysctl_handler
    PROVE  IInv'
  <1>1. Memory /\ Rest
    BY IInvParts
  <1>2. Memory' /\ Grown
    BY <1>1, CachedDrop DEF drop_caches_sysctl_handler
  <1>3. Rest' /\ UNCHANGED <<task, floor>> /\ memdie' = memdie
    BY <1>1 DEF drop_caches_sysctl_handler, Rest, rest
  <1> QED BY <1>2, <1>3, StillKeeps

-----------------------------------------------------------------------------
(* The theorems.                                                            *)

LEMMA InitInvariant == Init => IInv
  <1> SUFFICES ASSUME Init PROVE IInv
    OBVIOUS
  <1>1. \A t \in Tasks : task[t] = Idle
    BY DEF Init
  <1>2. Idle \in Task /\ Looks(Idle) /\ Idle.pc = "idle"
    <2>1. Idle \in Task /\ Looks(Idle)
      BY IdleGood DEF Good
    <2> QED BY <2>1 DEF Idle
  <1>3. ASSUME NEW z \in Zones
        PROVE  /\ nr[z] = PagesIn(area[z]) /\ nr[z] \in Int /\ nr[z] >= watermark[z].min
               /\ floor[z] = watermark[z].min /\ floor[z] \in Nat
    <2>1. Present[z] \in [Order -> Nat] /\ watermark[z].min \in Nat
      BY ZonesAssumption
    <2>2. PagesIn(Present[z]) \in Nat
      BY <2>1, PagesInBounds
    <2>3. nr[z] = PagesIn(Present[z]) /\ area[z] = Present[z] /\ floor[z] = watermark[z].min
      BY DEF Init
    <2> QED BY <2>1, <2>2, <2>3, StartAssumption
  <1>4. Memory
    <2>1. nr \in [Zones -> Int]
      <3>1. nr = [z \in Zones |-> nr[z]]
        BY DEF Init
      <3> QED BY <1>3, <3>1
    <2>2. held \in [Tasks -> [Zones -> [Order -> Nat]]]
      BY DEF Init, Nothing
    <2>3. NrRight
      BY <1>3 DEF NrRight
    <2> QED BY <2>1, <2>2, <2>3, ZonesAssumption DEF Memory, Init
  <1>5. Rest
    <2>1. floor \in [Zones -> Int]
      <3>1. floor = [z \in Zones |-> floor[z]]
        BY DEF Init
      <3> QED BY <1>3, <3>1
    <2> QED BY <2>1 DEF Rest, Init
  <1>6. task \in [Tasks -> Task] /\ Looked
    BY <1>1, <1>2 DEF Init, Looked
  <1>7. SmallNeverFails
    BY <1>1, <1>2 DEF SmallNeverFails, At
  <1>8. AllSpared
    <2> SUFFICES ASSUME NEW z \in Zones PROVE Spared(z)
      BY DEF AllSpared
    <2>1. Takers(z) = {}
      BY <1>1, <1>2 DEF Takers, At
    <2>2. Cardinality(Takers(z)) = 0
      BY <2>1, FS_EmptySet
    <2>3. (Cardinality(Tasks) - 1 - 0) * Size[MaxOrder] \in Nat
      <3>1. Cardinality(Tasks) - 1 - 0 \in Nat /\ Size[MaxOrder] \in Nat
        <4>1. PICK n : n = Cardinality(Tasks)
          OBVIOUS
        <4>2. n \in Nat /\ n >= 1
          BY <4>1, TakersFinite
        <4> QED BY <4>1, <4>2, OrderFacts
      <3> QED BY <3>1
    <2>4. PICK x : x = (Cardinality(Tasks) - 1 - 0) * Size[MaxOrder]
      OBVIOUS
    <2>5. nr[z] >= floor[z] - x /\ floor[z] >= 0
      BY <1>3, <2>3, <2>4
    <2> QED BY <2>2, <2>4, <2>5 DEF Spared
  <1> QED BY <1>4, <1>5, <1>6, <1>7, <1>8, IInvParts

LEMMA StepInvariant == IInv /\ [Next]_vars => IInv'
  <1> SUFFICES ASSUME IInv, [Next]_vars PROVE IInv'
    OBVIOUS
  <1>1. CASE UNCHANGED vars
    <2>1. Memory /\ Rest
      BY IInvParts
    <2>2. Memory' /\ Grown
      BY <1>1, <2>1, MemoryStays DEF vars, mem
    <2>3. Rest' /\ UNCHANGED <<task, floor>> /\ memdie' = memdie
      BY <1>1, <2>1 DEF vars, Rest, rest
    <2> QED BY <2>2, <2>3, StillKeeps
  <1>2. ASSUME NEW t \in Tasks, get_page_from_freelist(t) PROVE IInv'
    BY <1>2, SkipKeeps, ScanKeeps, ReclaimZoneKeeps, RecheckKeeps, TakeKeeps, RmqueueFailsKeeps,
       EndKeeps DEF get_page_from_freelist
  <1>3. ASSUME NEW t \in Tasks, Slowpath(t) PROVE IInv'
    BY <1>3, RestartKeeps, RebalanceKeeps, PriorityKeeps, DesperateKeeps, ReclaimKeeps,
       ReclaimEndsKeeps, NoProgressKeeps, MayOomKeeps, OutOfMemoryKeeps, RetryKeeps, NoPageKeeps
       DEF Slowpath
  <1>4. CASE Next
    BY <1>2, <1>3, <1>4, AllocKeeps, ToCacheKeeps, FreeKeeps, VictimKeeps, KcachedKeeps, DropKeeps
       DEF Next, Allocating
  <1> QED BY <1>1, <1>4

\* The invariant holds of every state that can be reached, for any tasks that
\* compete for the zones.
THEOREM Invariant == Spec => []IInv
  <1>1. Init => IInv
    BY InitInvariant
  <1>2. IInv /\ [Next]_vars => IInv'
    BY StepInvariant
  <1> QED BY <1>1, <1>2, PTL DEF Spec

\* Passing zone_watermark_ok means that there is a block, and the reserve below
\* the mark is touched by no more than the requests that pass it together: for
\* any MAX_ORDER, any watermarks and any number of tasks between the check and
\* buffered_rmqueue.
THEOREM Watermarks == Spec => []WatermarksHold
  <1>1. IInv => WatermarksHold
    <2> SUFFICES ASSUME IInv PROVE WatermarksHold
      OBVIOUS
    <2>1. TypeOK /\ ReserveKept
      BY SparedReserve DEF IInv
    <2>2. WatermarkMeansBlock
      <3> SUFFICES ASSUME NEW z \in Zones, NEW class \in Zones, NEW order \in Order,
                          NEW min \in {0, Lowered(watermark[z].min, TRUE, TRUE), watermark[z].min},
                          zone_watermark_ok(z, order, min, class)
                   PROVE  Enough(z, order) # {}
        BY DEF WatermarkMeansBlock
      <3>1. watermark[z].min \in Nat /\ \A m \in Nat : m - (m \div 2) \in Nat /\ m - (m \div 4) \in Nat
        BY ZonesAssumption
      <3>2. Lowered(watermark[z].min, TRUE, TRUE) \in Nat
        BY <3>1 DEF Lowered
      <3>3. min \in Nat
        <4>1. 0 \in Nat
          OBVIOUS
        <4> QED BY <3>1, <3>2, <4>1, Zenon
      <3> QED BY <3>3, WatermarkBlock DEF IInv, TypeOK
    <2> QED BY <2>1, <2>2 DEF WatermarksHold
  <1> QED BY <1>1, Invariant, PTL

\* get_page_from_freelist gives up only after the task has looked at every zone
\* of its zonelist itself, whatever the others have written to the zonelist
\* cache meanwhile.
THEOREM NoStoneUnturned == Spec => []LeaveNoStone
  <1>1. IInv => LeaveNoStone
    BY DEF IInv, Looked, Looks, LeaveNoStone
  <1> QED BY <1>1, Invariant, PTL

\* __alloc_pages_slowpath gives a small request that may wait NULL only if its
\* task is a victim or reclaims already, the OOM killer is off, or the request
\* is for this node only.
THEOREM SmallRequests == Spec => []SmallNeverFails
  <1>1. IInv => SmallNeverFails
    BY DEF IInv
  <1> QED BY <1>1, Invariant, PTL
=============================================================================
