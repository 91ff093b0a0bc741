-------------------------- MODULE BuddyZone_proofs --------------------------
(* Proofs about BuddyZone, for every number of processors, every MAX_ORDER,  *)
(* every size of the zone and every batch of the per-cpu lists.              *)
EXTENDS BuddyZone, FiniteSetTheorems, WellFoundedInduction, TLAPS

-----------------------------------------------------------------------------
(* Arithmetic of blocks.                                                     *)

\* Sizes are positive and double from order to order.
LEMMA SizeFacts ==
    /\ \A o \in 0 .. MAX_ORDER : Size[o] \in Nat /\ Size[o] > 0
    /\ \A o \in Order : Size[o + 1] = 2 * Size[o]
    /\ MAX_ORDER \in Nat /\ MAX_ORDER >= 2 /\ ZonePages \in Nat /\ ZonePages > 0
    /\ Size[0] = 1 /\ 0 \in Order
  BY ZoneAssumption DEF Order

\* A set of naturals has a least element.
LEMMA LeastElement ==
    ASSUME NEW S, S \subseteq Nat, S # {}
    PROVE  \E n \in S : \A m \in S : n <= m
  <1>1. PICK n \in S : \A m \in S : ~ (<<m, n>> \in OpToRel(<, Nat))
    BY NatLessThanWellFounded, WFMin
  <1>2. \A m \in S : n <= m
    <2> SUFFICES ASSUME NEW m \in S PROVE n <= m
      OBVIOUS
    <2>1. <<m, n>> \notin {ss \in Nat \X Nat : ss[1] < ss[2]}
      BY <1>1, Zenon DEF OpToRel
    <2>2. ~ (m < n)
      BY <2>1
    <2> QED BY <2>2
  <1> QED BY <1>2

\* What is in a block.
LEMMA InPages ==
    ASSUME NEW b, b.i \in Nat, b.o \in Order
    PROVE  /\ Head(b) \in Nat /\ Head(b) + Size[b.o] = (b.i + 1) * Size[b.o]
           /\ \A p : p \in Pages(b) <=> p \in Nat /\ Head(b) <= p /\ p < Head(b) + Size[b.o]
           /\ Head(b) \in Pages(b)
  <1>1. Size[b.o] \in Nat /\ Size[b.o] > 0
    BY SizeFacts DEF Order
  <1>2. Head(b) \in Nat
    BY <1>1 DEF Head
  <1>3. Head(b) + Size[b.o] = (b.i + 1) * Size[b.o]
    BY <1>1 DEF Head
  <1> QED BY <1>1, <1>2, <1>3 DEF Pages

\* The size of every order is a multiple of that of a lower one.
LEMMA Multiples ==
    ASSUME NEW o \in 0 .. MAX_ORDER
    PROVE  \A u \in o .. MAX_ORDER : \E k \in Nat : k > 0 /\ Size[u] = k * Size[o]
  <1> DEFINE Fine(u) == \E k \in Nat : k > 0 /\ Size[u] = k * Size[o]
             Bad == {u \in o .. MAX_ORDER : ~ Fine(u)}
  <1> SUFFICES ASSUME Bad # {} PROVE FALSE
    OBVIOUS
  <1>1. PICK u \in Bad : \A m \in Bad : u <= m
    <2>1. Bad \subseteq Nat
      BY SizeFacts
    <2> QED BY <2>1, LeastElement
  <1>2. Fine(o)
    BY SizeFacts
  <1>3. u \in o + 1 .. MAX_ORDER /\ u - 1 \in o .. MAX_ORDER /\ u - 1 \notin Bad
    <2>1. u # o
      BY <1>1, <1>2
    <2>2. u \in o + 1 .. MAX_ORDER /\ u - 1 \in o .. MAX_ORDER /\ u \in Int /\ o \in Int
      BY <2>1, <1>1, SizeFacts
    <2>3. u - 1 \notin Bad
      BY <2>2, <1>1
    <2> QED BY <2>2, <2>3
  <1>4. PICK k \in Nat : k > 0 /\ Size[u - 1] = k * Size[o]
    BY <1>3
  <1>5. Size[u] = 2 * Size[u - 1]
    BY <1>3, SizeFacts DEF Order
  <1>6. Size[u] = (2 * k) * Size[o]
    BY <1>4, <1>5, SizeFacts
  <1>7. Fine(u)
    BY <1>4, <1>6
  <1> QED BY <1>1, <1>7

\* Two blocks that share a page: the one of the smaller order is inside.
LEMMA Nested ==
    ASSUME NEW b, b.i \in Nat, b.o \in Order, NEW c, c.i \in Nat, c.o \in Order,
           b.o <= c.o, Pages(b) \cap Pages(c) # {}
    PROVE  /\ Pages(b) \subseteq Pages(c)
           /\ Head(c) <= Head(b) /\ Head(b) + Size[b.o] <= Head(c) + Size[c.o]
  <1> DEFINE S == Size[b.o]
  <1>1. S \in Nat /\ S > 0
    BY SizeFacts DEF Order
  <1>2. PICK k \in Nat : k > 0 /\ Size[c.o] = k * S
    <2>1. b.o \in 0 .. MAX_ORDER /\ c.o \in b.o .. MAX_ORDER
      BY SizeFacts DEF Order
    <2> QED BY <2>1, Multiples
  <1>3. PICK p \in Nat : /\ Head(b) <= p /\ p < Head(b) + S
                         /\ Head(c) <= p /\ p < Head(c) + Size[c.o]
    BY InPages
  <1> DEFINE first == c.i * k
  <1>4. first \in Nat
    BY <1>2
  <1>5. Head(b) = b.i * S /\ Head(c) = first * S /\ Head(c) + Size[c.o] = (first + k) * S
    BY <1>1, <1>2, <1>4 DEF Head
  <1> HIDE DEF first, S
  <1>6. b.i * S < (first + k) * S /\ first * S < (b.i + 1) * S
    <2>1. (b.i + 1) * S = b.i * S + S
      BY <1>1
    <2> QED BY <1>3, <1>5, <2>1, <1>1, <1>4, <1>2
  <1>7. b.i < first + k /\ first < b.i + 1
    <2>1. \A x, y \in Nat : x * S < y * S => x < y
      BY <1>1
    <2> QED BY <2>1, <1>6, <1>4, <1>2
  <1>8. first * S <= b.i * S /\ (b.i + 1) * S <= (first + k) * S
    <2>1. \A x, y \in Nat : x <= y => x * S <= y * S
      BY <1>1
    <2> QED BY <2>1, <1>7, <1>4, <1>2
  <1>9. Head(c) <= Head(b) /\ Head(b) + Size[b.o] <= Head(c) + Size[c.o]
    BY <1>8, <1>5, InPages DEF S
  <1>10. Pages(b) \subseteq Pages(c)
    <2> SUFFICES ASSUME NEW x \in Pages(b) PROVE x \in Pages(c)
      OBVIOUS
    <2>1. x \in Nat /\ Head(b) <= x /\ x < Head(b) + Size[b.o]
      BY InPages
    <2>2. Size[b.o] \in Nat /\ Size[c.o] \in Nat /\ Head(b) \in Nat /\ Head(c) \in Nat
      BY SizeFacts, InPages DEF Order
    <2>3. Head(c) <= x /\ x < Head(c) + Size[c.o]
      BY <2>1, <2>2, <1>9
    <2> QED BY <2>1, <2>3, InPages
  <1> QED BY <1>9, <1>10

\* A block of the zone has an index like any other.
LEMMA IndexBound ==
    ASSUME NEW o \in Order, NEW i \in Nat, InZone([o |-> o, i |-> i])
    PROVE  [o |-> o, i |-> i] \in Block
  <1>1. Size[o] \in Nat /\ Size[o] > 0
    BY SizeFacts DEF Order
  <1>2. i * Size[o] + Size[o] <= ZonePages
    BY DEF InZone, Head
  <1>3. i * Size[o] >= i
    <2>1. \A x, y \in Nat : y > 0 => x * y >= x
      OBVIOUS
    <2> QED BY <1>1, <2>1
  <1>4. i \in 0 .. ZonePages - 1
    BY <1>1, <1>2, <1>3, SizeFacts
  <1> QED BY <1>4 DEF Block

\* The fields of a block.
LEMMA BlockFields ==
    ASSUME NEW b \in Block
    PROVE  b.o \in Order /\ b.i \in Nat /\ b = [o |-> b.o, i |-> b.i] /\ b.o \in Int
           /\ Size[b.o] \in Nat /\ Size[b.o] > 0
  BY SizeFacts DEF Block, Order

\* expand: a block is its two halves, which are blocks of the zone and buddies.
LEMMA Halves ==
    ASSUME NEW b \in Block, InZone(b), b.o > 0
    PROVE  /\ LowerHalf(b) \in Block /\ UpperHalf(b) \in Block
           /\ InZone(LowerHalf(b)) /\ InZone(UpperHalf(b))
           /\ Pages(b) = Pages(LowerHalf(b)) \cup Pages(UpperHalf(b))
           /\ Pages(LowerHalf(b)) \cap Pages(UpperHalf(b)) = {}
           /\ page_find_buddy(UpperHalf(b)) = LowerHalf(b)
           /\ Size[b.o] = 2 * Size[b.o - 1]
  <1> DEFINE o == b.o - 1
             S == Size[o]
             l == LowerHalf(b)
             u == UpperHalf(b)
  <1>1. o \in Order /\ b.o \in Order /\ b.i \in Nat /\ 2 * b.i \in Nat
    BY BlockFields, SizeFacts DEF Order
  <1>2. S \in Nat /\ S > 0 /\ Size[b.o] = 2 * S
    BY <1>1, SizeFacts DEF Order
  <1>3. /\ l = [o |-> o, i |-> 2 * b.i] /\ l.o = o /\ l.i = 2 * b.i
        /\ u = [o |-> o, i |-> 2 * b.i + 1] /\ u.o = o /\ u.i = 2 * b.i + 1
    BY DEF LowerHalf, UpperHalf
  <1>4. Head(l) = Head(b) /\ Head(u) = Head(b) + S /\ Head(b) \in Nat
    BY <1>1, <1>2, <1>3 DEF Head
  <1>5. InZone(l) /\ InZone(u)
    BY <1>1, <1>2, <1>3, <1>4, SizeFacts DEF InZone
  <1>6. l \in Block /\ u \in Block
    BY <1>1, <1>3, <1>5, IndexBound
  <1>7. /\ Pages(l) = Head(b) .. Head(b) + S - 1
        /\ Pages(u) = Head(b) + S .. Head(b) + S + S - 1
        /\ Pages(b) = Head(b) .. Head(b) + 2 * S - 1
    BY <1>2, <1>3, <1>4 DEF Pages
  <1>8. page_find_buddy(u) = l
    BY <1>1, <1>3 DEF page_find_buddy
  <1> HIDE DEF o, S, l, u
  <1>9. Pages(b) = Pages(l) \cup Pages(u) /\ Pages(l) \cap Pages(u) = {}
    BY <1>7, <1>2, <1>4
  <1> QED BY <1>2, <1>5, <1>6, <1>8, <1>9 DEF l, u, S, o

\* __free_one_page: a block and its free buddy are a block of the zone.
LEMMA Combines ==
    ASSUME NEW b \in Block, InZone(b), b.o < MAX_ORDER - 1,
           page_find_buddy(b) \in Block, InZone(page_find_buddy(b))
    PROVE  /\ find_combined(b) \in Block /\ InZone(find_combined(b))
           /\ Pages(find_combined(b)) = Pages(b) \cup Pages(page_find_buddy(b))
           /\ Size[b.o + 1] = 2 * Size[b.o]
           /\ page_find_buddy(b).o = b.o
  <1> DEFINE d == find_combined(b)
             g == page_find_buddy(b)
  <1>1. b.o + 1 \in Order /\ b.o \in Order /\ b.i \in Nat /\ b.i \div 2 \in Nat
    BY BlockFields, SizeFacts DEF Order
  <1>2. Size[b.o] \in Nat /\ Size[b.o] > 0 /\ Size[b.o + 1] = 2 * Size[b.o]
    BY <1>1, SizeFacts DEF Order
  <1>3. d.o = b.o + 1 /\ d.i = b.i \div 2 /\ d = [o |-> b.o + 1, i |-> b.i \div 2]
    BY DEF find_combined
  <1>4. d.o \in Order /\ d.i \in Nat
    BY <1>1, <1>3
  <1>5. LowerHalf(d) = [o |-> b.o, i |-> 2 * (b.i \div 2)] /\ UpperHalf(d) = [o |-> b.o, i |-> 2 * (b.i \div 2) + 1]
    BY <1>1, <1>3 DEF LowerHalf, UpperHalf, Order
  <1>6. \/ b.i = 2 * (b.i \div 2) /\ b.i % 2 = 0
        \/ b.i = 2 * (b.i \div 2) + 1 /\ b.i % 2 = 1
    BY <1>1
  <1>7. {b, g} = {LowerHalf(d), UpperHalf(d)} /\ g.o = b.o
    <2>1. b = [o |-> b.o, i |-> b.i]
      BY BlockFields
    <2>2. CASE b.i = 2 * (b.i \div 2) /\ b.i % 2 = 0
      BY <2>1, <2>2, <1>5 DEF page_find_buddy
    <2>3. CASE b.i = 2 * (b.i \div 2) + 1 /\ b.i % 2 = 1
      <3>1. g = [o |-> b.o, i |-> 2 * (b.i \div 2)]
        BY <2>3, <1>1 DEF page_find_buddy
      <3> QED BY <2>1, <2>3, <1>5, <3>1
    <2> QED BY <1>6, <2>2, <2>3
  <1>8. InZone(d)
    <2>1. InZone(UpperHalf(d))
      BY <1>7
    <2>2. Head(UpperHalf(d)) = d.i * Size[d.o] + Size[b.o]
      BY <1>5, <1>3, <1>2, <1>1 DEF Head
    <2>3. UpperHalf(d).o = b.o
      BY <1>5
    <2> QED BY <2>1, <2>2, <2>3, <1>2, <1>3, <1>4, SizeFacts DEF InZone, Head
  <1>9. d \in Block
    BY <1>8, <1>3, <1>1, IndexBound
  <1>10. Pages(d) = Pages(LowerHalf(d)) \cup Pages(UpperHalf(d))
    BY <1>9, <1>8, Halves, <1>3, <1>1, BlockFields DEF Order
  <1> QED BY <1>2, <1>7, <1>8, <1>9, <1>10

\* The buddy of the buddy is the block itself.
LEMMA BuddyOfBuddy ==
    ASSUME NEW b \in Block
    PROVE  page_find_buddy(page_find_buddy(b)) = b /\ page_find_buddy(b).o = b.o
           /\ page_find_buddy(b) # b
  <1>1. b.i \in Nat /\ b = [o |-> b.o, i |-> b.i]
    BY BlockFields
  <1>2. CASE b.i % 2 = 0
    <2>1. (b.i + 1) % 2 # 0 /\ b.i + 1 - 1 = b.i /\ b.i + 1 # b.i
      BY <1>1, <1>2
    <2> QED BY <2>1, <1>1, <1>2 DEF page_find_buddy
  <1>3. CASE b.i % 2 # 0
    <2>1. (b.i - 1) % 2 = 0 /\ b.i - 1 + 1 = b.i /\ b.i - 1 # b.i
      BY <1>1, <1>3
    <2> QED BY <2>1, <1>1, <1>3 DEF page_find_buddy
  <1> QED BY <1>2, <1>3

\* A page is a block of one page.
LEMMA SinglePage ==
    ASSUME NEW i \in Nat
    PROVE  /\ Pages(Page(i)) = {i} /\ Page(i).o = 0 /\ Page(i).i = i
           /\ i < ZonePages => Page(i) \in Block /\ InZone(Page(i))
  <1>1. Page(i).o = 0 /\ Page(i).i = i /\ Size[0] = 1
    BY SizeFacts DEF Page
  <1>2. Head(Page(i)) = i
    BY <1>1 DEF Head
  <1>3. Pages(Page(i)) = {i}
    BY <1>1, <1>2 DEF Pages
  <1>4. i < ZonePages => Page(i) \in Block /\ InZone(Page(i))
    BY <1>1, <1>2, SizeFacts DEF Block, Page, InZone
  <1> QED BY <1>1, <1>3, <1>4

\* Two of the blocks that bootmem hands over have no page in common: the
\* block above the smaller one would be in the zone with the larger one.
LEMMA LargestApart ==
    ASSUME NEW b \in Block, NEW c \in Block, Largest(b), Largest(c), b.o <= c.o,
           Pages(b) \cap Pages(c) # {}
    PROVE  b = c
  <1>1. /\ b.o \in Order /\ b.i \in Nat /\ b = [o |-> b.o, i |-> b.i]
        /\ c.o \in Order /\ c.i \in Nat /\ c = [o |-> c.o, i |-> c.i]
    BY BlockFields
  <1>2. CASE b.o = c.o
    <2>1. Head(b) = Head(c)
      <3>1. Head(c) <= Head(b)
        BY Nested, <1>1
      <3>2. Pages(c) \cap Pages(b) # {} /\ c.o <= b.o
        BY <1>1, <1>2 DEF Order
      <3>3. Head(b) <= Head(c)
        BY Nested, <1>1, <3>2
      <3>4. Head(b) \in Nat /\ Head(c) \in Nat
        BY InPages, <1>1
      <3> QED BY <3>1, <3>3, <3>4
    <2>2. Size[b.o] \in Nat /\ Size[b.o] > 0
      BY BlockFields
    <2>3. b.i * Size[b.o] = c.i * Size[b.o]
      BY <2>1, <1>2 DEF Head
    <2>4. b.i = c.i
      <3>1. \A x, y, z \in Nat : z > 0 /\ x * z = y * z => x = y
        OBVIOUS
      <3> QED BY <2>2, <2>3, <3>1, <1>1
    <2> QED BY <2>4, <1>2, <1>1
  <1>3. CASE b.o < c.o
    <2> DEFINE d == [o |-> b.o + 1, i |-> b.i \div 2]
    <2>1. b.o < MAX_ORDER - 1 /\ b.o + 1 \in Order /\ b.o + 1 <= c.o /\ b.o \in Int
      BY <1>1, <1>3, SizeFacts DEF Order
    <2>2. ~ InZone(d)
      BY <2>1 DEF Largest
    <2>3. d.o = b.o + 1 /\ d.i = b.i \div 2 /\ d.i \in Nat
      BY <1>1
    <2>4. Size[b.o] \in Nat /\ Size[b.o] > 0 /\ Size[d.o] = 2 * Size[b.o]
      BY BlockFields, SizeFacts, <2>3
    <2>5. b.i = 2 * d.i \/ b.i = 2 * d.i + 1
      BY <1>1, <2>3
    <2>6. Head(d) <= Head(b) /\ Head(b) + Size[b.o] <= Head(d) + Size[d.o]
          /\ Head(d) \in Nat /\ Head(b) \in Nat
      <3>1. Head(d) = 2 * (d.i * Size[b.o]) /\ d.i * Size[b.o] \in Nat
        BY <2>3, <2>4 DEF Head
      <3>2. Head(b) = 2 * (d.i * Size[b.o]) \/ Head(b) = 2 * (d.i * Size[b.o]) + Size[b.o]
        BY <2>3, <2>4, <2>5 DEF Head
      <3> QED BY <3>1, <3>2, <2>4
    <2>7. PICK p \in Nat : p \in Pages(b) /\ p \in Pages(c)
      BY InPages, <1>1
    <2>8. p \in Pages(d)
      <3>1. Head(b) <= p /\ p < Head(b) + Size[b.o]
        BY <2>7, InPages, <1>1
      <3>2. Head(d) <= p /\ p < Head(d) + Size[d.o]
        BY <3>1, <2>6, <2>4
      <3> QED BY <3>2, <2>3, <2>1, InPages
    <2>9. Head(d) + Size[d.o] <= Head(c) + Size[c.o]
      BY <2>7, <2>8, <2>1, <2>3, <1>1, Nested
    <2>10. Head(c) + Size[c.o] <= ZonePages
      BY DEF Largest, InZone
    <2>11. Head(c) \in Nat /\ Size[c.o] \in Nat /\ Size[d.o] \in Nat
      BY <1>1, InPages, BlockFields, <2>4
    <2> QED BY <2>2, <2>6, <2>9, <2>10, <2>11, <2>3, SizeFacts DEF InZone
  <1> QED BY <1>1, <1>2, <1>3 DEF Order

\* Every page is in one of them.
LEMMA LargestCover ==
    ASSUME NEW p \in 0 .. ZonePages - 1
    PROVE  \E b \in Block : Largest(b) /\ p \in Pages(b)
  <1> DEFINE Holds(o) == \E i \in Nat : LET b == [o |-> o, i |-> i]
                                        IN  InZone(b) /\ p \in Pages(b)
             Up == {n \in 0 .. MAX_ORDER - 1 : Holds(MAX_ORDER - 1 - n)}
  <1>1. p \in Nat /\ p < ZonePages
    BY SizeFacts
  <1>2. Holds(0)
    <2>1. InZone(Page(p)) /\ p \in Pages(Page(p))
      BY SinglePage, <1>1
    <2> QED BY <2>1, <1>1 DEF Page
  <1>3. Up \subseteq Nat /\ MAX_ORDER - 1 \in Up
    BY <1>2, SizeFacts
  <1>4. PICK n \in Up : \A m \in Up : n <= m
    BY <1>3, LeastElement
  <1> DEFINE o == MAX_ORDER - 1 - n
  <1>5. o \in Order /\ n \in 0 .. MAX_ORDER - 1 /\ Holds(o)
    BY <1>4, SizeFacts DEF Order
  <1>6. PICK i \in Nat : InZone([o |-> o, i |-> i]) /\ p \in Pages([o |-> o, i |-> i])
    BY <1>5
  <1> DEFINE b == [o |-> o, i |-> i]
  <1>7. b \in Block
    BY <1>5, <1>6, IndexBound
  <1>8. ASSUME b.o < MAX_ORDER - 1, InZone([o |-> b.o + 1, i |-> b.i \div 2]) PROVE FALSE
    <2> DEFINE d == [o |-> o + 1, i |-> i \div 2]
    <2>1. o + 1 \in Order /\ i \div 2 \in Nat /\ InZone(d)
      BY <1>5, <1>8, SizeFacts DEF Order
    <2>2. d.o = o + 1 /\ d.i = i \div 2 /\ d.o > 0 /\ d.o - 1 = o
      BY <2>1, <1>5 DEF Order
    <2>3. d \in Block
      BY <2>1, IndexBound
    <2>4. Pages(d) = Pages(LowerHalf(d)) \cup Pages(UpperHalf(d))
      BY <2>1, <2>2, <2>3, Halves
    <2>5. LowerHalf(d) = [o |-> o, i |-> 2 * (i \div 2)] /\ UpperHalf(d) = [o |-> o, i |-> 2 * (i \div 2) + 1]
      BY <2>2 DEF LowerHalf, UpperHalf
    <2>6. i = 2 * (i \div 2) \/ i = 2 * (i \div 2) + 1
      OBVIOUS
    <2>7. p \in Pages(d)
      BY <2>4, <2>5, <2>6, <1>6
    <2>8. Holds(o + 1)
      BY <2>1, <2>7
    <2>9. n - 1 \in Up
      <3>1. n - 1 \in 0 .. MAX_ORDER - 1 /\ MAX_ORDER - 1 - (n - 1) = o + 1
        BY <2>1, <1>5, SizeFacts DEF Order
      <3> QED BY <3>1, <2>8
    <2>10. n <= n - 1 /\ n \in Int
      BY <2>9, <1>4, <1>5
    <2> QED BY <2>10
  <1> QED BY <1>6, <1>7, <1>8 DEF Largest

-----------------------------------------------------------------------------
(* Who has which block.                                                      *)

FreeOf(f) == {<<"free", NoCPU, b>> : b \in DOMAIN f}
UsedOf(u) == {<<"used", NoCPU, b>> : b \in u}
GoneOf(g) == {<<"gone", NoCPU, b>> : b \in g}
PcpOf(l) == UNION {{<<"pcp", <<c, q>>, Page(q.i)>> : q \in l[c]} : c \in CPUs}
HandOf(k) == {<<"hand", c, k[c].blk>> : c \in {d \in CPUs : k[d].pc \in Carries}}

LEMMA OwnedParts ==
    /\ Owned = FreeOf(free) \cup UsedOf(used) \cup GoneOf(gone) \cup PcpOf(pcp) \cup HandOf(cpu)
    /\ Owned' = FreeOf(free') \cup UsedOf(used') \cup GoneOf(gone') \cup PcpOf(pcp') \cup HandOf(cpu')
  <1>1. Owned = FreeOf(free) \cup UsedOf(used) \cup GoneOf(gone) \cup PcpOf(pcp) \cup HandOf(cpu)
    BY Zenon DEF Owned, FreeOf, UsedOf, GoneOf, PcpOf, HandOf
  <1>2. Owned' = FreeOf(free') \cup UsedOf(used') \cup GoneOf(gone') \cup PcpOf(pcp') \cup HandOf(cpu')
    BY Zenon DEF Owned, FreeOf, UsedOf, GoneOf, PcpOf, HandOf
  <1> QED BY <1>1, <1>2

\* The blocks of T have no page in common, and their pages.
Apart(T) == \A x, y \in T : x # y => Pages(x[3]) \cap Pages(y[3]) = {}
Cover(T) == UNION {Pages(x[3]) : x \in T}

\* The invariant about them: blocks of the zone, apart, and all of its pages.
Whole(T) ==
    /\ \A x \in T : x[3] \in Block /\ InZone(x[3])
    /\ Apart(T)
    /\ 0 .. ZonePages - 1 \subseteq Cover(T)

\* Blocks change their owner or are cut up in another way: what goes and what
\* comes has the same pages.
LEMMA Regroup ==
    ASSUME NEW T, Whole(T), NEW R, R \subseteq T, NEW A, Apart(A),
           \A x \in A : x[3] \in Block /\ InZone(x[3]),
           Cover(A) = Cover(R)
    PROVE  Whole((T \ R) \cup A)
  <1> DEFINE N == (T \ R) \cup A
  <1>1. \A x \in N : x[3] \in Block /\ InZone(x[3])
    BY DEF Whole
  <1>2. ASSUME NEW x \in T \ R, NEW y \in A PROVE Pages(x[3]) \cap Pages(y[3]) = {}
    <2> SUFFICES ASSUME NEW p \in Pages(x[3]), p \in Pages(y[3]) PROVE FALSE
      OBVIOUS
    <2>1. p \in Cover(R)
      BY DEF Cover
    <2>2. PICK z \in R : p \in Pages(z[3])
      BY <2>1 DEF Cover
    <2> QED BY <2>2 DEF Whole, Apart
  <1>3. Apart(N)
    <2> SUFFICES ASSUME NEW x \in N, NEW y \in N, x # y
                 PROVE  Pages(x[3]) \cap Pages(y[3]) = {}
      BY DEF Apart
    <2>1. CASE x \in A /\ y \in A
      BY <2>1 DEF Apart
    <2>2. CASE x \in T \ R /\ y \in T \ R
      BY <2>2 DEF Apart, Whole
    <2>3. CASE x \in T \ R /\ y \in A
      BY <2>3, <1>2
    <2>4. CASE x \in A /\ y \in T \ R
      BY <2>4, <1>2
    <2> QED BY <2>1, <2>2, <2>3, <2>4
  <1>4. Cover(T) \subseteq Cover(N)
    <2> SUFFICES ASSUME NEW x \in T, NEW p \in Pages(x[3]) PROVE p \in Cover(N)
      BY DEF Cover
    <2>1. CASE x \in R
      <3>1. p \in Cover(A)
        BY <2>1 DEF Cover
      <3> QED BY <3>1 DEF Cover
    <2>2. CASE x \notin R
      BY <2>2 DEF Cover
    <2> QED BY <2>1, <2>2
  <1> QED BY <1>1, <1>3, <1>4 DEF Whole

\* A block goes from one place to another.
LEMMA Moves ==
    ASSUME NEW T, Whole(T), NEW x \in T, NEW y, y[3] = x[3]
    PROVE  Whole((T \ {x}) \cup {y})
  <1>1. Apart({y}) /\ Cover({y}) = Cover({x}) /\ {x} \subseteq T
    BY DEF Apart, Cover
  <1>2. y[3] \in Block /\ InZone(y[3])
    BY DEF Whole
  <1>3. \A z \in {y} : z[3] \in Block /\ InZone(z[3])
    BY <1>2
  <1> HIDE DEF Whole, Apart, Cover
  <1> QED BY <1>1, <1>3, Regroup

LEMMA WholeIs ==
    /\ NoOverlap <=> Apart(Owned)
    /\ NoLeak <=> 0 .. ZonePages - 1 \subseteq Cover(Owned)
  BY DEF NoOverlap, NoLeak, Apart, Cover

FreeAt(b) == <<"free", NoCPU, b>>
UsedAt(b) == <<"used", NoCPU, b>>
GoneAt(b) == <<"gone", NoCPU, b>>
PcpAt(c, q) == <<"pcp", <<c, q>>, Page(q.i)>>
HandAt(c, b) == <<"hand", c, b>>

\* The places are different ones.
LEMMA Tags ==
    /\ \A f : \A x \in FreeOf(f) : x[1] = "free"
    /\ \A u : \A x \in UsedOf(u) : x[1] = "used"
    /\ \A g : \A x \in GoneOf(g) : x[1] = "gone"
    /\ \A l : \A x \in PcpOf(l) : x[1] = "pcp"
    /\ \A k : \A x \in HandOf(k) : x[1] = "hand"
    /\ \A b : FreeAt(b)[1] = "free" /\ FreeAt(b)[3] = b
    /\ \A b : UsedAt(b)[1] = "used" /\ UsedAt(b)[3] = b
    /\ \A b : GoneAt(b)[1] = "gone" /\ GoneAt(b)[3] = b
    /\ \A c, q : PcpAt(c, q)[1] = "pcp" /\ PcpAt(c, q)[3] = Page(q.i)
    /\ \A c, b : HandAt(c, b)[1] = "hand" /\ HandAt(c, b)[3] = b
  BY DEF FreeOf, UsedOf, GoneOf, PcpOf, HandOf, FreeAt, UsedAt, GoneAt, PcpAt, HandAt

\* Which blocks are where.
LEMMA AtPlace ==
    /\ \A b \in DOMAIN free : FreeAt(b) \in Owned
    /\ \A b \in used : UsedAt(b) \in Owned
    /\ \A c \in CPUs : \A q \in pcp[c] : PcpAt(c, q) \in Owned
    /\ \A c \in CPUs : cpu[c].pc \in Carries => HandAt(c, cpu[c].blk) \in Owned
  <1>1. \A b \in DOMAIN free : FreeAt(b) \in Owned
    BY OwnedParts DEF FreeOf, FreeAt
  <1>2. \A b \in used : UsedAt(b) \in Owned
    BY OwnedParts DEF UsedOf, UsedAt
  <1>3. \A c \in CPUs : \A q \in pcp[c] : PcpAt(c, q) \in Owned
    BY OwnedParts DEF PcpOf, PcpAt
  <1>4. \A c \in CPUs : cpu[c].pc \in Carries => HandAt(c, cpu[c].blk) \in Owned
    BY OwnedParts DEF HandOf, HandAt
  <1> QED BY <1>1, <1>2, <1>3, <1>4

\* What the updates of the lists do to the places.
LEMMA FreeSteps ==
    /\ \A f, b, mt : FreeOf(With(f, b, mt)) = FreeOf(f) \cup {FreeAt(b)}
    /\ \A f, b : FreeOf(Without(f, b)) = FreeOf(f) \ {FreeAt(b)}
  BY DEF FreeOf, With, Without, FreeAt

LEMMA UsedSteps ==
    /\ \A u, b : UsedOf(u \cup {b}) = UsedOf(u) \cup {UsedAt(b)}
    /\ \A u, b : UsedOf(u \ {b}) = UsedOf(u) \ {UsedAt(b)}
  BY DEF UsedOf, UsedAt

LEMMA PcpAdds ==
    ASSUME NEW c \in CPUs, NEW l, NEW m, NEW q, \A x : x \in m[c] <=> x \in l[c] \/ x = q,
           \A d \in CPUs \ {c} : m[d] = l[d]
    PROVE  PcpOf(m) = PcpOf(l) \cup {PcpAt(c, q)}
  BY DEF PcpOf, PcpAt

LEMMA PcpRemoves ==
    ASSUME NEW c \in CPUs, NEW l, NEW m, NEW q, \A x : x \in m[c] <=> x \in l[c] /\ x # q,
           \A d \in CPUs \ {c} : m[d] = l[d]
    PROVE  PcpOf(m) = PcpOf(l) \ {PcpAt(c, q)}
  BY DEF PcpOf, PcpAt

\* What a step of processor c does to the blocks in the processors' hands.
LEMMA HandStep ==
    ASSUME NEW c \in CPUs, NEW k, NEW m, \A d \in CPUs \ {c} : m[d] = k[d]
    PROVE  /\ m[c].pc \in Carries =>
                 HandOf(m) = (HandOf(k) \ {HandAt(c, k[c].blk)}) \cup {HandAt(c, m[c].blk)}
           /\ m[c].pc \notin Carries => HandOf(m) = HandOf(k) \ {HandAt(c, k[c].blk)}
  BY DEF HandOf, HandAt

LEMMA HandTakes ==
    ASSUME NEW c \in CPUs, NEW k, NEW m, \A d \in CPUs \ {c} : m[d] = k[d],
           k[c].pc \notin Carries
    PROVE  /\ m[c].pc \in Carries => HandOf(m) = HandOf(k) \cup {HandAt(c, m[c].blk)}
           /\ m[c].pc \notin Carries => HandOf(m) = HandOf(k)
  BY DEF HandOf, HandAt

LEMMA HandKeeps ==
    ASSUME NEW c \in CPUs, NEW k, NEW m, \A d \in CPUs \ {c} : m[d] = k[d],
           k[c].pc \in Carries, m[c].pc \in Carries, m[c].blk = k[c].blk
    PROVE  HandOf(m) = HandOf(k)
  BY DEF HandOf, HandAt

-----------------------------------------------------------------------------
(* The steps that give a block to somebody else.                             *)

LEMMA TakeParts ==
    ASSUME TypeOK, NEW c \in CPUs, NEW q \in pcp[c], Take(c, q)
    PROVE  /\ PcpOf(pcp') = PcpOf(pcp) \ {PcpAt(c, q)}
           /\ UsedOf(used') = UsedOf(used) \cup {UsedAt(Page(q.i))}
  <1>1. pcp' = [pcp EXCEPT ![c] = @ \ {q}] /\ used' = used \cup {Page(q.i)}
    BY DEF Take
  <1>2. (\A x : x \in pcp'[c] <=> x \in pcp[c] /\ x # q) /\ \A d \in CPUs \ {c} : pcp'[d] = pcp[d]
    BY <1>1 DEF TypeOK
  <1>3. PcpOf(pcp') = PcpOf(pcp) \ {PcpAt(c, q)}
    BY <1>2, PcpRemoves
  <1>4. UsedOf(used') = UsedOf(used) \cup {UsedAt(Page(q.i))}
    BY <1>1, UsedSteps
  <1> QED BY <1>3, <1>4

LEMMA AllocHotWhole ==
    ASSUME TypeOK, Whole(Owned), NEW c \in CPUs, NEW mt, AllocHot(c, mt)
    PROVE  Whole(Owned')
  <1>1. PICK q \in pcp[c] : Take(c, q)
    BY DEF AllocHot
  <1>2. free' = free /\ gone' = gone /\ cpu' = cpu
    BY DEF AllocHot
  <1>3. Owned' = (Owned \ {PcpAt(c, q)}) \cup {UsedAt(Page(q.i))}
    BY <1>1, <1>2, TakeParts, OwnedParts, Tags
  <1> QED BY <1>3, Moves, AtPlace, Tags

LEMMA GrabWhole ==
    ASSUME TypeOK, Whole(Owned), NEW c \in CPUs, NEW b, NEW f, NEW on, Grab(c, b, f, on),
           DOMAIN f = DOMAIN free, b \in DOMAIN free, At(c, "rmqueue")
    PROVE  Whole(Owned')
  <1>1. /\ free' = Without(f, b) /\ pcp' = pcp /\ used' = used /\ gone' = gone
        /\ cpu' = [cpu EXCEPT ![c] =
              [pc |-> "expand", blk |-> b, want |-> cpu[c].want, mt |-> cpu[c].mt, on |-> on,
               todo |-> cpu[c].todo, done |-> cpu[c].done, why |-> cpu[c].why]]
    BY DEF Grab, TypeOK
  <1>2. Owned' = (Owned \ {FreeAt(b)}) \cup {HandAt(c, b)}
    <2>1. FreeOf(free') = FreeOf(free) \ {FreeAt(b)}
      BY <1>1, FreeSteps DEF FreeOf
    <2>2. HandOf(cpu') = HandOf(cpu) \cup {HandAt(c, b)}
      <3>1. cpu[c].pc \notin Carries /\ cpu'[c].pc \in Carries /\ cpu'[c].blk = b
            /\ \A d \in CPUs \ {c} : cpu'[d] = cpu[d]
        BY <1>1 DEF Carries, At, TypeOK
      <3> QED BY <3>1, HandTakes
    <2> QED BY <1>1, <2>1, <2>2, OwnedParts, Tags
  <1> QED BY <1>2, Moves, AtPlace, Tags

LEMMA ExpandWhole ==
    ASSUME TypeOK, Whole(Owned), NEW c \in CPUs, expand(c)
    PROVE  Whole(Owned')
  <1> DEFINE b == cpu[c].blk
             h == HandAt(c, b)
             A == {FreeAt(UpperHalf(b)), HandAt(c, LowerHalf(b))}
  <1>1. h \in Owned /\ h[3] = b /\ b \in Block /\ InZone(b)
    BY AtPlace, Tags DEF expand, At, Carries, Whole
  <1>2. cpu[c] \in Cpu /\ b.o > 0
    BY <1>1, BlockFields DEF expand, TypeOK, Cpu, Order
  <1>3. /\ free' = With(free, UpperHalf(b), cpu[c].on) /\ pcp' = pcp /\ used' = used /\ gone' = gone
        /\ cpu' = [cpu EXCEPT ![c] = [cpu[c] EXCEPT !.blk = LowerHalf(b)]]
    BY DEF expand, TypeOK
  <1>4. Owned' = (Owned \ {h}) \cup A
    <2>1. FreeOf(free') = FreeOf(free) \cup {FreeAt(UpperHalf(b))}
      BY <1>3, FreeSteps
    <2>2. cpu'[c].pc \in Carries /\ cpu'[c].blk = LowerHalf(b)
          /\ \A d \in CPUs \ {c} : cpu'[d] = cpu[d]
      BY <1>2, <1>3 DEF expand, At, Carries, Cpu, TypeOK
    <2>3. HandOf(cpu') = (HandOf(cpu) \ {h}) \cup {HandAt(c, LowerHalf(b))}
      BY <2>2, HandStep
    <2> QED BY <1>3, <2>1, <2>3, OwnedParts, Tags
  <1>5. /\ LowerHalf(b) \in Block /\ UpperHalf(b) \in Block
        /\ InZone(LowerHalf(b)) /\ InZone(UpperHalf(b))
        /\ Pages(b) = Pages(LowerHalf(b)) \cup Pages(UpperHalf(b))
        /\ Pages(LowerHalf(b)) \cap Pages(UpperHalf(b)) = {}
    BY <1>1, <1>2, Halves
  <1>6. Apart(A)
    BY <1>5, Tags DEF Apart
  <1>7. \A x \in A : x[3] \in Block /\ InZone(x[3])
    BY <1>5, Tags
  <1>8. Cover(A) = Cover({h})
    BY <1>5, <1>1, Tags DEF Cover
  <1> HIDE DEF A, h, b
  <1> QED BY <1>1, <1>4, <1>6, <1>7, <1>8, Regroup

LEMMA BulkGotWhole ==
    ASSUME TypeOK, Whole(Owned), NEW c \in CPUs, BulkGot(c)
    PROVE  Whole(Owned')
  <1> DEFINE b == cpu[c].blk
             q == [i |-> b.i, list |-> cpu[c].mt, private |-> cpu[c].mt]
             s == [pc |-> IF cpu[c].todo = 1 THEN "bulkend" ELSE "rmqueue",
                   blk |-> Page(0), want |-> 0, mt |-> cpu[c].mt, on |-> cpu[c].mt,
                   todo |-> cpu[c].todo - 1, done |-> cpu[c].done + 1, why |-> cpu[c].why]
  <1>1. /\ pcp' = [pcp EXCEPT ![c] = @ \cup {q}] /\ cpu' = [cpu EXCEPT ![c] = s]
        /\ free' = free /\ used' = used /\ gone' = gone
    BY DEF BulkGot, TypeOK
  <1>2. HandAt(c, b) \in Owned /\ HandAt(c, b)[3] = b
    BY AtPlace, Tags DEF BulkGot, At, Carries
  <1>3. PcpAt(c, q)[3] = b
    <2>1. b \in Block /\ b.o = 0
      BY <1>2 DEF Whole, BulkGot
    <2>2. b = Page(b.i)
      BY <2>1, BlockFields DEF Page
    <2> QED BY <2>2, Tags
  <1>4. Owned' = (Owned \ {HandAt(c, b)}) \cup {PcpAt(c, q)}
    <2>1. PcpOf(pcp') = PcpOf(pcp) \cup {PcpAt(c, q)}
      <3>1. pcp'[c] = pcp[c] \cup {q} /\ \A d \in CPUs \ {c} : pcp'[d] = pcp[d]
        BY <1>1 DEF TypeOK
      <3> QED BY <3>1, PcpAdds
    <2>2. s.pc \notin Carries
      BY DEF Carries
    <2>3. HandOf(cpu') = HandOf(cpu) \ {HandAt(c, b)}
      BY <1>1, <2>2, HandStep DEF TypeOK
    <2> QED BY <1>1, <2>1, <2>3, OwnedParts, Tags
  <1> QED BY <1>2, <1>3, <1>4, Moves

LEMMA BulkEndWhole ==
    ASSUME TypeOK, Whole(Owned), NEW c \in CPUs, BulkEnd(c)
    PROVE  Whole(Owned')
  <1>1. /\ cpu' = [cpu EXCEPT ![c] = Idle] /\ free' = free /\ gone' = gone
        /\ cpu[c].pc \notin Carries /\ Idle.pc \notin Carries
    BY DEF BulkEnd, At, Carries, Idle
  <1>2. HandOf(cpu') = HandOf(cpu)
    BY <1>1, HandTakes DEF TypeOK
  <1>3. CASE pcp' = pcp /\ used' = used
    <2>1. Owned' = Owned
      BY <1>1, <1>2, <1>3, OwnedParts
    <2> QED BY <2>1
  <1>4. CASE \E q \in pcp[c] : Take(c, q)
    <2>1. PICK q \in pcp[c] : Take(c, q)
      BY <1>4
    <2>3. Owned' = (Owned \ {PcpAt(c, q)}) \cup {UsedAt(Page(q.i))}
      BY <1>1, <1>2, <2>1, TakeParts, OwnedParts, Tags
    <2> QED BY <2>3, Moves, AtPlace, Tags
  <1> QED BY <1>3, <1>4 DEF BulkEnd

LEMMA AccountWhole ==
    ASSUME TypeOK, Whole(Owned), NEW c \in CPUs, Account(c)
    PROVE  Whole(Owned')
  <1> DEFINE b == cpu[c].blk
  <1>1. /\ cpu' = [cpu EXCEPT ![c] = Idle] /\ used' = used \cup {b}
        /\ free' = free /\ gone' = gone /\ pcp' = pcp /\ Idle.pc \notin Carries
    BY DEF Account, Idle, Carries
  <1>2. HandAt(c, b) \in Owned /\ HandAt(c, b)[3] = b
    BY AtPlace, Tags DEF Account, At, Carries
  <1>3. Owned' = (Owned \ {HandAt(c, b)}) \cup {UsedAt(b)}
    <2>1. HandOf(cpu') = HandOf(cpu) \ {HandAt(c, b)}
      BY <1>1, HandStep DEF TypeOK
    <2>2. UsedOf(used') = UsedOf(used) \cup {UsedAt(b)}
      BY <1>1, UsedSteps
    <2> QED BY <1>1, <2>1, <2>2, OwnedParts, Tags
  <1> QED BY <1>2, <1>3, Moves, Tags

LEMMA FreePagesWhole ==
    ASSUME TypeOK, Whole(Owned), NEW c \in CPUs, NEW b \in used, __free_pages(c, b)
    PROVE  Whole(Owned')
  <1>1. /\ used' = used \ {b} /\ free' = free /\ gone' = gone /\ pcp' = pcp
        /\ cpu[c].pc \notin Carries /\ cpu'[c].pc \in Carries /\ cpu'[c].blk = b
        /\ \A d \in CPUs \ {c} : cpu'[d] = cpu[d]
    BY DEF __free_pages, At, Carries, TypeOK
  <1>2. Owned' = (Owned \ {UsedAt(b)}) \cup {HandAt(c, b)}
    <2>1. UsedOf(used') = UsedOf(used) \ {UsedAt(b)}
      BY <1>1, UsedSteps
    <2>2. HandOf(cpu') = HandOf(cpu) \cup {HandAt(c, b)}
      BY <1>1, HandTakes
    <2> QED BY <1>1, <2>1, <2>2, OwnedParts, Tags
  <1> QED BY <1>2, Moves, AtPlace, Tags

LEMMA FreeHotWhole ==
    ASSUME TypeOK, Whole(Owned), NEW c \in CPUs, free_hot_cold_page(c)
    PROVE  Whole(Owned')
  <1> DEFINE b == cpu[c].blk
             q == [i |-> b.i, private |-> cpu[c].mt,
                   list |-> IF cpu[c].mt = "reserve" THEN "movable" ELSE cpu[c].mt]
  <1>1. /\ used' = used /\ free' = free /\ gone' = gone
        /\ (\A x : x \in pcp'[c] <=> x \in pcp[c] \/ x = q) /\ \A d \in CPUs \ {c} : pcp'[d] = pcp[d]
    BY DEF free_hot_cold_page, TypeOK
  <1>2. cpu'[c].pc \notin Carries /\ \A d \in CPUs \ {c} : cpu'[d] = cpu[d]
    BY DEF free_hot_cold_page, TypeOK, Carries, Idle, Draining
  <1>3. HandAt(c, b) \in Owned /\ HandAt(c, b)[3] = b
    BY AtPlace, Tags DEF free_hot_cold_page, At, Carries
  <1>4. PcpAt(c, q)[3] = b
    <2>1. b \in Block /\ b.o = 0
      BY <1>3, BlockFields DEF Whole, free_hot_cold_page, ToZone, Order
    <2>2. b = Page(b.i)
      BY <2>1, BlockFields DEF Page
    <2> QED BY <2>2, Tags
  <1> HIDE DEF b, q
  <1>5. Owned' = (Owned \ {HandAt(c, b)}) \cup {PcpAt(c, q)}
    <2>1. PcpOf(pcp') = PcpOf(pcp) \cup {PcpAt(c, q)}
      BY <1>1, PcpAdds
    <2>2. HandOf(cpu') = HandOf(cpu) \ {HandAt(c, b)}
      BY <1>2, HandStep DEF b
    <2> QED BY <1>1, <2>1, <2>2, OwnedParts, Tags
  <1> QED BY <1>3, <1>4, <1>5, Moves

LEMMA DrainOneWhole ==
    ASSUME TypeOK, Whole(Owned), NEW c \in CPUs, DrainOne(c)
    PROVE  Whole(Owned')
  <1>1. PICK q \in pcp[c] :
          /\ pcp' = [pcp EXCEPT ![c] = @ \ {q}]
          /\ cpu' = [cpu EXCEPT ![c] =
                [pc |-> "merge", blk |-> Page(q.i), want |-> 0, mt |-> q.private,
                 on |-> "movable", todo |-> @.todo - 1, done |-> @.done,
                 why |-> @.why]]
    BY DEF DrainOne
  <1>2. /\ used' = used /\ free' = free /\ gone' = gone
        /\ (\A x : x \in pcp'[c] <=> x \in pcp[c] /\ x # q) /\ \A d \in CPUs \ {c} : pcp'[d] = pcp[d]
    BY <1>1 DEF DrainOne, TypeOK
  <1>3. /\ cpu[c].pc \notin Carries /\ cpu'[c].pc \in Carries /\ cpu'[c].blk = Page(q.i)
        /\ \A d \in CPUs \ {c} : cpu'[d] = cpu[d]
    BY <1>1 DEF DrainOne, TypeOK, At, Carries
  <1>4. Owned' = (Owned \ {PcpAt(c, q)}) \cup {HandAt(c, Page(q.i))}
    <2>1. PcpOf(pcp') = PcpOf(pcp) \ {PcpAt(c, q)}
      BY <1>2, PcpRemoves
    <2>2. HandOf(cpu') = HandOf(cpu) \cup {HandAt(c, Page(q.i))}
      BY <1>3, HandTakes
    <2> QED BY <1>2, <2>1, <2>2, OwnedParts, Tags
  <1> QED BY <1>4, Moves, AtPlace, Tags

LEMMA MergeOneWhole ==
    ASSUME TypeOK, Whole(Owned), NEW c \in CPUs, MergeOne(c)
    PROVE  Whole(Owned')
  <1> DEFINE b == cpu[c].blk
             g == page_find_buddy(b)
             d == find_combined(b)
             R == {HandAt(c, b), FreeAt(g)}
  <1>1. /\ b.o < MAX_ORDER - 1 /\ g \in DOMAIN free
        /\ free' = Without(free, g) /\ pcp' = pcp /\ used' = used /\ gone' = gone
    BY DEF MergeOne, Mergeable, page_is_buddy
  <1>2. HandAt(c, b) \in Owned /\ FreeAt(g) \in Owned /\ HandAt(c, b)[3] = b /\ FreeAt(g)[3] = g
    BY <1>1, AtPlace, Tags DEF MergeOne, At, Carries
  <1>3. b \in Block /\ InZone(b) /\ g \in Block /\ InZone(g)
    BY <1>2 DEF Whole
  <1>4. d \in Block /\ InZone(d) /\ Pages(d) = Pages(b) \cup Pages(g)
    BY <1>1, <1>3, Combines
  <1>5. cpu[c] \in Cpu
    BY DEF TypeOK
  <1>6. /\ cpu'[c].pc \in Carries /\ cpu'[c].blk = d
        /\ \A e \in CPUs \ {c} : cpu'[e] = cpu[e]
    BY <1>5 DEF MergeOne, TypeOK, At, Carries, Cpu
  <1>7. Owned' = (Owned \ R) \cup {HandAt(c, d)}
    <2>1. FreeOf(free') = FreeOf(free) \ {FreeAt(g)}
      BY <1>1, FreeSteps
    <2>2. HandOf(cpu') = (HandOf(cpu) \ {HandAt(c, b)}) \cup {HandAt(c, d)}
      BY <1>6, HandStep
    <2> QED BY <1>1, <2>1, <2>2, OwnedParts, Tags
  <1>8. Cover({HandAt(c, d)}) = Cover(R)
    BY <1>2, <1>4, Tags DEF Cover
  <1>9. Apart({HandAt(c, d)}) /\ \A x \in {HandAt(c, d)} : x[3] \in Block /\ InZone(x[3])
    BY <1>4, Tags DEF Apart
  <1>10. R \subseteq Owned
    BY <1>2
  <1> HIDE DEF R, b, g, d
  <1> QED BY <1>7, <1>8, <1>9, <1>10, Regroup

LEMMA FreeOneWhole ==
    ASSUME TypeOK, Whole(Owned), NEW c \in CPUs, __free_one_page(c)
    PROVE  Whole(Owned')
  <1> DEFINE b == cpu[c].blk
  <1>1. free' = With(free, b, cpu[c].mt) /\ pcp' = pcp /\ used' = used /\ gone' = gone
    BY DEF __free_one_page
  <1>2. cpu'[c].pc \notin Carries /\ \A d \in CPUs \ {c} : cpu'[d] = cpu[d]
    BY DEF __free_one_page, TypeOK, Carries, Idle
  <1>3. HandAt(c, b) \in Owned /\ HandAt(c, b)[3] = b
    BY AtPlace, Tags DEF __free_one_page, At, Carries
  <1>4. Owned' = (Owned \ {HandAt(c, b)}) \cup {FreeAt(b)}
    <2>1. FreeOf(free') = FreeOf(free) \cup {FreeAt(b)}
      BY <1>1, FreeSteps
    <2>2. HandOf(cpu') = HandOf(cpu) \ {HandAt(c, b)}
      BY <1>2, HandStep
    <2> QED BY <1>1, <2>1, <2>2, OwnedParts, Tags
  <1> QED BY <1>3, <1>4, Moves, Tags

LEMMA SplitWhole ==
    ASSUME TypeOK, Whole(Owned), NEW b \in used, split_page(b)
    PROVE  Whole(Owned')
  <1> DEFINE A == {UsedAt(Page(p)) : p \in Pages(b)}
  <1>1. UsedAt(b) \in Owned /\ UsedAt(b)[3] = b /\ b \in Block /\ InZone(b)
    BY AtPlace, Tags DEF Whole
  <1>2. \A p \in Pages(b) : p \in Nat /\ p < ZonePages
    <2>1. b.i \in Nat /\ b.o \in Order /\ Size[b.o] \in Nat
      BY <1>1, BlockFields
    <2>2. Head(b) \in Nat /\ \A p \in Pages(b) : p \in Nat /\ p < Head(b) + Size[b.o]
      BY <2>1, InPages
    <2> QED BY <1>1, <2>1, <2>2, SizeFacts DEF InZone
  <1>3. \A p \in Pages(b) : Pages(Page(p)) = {p} /\ Page(p) \in Block /\ InZone(Page(p))
    BY <1>2, SinglePage
  <1>4. Owned' = (Owned \ {UsedAt(b)}) \cup A
    <2>1. UsedOf(used') = (UsedOf(used) \ {UsedAt(b)}) \cup A
      BY DEF split_page, UsedOf, UsedAt
    <2>2. free' = free /\ pcp' = pcp /\ gone' = gone /\ cpu' = cpu
      BY DEF split_page
    <2>3. \A x \in A : x[1] = "used"
      BY Tags
    <2> QED BY <2>1, <2>2, <2>3, OwnedParts, Tags
  <1>5. Apart(A)
    BY <1>3, Tags DEF Apart
  <1>6. \A x \in A : x[3] \in Block /\ InZone(x[3])
    BY <1>3, Tags
  <1>7. Cover(A) = Cover({UsedAt(b)})
    <2>1. Cover(A) = Pages(b)
      BY <1>3, Tags DEF Cover
    <2>2. Cover({UsedAt(b)}) = Pages(b)
      BY <1>1 DEF Cover
    <2> QED BY <2>1, <2>2
  <1> HIDE DEF A
  <1> QED BY <1>1, <1>4, <1>5, <1>6, <1>7, Regroup

LEMMA OfflineWhole ==
    ASSUME TypeOK, Whole(Owned), NEW c \in CPUs, NEW r \in Block, __offline_isolated_pages(c, r)
    PROVE  Whole(Owned')
  <1> DEFINE range == {b \in DOMAIN free : Pages(b) \cap Pages(r) # {}}
             R == {FreeAt(b) : b \in range}
             A == {GoneAt(b) : b \in range}
  <1>1. /\ free' = [b \in DOMAIN free \ range |-> free[b]] /\ gone' = gone \cup range
        /\ pcp' = pcp /\ used' = used /\ cpu' = cpu
    BY DEF __offline_isolated_pages
  <1>2. R \subseteq Owned
    BY AtPlace
  <1>3. Owned' = (Owned \ R) \cup A
    <2>1. FreeOf(free') = FreeOf(free) \ R
      <3>1. DOMAIN free' = DOMAIN free \ range
        BY <1>1
      <3> HIDE DEF range
      <3> QED BY <3>1 DEF FreeOf, FreeAt
    <2>2. GoneOf(gone') = GoneOf(gone) \cup A
      <3> HIDE DEF range
      <3> QED BY <1>1 DEF GoneOf, GoneAt
    <2>3. (\A x \in R : x[1] = "free") /\ (\A x \in A : x[1] = "gone")
      BY Tags
    <2> HIDE DEF R, A
    <2> QED BY <1>1, <2>1, <2>2, <2>3, OwnedParts, Tags
  <1>4. Apart(A)
    <2> SUFFICES ASSUME NEW x \in range, NEW y \in range, x # y
                 PROVE  Pages(x) \cap Pages(y) = {}
      BY Tags DEF Apart
    <2>1. FreeAt(x) \in Owned /\ FreeAt(y) \in Owned /\ FreeAt(x)[3] = x /\ FreeAt(y)[3] = y
      BY AtPlace, Tags
    <2> QED BY <2>1 DEF Whole, Apart
  <1>5. \A x \in A : x[3] \in Block /\ InZone(x[3])
    BY AtPlace, Tags DEF Whole
  <1>6. Cover(A) = Cover(R)
    BY Tags DEF Cover
  <1> HIDE DEF A, R
  <1> QED BY <1>2, <1>3, <1>4, <1>5, <1>6, Regroup

-----------------------------------------------------------------------------
(* The steps that leave every block where it is.                             *)

\* No list changes and the processors keep what they have in hand.
LEMMA StaysWhole ==
    ASSUME Whole(Owned), NEW c \in CPUs, DOMAIN free' = DOMAIN free, pcp' = pcp,
           used' = used, gone' = gone, \A d \in CPUs \ {c} : cpu'[d] = cpu[d],
           \/ cpu[c].pc \notin Carries /\ cpu'[c].pc \notin Carries
           \/ /\ cpu[c].pc \in Carries /\ cpu'[c].pc \in Carries
              /\ cpu'[c].blk = cpu[c].blk
    PROVE  Whole(Owned')
  <1>1. FreeOf(free') = FreeOf(free)
    BY DEF FreeOf
  <1>2. HandOf(cpu') = HandOf(cpu)
    BY HandTakes, HandKeeps
  <1>3. Owned' = Owned
    BY <1>1, <1>2, OwnedParts
  <1> QED BY <1>3

\* The same with no processor involved.
LEMMA ListsStayWhole ==
    ASSUME Whole(Owned), DOMAIN free' = DOMAIN free, pcp' = pcp, used' = used, gone' = gone, cpu' = cpu
    PROVE  Whole(Owned')
  <1>1. FreeOf(free') = FreeOf(free)
    BY DEF FreeOf
  <1>2. Owned' = Owned
    BY <1>1, OwnedParts
  <1> QED BY <1>2

LEMMA RmqueueWhole ==
    ASSUME TypeOK, Whole(Owned), NEW c \in CPUs,
           __rmqueue_smallest(c) \/ __rmqueue_fallback(c) \/ RetryReserve(c)
    PROVE  Whole(Owned')
  <1>1. CASE __rmqueue_smallest(c) \/ RetryReserve(c)
    <2>1. PICK b \in DOMAIN free : \E on : Grab(c, b, free, on)
      BY <1>1 DEF __rmqueue_smallest, RetryReserve, Smallest
    <2>2. At(c, "rmqueue")
      BY <1>1 DEF __rmqueue_smallest, RetryReserve, NothingElse
    <2>3. PICK on : Grab(c, b, free, on)
      BY <2>1
    <2> QED BY <2>2, <2>3, GrabWhole
  <1>2. CASE __rmqueue_fallback(c)
    <2>1. PICK b \in DOMAIN free : Steal(c, b)
      BY <1>2 DEF __rmqueue_fallback, Fallback
    <2>2. PICK f, on : Grab(c, b, f, on) /\ DOMAIN f = DOMAIN free
      <3>1. \A k, mt : DOMAIN move_freepages_block(k, mt) = DOMAIN free
        BY DEF move_freepages_block
      <3> QED BY <2>1, <3>1, Zenon DEF Steal
    <2> QED BY <1>2, <2>2, GrabWhole DEF __rmqueue_fallback
  <1> QED BY <1>1, <1>2

LEMMA CpuStaysWhole ==
    ASSUME TypeOK, Whole(Owned), NEW c \in CPUs,
           \/ \E order \in Orders, mt \in AllocTypes : buffered_rmqueue(c, order, mt)
           \/ RmqueueFails(c) \/ RmqueueGot(c) \/ free_one_page(c) \/ free_pcppages_bulk(c)
           \/ DrainEnd(c) \/ drain_pages(c) \/ drain_zone_pages(c)
    PROVE  Whole(Owned')
  <1>1. cpu[c] \in Cpu /\ cpu \in [CPUs -> Cpu]
    BY DEF TypeOK
  <1>2. free' = free /\ pcp' = pcp /\ used' = used /\ gone' = gone
    BY DEF buffered_rmqueue, RmqueueFails, RmqueueGot, free_one_page, free_pcppages_bulk,
           DrainEnd, drain_pages, drain_zone_pages
  <1>3. CASE RmqueueGot(c) \/ free_one_page(c)
    <2>1. /\ \A d \in CPUs \ {c} : cpu'[d] = cpu[d]
          /\ cpu[c].pc \in Carries /\ cpu'[c].pc \in Carries /\ cpu'[c].blk = cpu[c].blk
      BY <1>1, <1>3 DEF RmqueueGot, free_one_page, At, Carries, Cpu
    <2> QED BY <1>2, <2>1, StaysWhole
  <1>4. CASE \E order \in Orders, mt \in AllocTypes : buffered_rmqueue(c, order, mt)
    <2>1. /\ \A d \in CPUs \ {c} : cpu'[d] = cpu[d]
          /\ cpu[c].pc \notin Carries /\ cpu'[c].pc \notin Carries
      BY <1>1, <1>4 DEF buffered_rmqueue, At, Carries
    <2> QED BY <1>2, <2>1, StaysWhole
  <1>5. CASE RmqueueFails(c) \/ free_pcppages_bulk(c) \/ DrainEnd(c)
    <2>1. /\ \A d \in CPUs \ {c} : cpu'[d] = cpu[d]
          /\ cpu[c].pc \notin Carries /\ cpu'[c].pc \notin Carries
      BY <1>1, <1>5 DEF RmqueueFails, NothingElse, free_pcppages_bulk, DrainEnd, At, Carries, Idle, Cpu
    <2> QED BY <1>2, <2>1, StaysWhole
  <1>6. CASE drain_pages(c) \/ drain_zone_pages(c)
    <2>1. /\ \A d \in CPUs \ {c} : cpu'[d] = cpu[d]
          /\ cpu[c].pc \notin Carries /\ cpu'[c].pc \notin Carries
      BY <1>1, <1>6 DEF drain_pages, drain_zone_pages, Draining, At, Carries
    <2> QED BY <1>2, <2>1, StaysWhole
  <1> QED BY <1>3, <1>4, <1>5, <1>6

LEMMA BlocksStayWhole ==
    ASSUME Whole(Owned),
           \/ \E k \in Pageblocks : set_migratetype_isolate(k) \/ unset_migratetype_isolate(k)
           \/ \E n \in 0 .. 2 : setup_zone_migrate_reserve(n)
           \/ UNCHANGED vars
    PROVE  Whole(Owned')
  <1>1. DOMAIN free' = DOMAIN free
    <2>1. \A k, mt : DOMAIN move_freepages_block(k, mt) = DOMAIN free
      BY DEF move_freepages_block
    <2> QED BY <2>1 DEF set_migratetype_isolate, unset_migratetype_isolate, setup_zone_migrate_reserve, vars
  <1>2. pcp' = pcp /\ used' = used /\ gone' = gone /\ cpu' = cpu
    BY DEF set_migratetype_isolate, unset_migratetype_isolate, setup_zone_migrate_reserve, vars
  <1> QED BY <1>1, <1>2, ListsStayWhole

\* Every step keeps every page in one place.
LEMMA NextWhole ==
    ASSUME TypeOK, Whole(Owned), [Next]_vars
    PROVE  Whole(Owned')
  <1>1. ASSUME NEW c \in CPUs, Alloc(c) PROVE Whole(Owned')
    BY <1>1, AllocHotWhole, CpuStaysWhole DEF Alloc
  <1>2. ASSUME NEW c \in CPUs, Rmqueue(c) PROVE Whole(Owned')
    BY <1>2, RmqueueWhole, CpuStaysWhole, ExpandWhole, BulkGotWhole, BulkEndWhole, AccountWhole
       DEF Rmqueue
  <1>3. ASSUME NEW c \in CPUs, Free(c) PROVE Whole(Owned')
    BY <1>3, FreePagesWhole, FreeHotWhole, DrainOneWhole, MergeOneWhole, FreeOneWhole, CpuStaysWhole
       DEF Free
  <1> QED BY <1>1, <1>2, <1>3, BlocksStayWhole, OfflineWhole, SplitWhole DEF Next

\* memmap_init_zone: the callers have everything, in blocks as large as the
\* zone allows.
LEMMA InitWhole ==
    ASSUME Init
    PROVE  Whole(Owned)
  <1>1. \A x \in Owned : x[1] = "used" /\ x = UsedAt(x[3]) /\ x[3] \in Block /\ Largest(x[3])
    <2>1. FreeOf(free) = {} /\ GoneOf(gone) = {} /\ PcpOf(pcp) = {} /\ HandOf(cpu) = {}
      BY DEF Init, FreeOf, GoneOf, PcpOf, HandOf, Idle, Carries
    <2>2. Owned = UsedOf(used)
      BY <2>1, OwnedParts
    <2> QED BY <2>2 DEF UsedOf, UsedAt, Init
  <1>2. \A x \in Owned : InZone(x[3])
    BY <1>1 DEF Largest
  <1>3. Apart(Owned)
    <2> SUFFICES ASSUME NEW x \in Owned, NEW y \in Owned, Pages(x[3]) \cap Pages(y[3]) # {}
                 PROVE  x = y
      BY DEF Apart
    <2>1. x[3] = y[3]
      <3>1. x[3].o \in Int /\ y[3].o \in Int
        BY <1>1, BlockFields
      <3>2. CASE x[3].o <= y[3].o
        BY <1>1, <3>2, LargestApart
      <3>3. CASE y[3].o <= x[3].o
        BY <1>1, <3>3, LargestApart
      <3> QED BY <3>1, <3>2, <3>3
    <2> QED BY <1>1, <2>1
  <1>4. 0 .. ZonePages - 1 \subseteq Cover(Owned)
    <2> SUFFICES ASSUME NEW p \in 0 .. ZonePages - 1 PROVE p \in Cover(Owned)
      OBVIOUS
    <2>1. PICK b \in Block : Largest(b) /\ p \in Pages(b)
      BY LargestCover
    <2>2. b \in used
      BY <2>1 DEF Init
    <2>3. UsedAt(b) \in Owned /\ UsedAt(b)[3] = b
      BY <2>2, AtPlace, Tags
    <2> QED BY <2>1, <2>3 DEF Cover
  <1> QED BY <1>1, <1>2, <1>3, <1>4 DEF Whole

-----------------------------------------------------------------------------
(* The loops of rmqueue_bulk and free_pcppages_bulk, and pcp->count.         *)

\* What processor c is doing, with n pages on its lists and k in pcp->count:
\* rmqueue_bulk has put done pages on the lists that are not counted yet, and
\* free_pcppages_bulk was asked for done pages, has todo of them to go and
\* leaves the count to its caller.
Loop(s, n, k) ==
    /\ s.pc \in {"idle", "account", "freeing"} => n = k
    /\ s.pc \in {"rmqueue", "expand", "bulkend"} =>
          /\ n = k + s.done /\ s.mt \in MIGRATE_PCPTYPES
          /\ s.want > 0 => s.done = 0
    /\ s.pc \in {"rmqueue", "expand"} => s.todo >= 1
    /\ s.pc = "expand" => s.want <= s.blk.o
    /\ s.pc = "account" => s.want = s.blk.o
    /\ s.pc = "freeing" => s.why = "one" /\ s.todo = 0
    /\ s.pc = "merge" /\ s.why = "one" => n = k /\ s.todo = 0
    /\ s.pc = "drainlock" => s.todo = s.done
    /\ s.pc \in {"drainlock", "drain"} => s.why # "one"
    /\ s.pc \in {"drainlock", "drain", "merge"} /\ s.why # "one" =>
          /\ n = k - s.done + s.todo /\ s.done <= k
          /\ s.why = "all" => s.done = k

Loops ==
    \A c \in CPUs : IsFiniteSet(pcp[c]) /\ Loop(cpu[c], Cardinality(pcp[c]), count[c])

\* The inductive invariant.
IInv == TypeOK /\ Whole(Owned) /\ Loops

\* A block of the zone is in one of its pageblocks.
LEMMA PageblockIn ==
    ASSUME NEW b \in Block, InZone(b)
    PROVE  PageblockOf(b) \in Pageblocks
  <1> DEFINE n == pageblock_nr_pages
             h == Head(b)
             z == ZonePages - 1
  <1>1. n \in Nat /\ n > 0
    BY ZoneAssumption, SizeFacts DEF pageblock_nr_pages
  <1>2. h \in Nat /\ z \in Nat /\ h <= z
    BY InPages, BlockFields, SizeFacts DEF InZone
  <1>3. PageblockOf(b) = h \div n /\ Pageblocks = 0 .. z \div n
    BY DEF PageblockOf, Pageblocks
  <1> HIDE DEF n, h, z
  <1>4. h \div n \in Nat /\ z \div n \in Nat /\ h \div n <= z \div n
    BY <1>1, <1>2, Z3
  <1> QED BY <1>3, <1>4

\* What Whole says of the next state's lists.
LEMMA BlocksAre ==
    ASSUME Whole(Owned')
    PROVE  /\ DOMAIN free' \subseteq Block /\ used' \subseteq Block /\ gone' \subseteq Block
           /\ \A c \in CPUs : cpu'[c].pc \in Carries => cpu'[c].blk \in Block
  <1>1. \A b \in DOMAIN free' : FreeAt(b) \in Owned'
    BY OwnedParts DEF FreeOf, FreeAt
  <1>2. \A b \in used' : UsedAt(b) \in Owned'
    BY OwnedParts DEF UsedOf, UsedAt
  <1>3. \A b \in gone' : GoneAt(b) \in Owned'
    BY OwnedParts DEF GoneOf, GoneAt
  <1>4. \A c \in CPUs : cpu'[c].pc \in Carries => HandAt(c, cpu'[c].blk) \in Owned'
    BY OwnedParts DEF HandOf, HandAt
  <1> QED BY <1>1, <1>2, <1>3, <1>4, Tags DEF Whole

\* Only processor c has moved.
LEMMA LoopStep ==
    ASSUME Loops, NEW c \in CPUs,
           \A d \in CPUs \ {c} : cpu'[d] = cpu[d] /\ pcp'[d] = pcp[d] /\ count'[d] = count[d],
           IsFiniteSet(pcp'[c]), Loop(cpu'[c], Cardinality(pcp'[c]), count'[c])
    PROVE  Loops'
  BY DEF Loops

\* A page more, a page less.
LEMMA OneMore ==
    ASSUME NEW S, IsFiniteSet(S), NEW q
    PROVE  /\ Cardinality(S) \in Nat
           /\ q \notin S => IsFiniteSet(S \cup {q}) /\ Cardinality(S \cup {q}) = Cardinality(S) + 1
           /\ q \in S => IsFiniteSet(S \ {q}) /\ Cardinality(S \ {q}) = Cardinality(S) - 1
  BY FS_CardinalityType, FS_AddElement, FS_RemoveElement

\* The page in a processor's hand is on none of its lists.
LEMMA NotOnList ==
    ASSUME Whole(Owned), NEW c \in CPUs, cpu[c].pc \in Carries, NEW q \in pcp[c],
           cpu[c].blk.o = 0, q.i = cpu[c].blk.i
    PROVE  FALSE
  <1> DEFINE b == cpu[c].blk
  <1>1. HandAt(c, b) \in Owned /\ PcpAt(c, q) \in Owned /\ HandAt(c, b) # PcpAt(c, q)
    BY AtPlace, Tags
  <1>2. b \in Block /\ Pages(b) \cap Pages(Page(q.i)) = {}
    BY <1>1, Tags DEF Whole, Apart
  <1>3. Page(q.i) = b
    BY <1>2, BlockFields DEF Page
  <1>4. Head(b) \in Pages(b)
    BY <1>2, BlockFields, InPages
  <1> QED BY <1>2, <1>3, <1>4

\* What the invariant says of one processor.
LEMMA CpuFacts ==
    ASSUME IInv, NEW c \in CPUs
    PROVE  /\ IsFiniteSet(pcp[c]) /\ Cardinality(pcp[c]) \in Nat /\ count[c] \in Int
           /\ Loop(cpu[c], Cardinality(pcp[c]), count[c])
           /\ cpu[c] \in Cpu /\ pcp[c] \subseteq PcpPage
           /\ cpu[c].pc \in Steps /\ cpu[c].blk \in Block /\ cpu[c].want \in Order
           /\ cpu[c].mt \in MIGRATE_TYPES /\ cpu[c].on \in MIGRATE_TYPES
           /\ cpu[c].todo \in Nat /\ cpu[c].done \in Nat
           /\ cpu[c].why \in {"one", "high", "zone", "all"}
           /\ cpu[c].want \in Int /\ cpu[c].want >= 0
  <1>1. /\ IsFiniteSet(pcp[c]) /\ Loop(cpu[c], Cardinality(pcp[c]), count[c])
        /\ cpu[c] \in Cpu /\ pcp[c] \subseteq PcpPage /\ count[c] \in Int
    BY DEF IInv, Loops, TypeOK
  <1>2. Cardinality(pcp[c]) \in Nat
    BY <1>1, FS_CardinalityType
  <1> QED BY <1>1, <1>2, SizeFacts DEF Cpu, Order

\* Page 0, order 0, and an idle or a draining processor are what they should be.
LEMMA Records ==
    /\ Page(0) \in Block /\ 0 \in Order
    /\ Idle \in Cpu /\ \A n, k : n = k => Loop(Idle, n, k)
    /\ \A n \in Nat : \A why \in {"high", "zone", "all"} : Draining(n, why) \in Cpu
    /\ \A n, k \in Nat : \A why \in {"high", "zone", "all"} :
          n <= k /\ (why = "all" => n = k) => Loop(Draining(n, why), k, k)
  <1>1. Page(0) \in Block /\ 0 \in Order
    BY SinglePage, SizeFacts
  <1>2. Idle \in Cpu
    BY <1>1 DEF Idle, Cpu, Steps, MIGRATE_TYPES, MIGRATE_PCPTYPES
  <1>3. \A n, k : n = k => Loop(Idle, n, k)
    BY DEF Idle, Loop
  <1>4. \A n \in Nat : \A why \in {"high", "zone", "all"} : Draining(n, why) \in Cpu
    BY <1>1 DEF Draining, Cpu, Steps, MIGRATE_TYPES, MIGRATE_PCPTYPES
  <1>5. \A n, k \in Nat : \A why \in {"high", "zone", "all"} :
           n <= k /\ (why = "all" => n = k) => Loop(Draining(n, why), k, k)
    BY DEF Draining, Loop
  <1> QED BY <1>1, <1>2, <1>3, <1>4, <1>5

\* The types of what one processor may change.
LEMMA TypeStep ==
    ASSUME TypeOK, Whole(Owned'), NEW c \in CPUs, NEW s \in Cpu, cpu' = [cpu EXCEPT ![c] = s],
           free' \in [DOMAIN free' -> MIGRATE_TYPES], nr_free' \in [Order -> Int], nr_pages' \in Int,
           pcp' \in [CPUs -> SUBSET PcpPage], count' \in [CPUs -> Int],
           blockmt' \in [Pageblocks -> MIGRATE_TYPES], lock' \in CPUs \cup {NoCPU}, pending' \subseteq CPUs
    PROVE  TypeOK'
  <1>1. cpu' \in [CPUs -> Cpu]
    BY DEF TypeOK
  <1> QED BY <1>1, BlocksAre DEF TypeOK

LEMMA AllocHotKeeps ==
    ASSUME IInv, Whole(Owned'), NEW c \in CPUs, NEW mt \in AllocTypes, AllocHot(c, mt)
    PROVE  TypeOK' /\ Loops'
  <1>1. PICK q \in pcp[c] : pcp' = [pcp EXCEPT ![c] = @ \ {q}]
    BY DEF AllocHot, Take
  <1>2. cpu' = cpu /\ count' = [count EXCEPT ![c] = @ - 1] /\ cpu[c].pc = "idle"
    BY DEF AllocHot, At
  <1>3. TypeOK /\ Loops
    BY DEF IInv
  <1>4. TypeOK'
    BY <1>1, <1>2, <1>3, BlocksAre DEF TypeOK, AllocHot
  <1>5. IsFiniteSet(pcp'[c]) /\ Cardinality(pcp'[c]) = Cardinality(pcp[c]) - 1
    BY <1>1, <1>3, CpuFacts, OneMore DEF TypeOK
  <1>6. count'[c] = count[c] - 1
    BY <1>2, <1>3 DEF TypeOK
  <1>7. Loop(cpu'[c], Cardinality(pcp'[c]), count'[c])
    BY <1>2, <1>5, <1>6, CpuFacts DEF Loop
  <1>8. \A d \in CPUs \ {c} : cpu'[d] = cpu[d] /\ pcp'[d] = pcp[d] /\ count'[d] = count[d]
    BY <1>1, <1>2, <1>3 DEF TypeOK
  <1> QED BY <1>3, <1>4, <1>5, <1>7, <1>8, LoopStep

LEMMA BufferedKeeps ==
    ASSUME IInv, Whole(Owned'), NEW c \in CPUs, NEW order \in Orders, NEW mt \in AllocTypes,
           buffered_rmqueue(c, order, mt)
    PROVE  TypeOK' /\ Loops'
  <1> DEFINE s == [pc |-> "rmqueue", blk |-> Page(0), want |-> order, mt |-> mt, on |-> mt,
                   todo |-> IF order = 0 THEN batch ELSE 1, done |-> 0, why |-> "one"]
  <1>1. TypeOK /\ Loops
    BY DEF IInv
  <1>2. cpu' = [cpu EXCEPT ![c] = s] /\ pcp' = pcp /\ count' = count /\ cpu[c].pc = "idle"
    BY DEF buffered_rmqueue, At
  <1>3. s \in Cpu /\ s.todo >= 1 /\ mt \in MIGRATE_PCPTYPES
    BY Records, CallerAssumption DEF Cpu, Steps, MIGRATE_TYPES, Order
  <1>4. TypeOK'
    BY <1>1, <1>2, <1>3, TypeStep DEF buffered_rmqueue, TypeOK
  <1>5. cpu'[c] = s /\ \A d \in CPUs \ {c} : cpu'[d] = cpu[d]
    BY <1>1, <1>2 DEF TypeOK
  <1>6. Loop(s, Cardinality(pcp[c]), count[c])
    BY <1>2, <1>3, CpuFacts DEF Loop
  <1> HIDE DEF s
  <1> QED BY <1>1, <1>2, <1>4, <1>5, <1>6, CpuFacts, LoopStep

LEMMA GrabKeeps ==
    ASSUME IInv, Whole(Owned'), NEW c \in CPUs, NEW b \in DOMAIN free, NEW f, NEW on \in MIGRATE_TYPES,
           Grab(c, b, f, on), f \in [DOMAIN free -> MIGRATE_TYPES], At(c, "rmqueue"),
           b.o >= cpu[c].want, blockmt' \in [Pageblocks -> MIGRATE_TYPES]
    PROVE  TypeOK' /\ Loops'
  <1> DEFINE s == [pc |-> "expand", blk |-> b, want |-> cpu[c].want, mt |-> cpu[c].mt, on |-> on,
                   todo |-> cpu[c].todo, done |-> cpu[c].done, why |-> cpu[c].why]
  <1>1. TypeOK /\ Loops /\ b \in Block
    BY DEF IInv, TypeOK
  <1>2. cpu' = [cpu EXCEPT ![c] = s] /\ pcp' = pcp /\ count' = count /\ cpu[c].pc = "rmqueue"
    BY <1>1 DEF Grab, At, TypeOK
  <1>3. s \in Cpu
    BY <1>1, CpuFacts DEF Cpu, Steps
  <1>4. free' \in [DOMAIN free' -> MIGRATE_TYPES]
    BY DEF Grab, Without
  <1>5. nr_free' \in [Order -> Int]
    BY <1>1, BlockFields DEF Grab, TypeOK
  <1>6. TypeOK'
    <2>1. /\ nr_pages' \in Int /\ pcp' \in [CPUs -> SUBSET PcpPage] /\ count' \in [CPUs -> Int]
          /\ lock' \in CPUs \cup {NoCPU} /\ pending' \subseteq CPUs
      BY <1>1 DEF Grab, TypeOK
    <2> HIDE DEF s
    <2> QED BY <1>1, <1>2, <1>3, <1>4, <1>5, <2>1, TypeStep
  <1>7. cpu'[c] = s /\ \A d \in CPUs \ {c} : cpu'[d] = cpu[d]
    BY <1>1, <1>2 DEF TypeOK
  <1>8. Loop(s, Cardinality(pcp[c]), count[c])
    BY <1>1, <1>2, CpuFacts, BlockFields DEF Loop
  <1> HIDE DEF s
  <1> QED BY <1>1, <1>2, <1>6, <1>7, <1>8, CpuFacts, LoopStep

\* Setting the type of pageblocks and moving free blocks keep the types.
LEMMA TypesMoved ==
    ASSUME TypeOK, NEW mt \in MIGRATE_TYPES
    PROVE  /\ \A K : set_pageblock_migratetype(K, mt) \in [Pageblocks -> MIGRATE_TYPES]
           /\ \A k : move_freepages_block(k, mt) \in [DOMAIN free -> MIGRATE_TYPES]
  <1>1. "unmovable" \in MIGRATE_TYPES
    BY DEF MIGRATE_TYPES, MIGRATE_PCPTYPES
  <1> QED BY <1>1 DEF TypeOK, set_pageblock_migratetype, move_freepages_block

LEMMA RmqueueKeeps ==
    ASSUME IInv, Whole(Owned'), NEW c \in CPUs,
           __rmqueue_smallest(c) \/ __rmqueue_fallback(c) \/ RetryReserve(c)
    PROVE  TypeOK' /\ Loops'
  <1>1. /\ TypeOK /\ cpu[c].mt \in MIGRATE_TYPES /\ "reserve" \in MIGRATE_TYPES
        /\ free \in [DOMAIN free -> MIGRATE_TYPES] /\ blockmt \in [Pageblocks -> MIGRATE_TYPES]
    BY CpuFacts DEF IInv, TypeOK, MIGRATE_TYPES
  <1>2. CASE __rmqueue_smallest(c) \/ RetryReserve(c)
    <2>1. PICK b \in DOMAIN free, on \in MIGRATE_TYPES : Grab(c, b, free, on) /\ b.o >= cpu[c].want
      BY <1>1, <1>2 DEF __rmqueue_smallest, RetryReserve, Smallest
    <2>2. At(c, "rmqueue") /\ blockmt' = blockmt
      BY <1>2 DEF __rmqueue_smallest, RetryReserve, NothingElse
    <2> QED BY <1>1, <2>1, <2>2, GrabKeeps
  <1>3. CASE __rmqueue_fallback(c)
    <2>1. PICK b \in DOMAIN free : Steal(c, b) /\ b.o >= cpu[c].want
      BY <1>3 DEF __rmqueue_fallback, Fallback
    <2> DEFINE mt == cpu[c].mt
               k == PageblockOf(b)
    <2>2. /\ \A K : set_pageblock_migratetype(K, mt) \in [Pageblocks -> MIGRATE_TYPES]
          /\ move_freepages_block(k, mt) \in [DOMAIN free -> MIGRATE_TYPES]
      BY <1>1, TypesMoved
    <2>3. free[b] \in MIGRATE_TYPES
      BY <1>1
    <2>4. Grab(c, b, move_freepages_block(k, mt), mt) \/ Grab(c, b, free, free[b])
      <3> DEFINE move == \/ b.o >= pageblock_order \div 2
                         \/ mt = "reclaimable"
                         \/ page_group_by_mobility_disabled
                 f == IF move THEN move_freepages_block(k, mt) ELSE free
                 on == IF move THEN mt ELSE free[b]
      <3>1. Grab(c, b, f, on)
        BY <2>1, Zenon DEF Steal
      <3>2. \/ f = move_freepages_block(k, mt) /\ on = mt
            \/ f = free /\ on = free[b]
        BY Zenon
      <3> HIDE DEF f, on
      <3> QED BY <3>1, <3>2, Zenon
    <2>5. PICK f \in [DOMAIN free -> MIGRATE_TYPES], on \in MIGRATE_TYPES : Grab(c, b, f, on)
      <3> HIDE DEF mt, k
      <3>1. mt \in MIGRATE_TYPES
        BY <1>1 DEF mt
      <3> QED BY <1>1, <2>2, <2>3, <2>4, <3>1, Zenon
    <2>6. blockmt' \in [Pageblocks -> MIGRATE_TYPES]
      BY <1>1, <2>1, <2>2, Zenon DEF Steal
    <2>7. At(c, "rmqueue")
      BY <1>3 DEF __rmqueue_fallback
    <2> QED BY <2>1, <2>5, <2>6, <2>7, GrabKeeps
  <1> QED BY <1>2, <1>3

\* Only the pc and the lock change, or the processor becomes idle.
LEMMA RmqueueFailsKeeps ==
    ASSUME IInv, Whole(Owned'), NEW c \in CPUs, RmqueueFails(c)
    PROVE  TypeOK' /\ Loops'
  <1> DEFINE s == IF cpu[c].want = 0 THEN [cpu[c] EXCEPT !.pc = "bulkend"] ELSE Idle
  <1>1. TypeOK /\ Loops
    BY DEF IInv
  <1>2. cpu' = [cpu EXCEPT ![c] = s] /\ pcp' = pcp /\ count' = count /\ cpu[c].pc = "rmqueue"
    BY <1>1 DEF RmqueueFails, NothingElse, At, TypeOK
  <1>3. s \in Cpu
    BY CpuFacts, Records DEF Cpu, Steps
  <1>4. Loop(s, Cardinality(pcp[c]), count[c])
    <2>1. CASE cpu[c].want = 0
      BY <1>2, <2>1, CpuFacts DEF Loop, Cpu
    <2>2. CASE cpu[c].want # 0
      <3>1. Cardinality(pcp[c]) = count[c]
        BY <1>2, <2>2, CpuFacts DEF Loop
      <3> QED BY <2>2, <3>1, Records
    <2> QED BY <2>1, <2>2
  <1> HIDE DEF s
  <1>5. TypeOK'
    <2>1. /\ free' = free /\ nr_free' = nr_free /\ nr_pages' = nr_pages /\ blockmt' = blockmt
          /\ pending' = pending /\ lock' \in CPUs \cup {NoCPU}
      BY <1>1 DEF RmqueueFails, TypeOK
    <2> QED BY <1>1, <1>2, <1>3, <2>1, BlocksAre DEF TypeOK
  <1>6. cpu'[c] = s /\ \A d \in CPUs \ {c} : cpu'[d] = cpu[d]
    BY <1>1, <1>2 DEF TypeOK
  <1> QED BY <1>1, <1>2, <1>4, <1>5, <1>6, CpuFacts, LoopStep

LEMMA ExpandKeeps ==
    ASSUME IInv, Whole(Owned'), NEW c \in CPUs, expand(c)
    PROVE  TypeOK' /\ Loops'
  <1> DEFINE b == cpu[c].blk
             s == [cpu[c] EXCEPT !.blk = LowerHalf(b)]
  <1>1. TypeOK /\ Loops
    BY DEF IInv
  <1>2. cpu' = [cpu EXCEPT ![c] = s] /\ pcp' = pcp /\ count' = count /\ cpu[c].pc = "expand"
    BY <1>1 DEF expand, At, TypeOK
  <1>3. b \in Block /\ b.o \in Order /\ b.o \in Int /\ b.o > cpu[c].want /\ b.o > 0
    BY CpuFacts, BlockFields DEF expand
  <1>4. LowerHalf(b) \in Block /\ LowerHalf(b).o = b.o - 1
    <2>1. HandAt(c, b) \in Owned /\ HandAt(c, b)[3] = b
      BY <1>2, AtPlace, Tags DEF Carries
    <2>2. InZone(b)
      BY <2>1 DEF IInv, Whole
    <2> QED BY <1>3, <2>2, Halves DEF LowerHalf
  <1>5. s \in Cpu
    BY <1>4, CpuFacts DEF Cpu
  <1>6. Loop(s, Cardinality(pcp[c]), count[c])
    BY <1>2, <1>3, <1>4, CpuFacts DEF Loop, Cpu
  <1>7. free' \in [DOMAIN free' -> MIGRATE_TYPES]
    BY <1>1, CpuFacts DEF expand, With, TypeOK
  <1>8. nr_free' \in [Order -> Int]
    <2>1. b.o - 1 \in Order
      BY <1>3, SizeFacts DEF Order
    <2> QED BY <1>1, <2>1 DEF expand, TypeOK
  <1> HIDE DEF s
  <1>9. TypeOK'
    <2>1. nr_pages' = nr_pages /\ blockmt' = blockmt /\ pending' = pending /\ lock' = lock
      BY DEF expand
    <2> QED BY <1>1, <1>2, <1>5, <1>7, <1>8, <2>1, BlocksAre DEF TypeOK
  <1>10. cpu'[c] = s /\ \A d \in CPUs \ {c} : cpu'[d] = cpu[d]
    BY <1>1, <1>2 DEF TypeOK
  <1> QED BY <1>1, <1>2, <1>6, <1>9, <1>10, CpuFacts, LoopStep

LEMMA BulkGotKeeps ==
    ASSUME IInv, Whole(Owned'), NEW c \in CPUs, BulkGot(c)
    PROVE  TypeOK' /\ Loops'
  <1> DEFINE b == cpu[c].blk
             q == [i |-> b.i, list |-> cpu[c].mt, private |-> cpu[c].mt]
             s == [pc |-> IF cpu[c].todo = 1 THEN "bulkend" ELSE "rmqueue",
                   blk |-> Page(0), want |-> 0, mt |-> cpu[c].mt, on |-> cpu[c].mt,
                   todo |-> cpu[c].todo - 1, done |-> cpu[c].done + 1, why |-> cpu[c].why]
  <1>1. TypeOK /\ Loops /\ Whole(Owned)
    BY DEF IInv
  <1>2. /\ cpu' = [cpu EXCEPT ![c] = s] /\ pcp' = [pcp EXCEPT ![c] = @ \cup {q}] /\ count' = count
        /\ cpu[c].pc = "expand" /\ b.o = 0
    BY <1>1 DEF BulkGot, At, TypeOK
  <1>3. cpu[c].todo >= 1 /\ cpu[c].mt \in MIGRATE_PCPTYPES /\ Cardinality(pcp[c]) = count[c] + cpu[c].done
    BY <1>2, CpuFacts DEF Loop
  <1>4. s \in Cpu
    <2>1. s.pc \in Steps /\ s.todo \in Nat /\ s.done \in Nat
      BY <1>3, CpuFacts DEF Steps
    <2> QED BY <2>1, CpuFacts, Records DEF Cpu
  <1>5. q \in PcpPage /\ q.i = b.i
    BY <1>3, CpuFacts DEF PcpPage, Block, MIGRATE_TYPES
  <1>6. q \notin pcp[c]
    BY <1>1, <1>2, <1>5, NotOnList DEF Carries
  <1>7. Loop(s, Cardinality(pcp[c]) + 1, count[c])
    BY <1>3, CpuFacts DEF Loop
  <1> HIDE DEF s, q
  <1>8. pcp'[c] = pcp[c] \cup {q} /\ \A d \in CPUs \ {c} : pcp'[d] = pcp[d]
    BY <1>1, <1>2 DEF TypeOK
  <1>9. IsFiniteSet(pcp'[c]) /\ Cardinality(pcp'[c]) = Cardinality(pcp[c]) + 1
    BY <1>6, <1>8, CpuFacts, OneMore
  <1>10. TypeOK'
    <2>1. /\ free' = free /\ nr_free' = nr_free /\ nr_pages' = nr_pages /\ blockmt' = blockmt
          /\ pending' = pending /\ lock' = lock
      BY DEF BulkGot
    <2>2. pcp' \in [CPUs -> SUBSET PcpPage]
      BY <1>1, <1>2, <1>5 DEF TypeOK
    <2> QED BY <1>1, <1>2, <1>4, <2>1, <2>2, BlocksAre DEF TypeOK
  <1>11. cpu'[c] = s /\ \A d \in CPUs \ {c} : cpu'[d] = cpu[d]
    BY <1>1, <1>2 DEF TypeOK
  <1>12. Loop(cpu'[c], Cardinality(pcp'[c]), count'[c])
    BY <1>2, <1>7, <1>9, <1>11
  <1> QED BY <1>1, <1>2, <1>8, <1>9, <1>10, <1>11, <1>12, LoopStep

LEMMA BulkEndKeeps ==
    ASSUME IInv, Whole(Owned'), NEW c \in CPUs, BulkEnd(c)
    PROVE  TypeOK' /\ Loops'
  <1>1. TypeOK /\ Loops
    BY DEF IInv
  <1>2. cpu' = [cpu EXCEPT ![c] = Idle] /\ cpu[c].pc = "bulkend"
    BY DEF BulkEnd, At
  <1>3. Cardinality(pcp[c]) = count[c] + cpu[c].done
    BY <1>2, CpuFacts DEF Loop
  <1>4. nr_pages' \in Int
    BY <1>1, CpuFacts DEF BulkEnd, TypeOK
  <1>5. /\ free' = free /\ nr_free' = nr_free /\ blockmt' = blockmt
        /\ pending' = pending /\ lock' = NoCPU
    BY DEF BulkEnd
  <1>6. cpu'[c] = Idle /\ \A d \in CPUs \ {c} : cpu'[d] = cpu[d]
    BY <1>1, <1>2 DEF TypeOK
  <1>7. CASE cpu[c].done = 0
    <2>1. pcp' = pcp /\ count' = count
      BY <1>7 DEF BulkEnd
    <2>2. Loop(cpu'[c], Cardinality(pcp'[c]), count'[c])
      BY <1>3, <1>6, <1>7, <2>1, CpuFacts, Records
    <2>3. TypeOK'
      BY <1>1, <1>2, <1>4, <1>5, <2>1, Records, BlocksAre DEF TypeOK
    <2> QED BY <1>1, <1>6, <2>1, <2>2, <2>3, CpuFacts, LoopStep
  <1>8. CASE cpu[c].done # 0
    <2>1. PICK q \in pcp[c] : pcp' = [pcp EXCEPT ![c] = @ \ {q}]
      BY <1>8 DEF BulkEnd, Take
    <2>2. count' = [count EXCEPT ![c] = @ + cpu[c].done - 1]
      BY <1>8 DEF BulkEnd
    <2>3. /\ pcp'[c] = pcp[c] \ {q} /\ count'[c] = count[c] + cpu[c].done - 1
          /\ \A d \in CPUs \ {c} : pcp'[d] = pcp[d] /\ count'[d] = count[d]
      BY <1>1, <2>1, <2>2 DEF TypeOK
    <2>4. IsFiniteSet(pcp'[c]) /\ Cardinality(pcp'[c]) = Cardinality(pcp[c]) - 1
      BY <2>1, <2>3, CpuFacts, OneMore
    <2>5. Cardinality(pcp'[c]) = count'[c]
      BY <1>3, <2>3, <2>4, CpuFacts
    <2>6. Loop(cpu'[c], Cardinality(pcp'[c]), count'[c])
      BY <1>6, <2>5, Records
    <2>7. pcp' \in [CPUs -> SUBSET PcpPage] /\ count' \in [CPUs -> Int]
      BY <1>1, <2>1, <2>2, CpuFacts DEF TypeOK
    <2>8. TypeOK'
      BY <1>1, <1>2, <1>4, <1>5, <2>7, Records, BlocksAre DEF TypeOK
    <2> QED BY <1>1, <1>6, <2>3, <2>4, <2>6, <2>8, LoopStep
  <1> QED BY <1>7, <1>8

\* Steps that change neither a list of pages nor pcp->count.
LEMMA PcpStaysKeeps ==
    ASSUME IInv, Whole(Owned'), NEW c \in CPUs, NEW s \in Cpu, cpu' = [cpu EXCEPT ![c] = s],
           Loop(s, Cardinality(pcp[c]), count[c]), pcp' = pcp, count' = count,
           free' \in [DOMAIN free' -> MIGRATE_TYPES], nr_free' \in [Order -> Int], nr_pages' \in Int,
           blockmt' = blockmt, lock' \in CPUs \cup {NoCPU}, pending' \subseteq CPUs
    PROVE  TypeOK' /\ Loops'
  <1>1. TypeOK /\ Loops
    BY DEF IInv
  <1>2. TypeOK'
    BY <1>1, BlocksAre DEF TypeOK
  <1>3. cpu'[c] = s /\ \A d \in CPUs \ {c} : cpu'[d] = cpu[d]
    BY <1>1 DEF TypeOK
  <1> QED BY <1>1, <1>2, <1>3, CpuFacts, LoopStep

LEMMA RmqueueGotKeeps ==
    ASSUME IInv, Whole(Owned'), NEW c \in CPUs, RmqueueGot(c)
    PROVE  TypeOK' /\ Loops'
  <1> DEFINE s == [cpu[c] EXCEPT !.pc = "account"]
  <1>1. TypeOK
    BY DEF IInv
  <1>2. cpu' = [cpu EXCEPT ![c] = s] /\ pcp' = pcp /\ count' = count /\ cpu[c].pc = "expand"
    BY <1>1 DEF RmqueueGot, At, TypeOK
  <1>3. s \in Cpu
    BY CpuFacts DEF Cpu, Steps
  <1>4. Loop(s, Cardinality(pcp[c]), count[c])
    BY <1>2, CpuFacts DEF Loop, Cpu, RmqueueGot
  <1>5. /\ free' \in [DOMAIN free' -> MIGRATE_TYPES] /\ nr_free' \in [Order -> Int] /\ nr_pages' \in Int
        /\ blockmt' = blockmt /\ lock' \in CPUs \cup {NoCPU} /\ pending' \subseteq CPUs
    BY <1>1 DEF RmqueueGot, TypeOK
  <1> HIDE DEF s
  <1> QED BY <1>2, <1>3, <1>4, <1>5, PcpStaysKeeps

LEMMA AccountKeeps ==
    ASSUME IInv, Whole(Owned'), NEW c \in CPUs, Account(c)
    PROVE  TypeOK' /\ Loops'
  <1>1. TypeOK
    BY DEF IInv
  <1>2. cpu' = [cpu EXCEPT ![c] = Idle] /\ pcp' = pcp /\ count' = count /\ cpu[c].pc = "account"
    BY DEF Account, At
  <1>3. Loop(Idle, Cardinality(pcp[c]), count[c])
    BY <1>2, CpuFacts, Records DEF Loop
  <1>4. nr_pages' \in Int
    <2>1. Size[cpu[c].want] \in Nat
      BY CpuFacts, SizeFacts DEF Order
    <2> QED BY <1>1, <2>1 DEF Account, TypeOK
  <1>5. /\ free' \in [DOMAIN free' -> MIGRATE_TYPES] /\ nr_free' \in [Order -> Int]
        /\ blockmt' = blockmt /\ lock' \in CPUs \cup {NoCPU} /\ pending' \subseteq CPUs
    BY <1>1 DEF Account, TypeOK
  <1> QED BY <1>2, <1>3, <1>4, <1>5, Records, PcpStaysKeeps

LEMMA FreePagesKeeps ==
    ASSUME IInv, Whole(Owned'), NEW c \in CPUs, NEW b \in used, __free_pages(c, b)
    PROVE  TypeOK' /\ Loops'
  <1> DEFINE s == [pc |-> "freeing", blk |-> b, want |-> 0, mt |-> blockmt[PageblockOf(b)],
                   on |-> "movable", todo |-> 0, done |-> 0, why |-> "one"]
  <1>1. TypeOK
    BY DEF IInv
  <1>2. cpu' = [cpu EXCEPT ![c] = s] /\ pcp' = pcp /\ count' = count /\ cpu[c].pc = "idle"
    BY DEF __free_pages, At
  <1>3. blockmt[PageblockOf(b)] \in MIGRATE_TYPES
    <2>1. UsedAt(b) \in Owned /\ UsedAt(b)[3] = b
      BY AtPlace, Tags
    <2>2. PageblockOf(b) \in Pageblocks
      BY <2>1, PageblockIn DEF IInv, Whole
    <2> QED BY <1>1, <2>2 DEF TypeOK
  <1>4. s \in Cpu
    BY <1>1, <1>3, Records DEF Cpu, Steps, MIGRATE_TYPES, MIGRATE_PCPTYPES, TypeOK
  <1>5. Loop(s, Cardinality(pcp[c]), count[c])
    BY <1>2, CpuFacts DEF Loop
  <1>6. /\ free' \in [DOMAIN free' -> MIGRATE_TYPES] /\ nr_free' \in [Order -> Int] /\ nr_pages' \in Int
        /\ blockmt' = blockmt /\ lock' \in CPUs \cup {NoCPU} /\ pending' \subseteq CPUs
    BY <1>1 DEF __free_pages, TypeOK
  <1> HIDE DEF s
  <1> QED BY <1>2, <1>4, <1>5, <1>6, PcpStaysKeeps

LEMMA FreeOnePageKeeps ==
    ASSUME IInv, Whole(Owned'), NEW c \in CPUs, free_one_page(c)
    PROVE  TypeOK' /\ Loops'
  <1> DEFINE s == [cpu[c] EXCEPT !.pc = "merge"]
  <1>1. TypeOK
    BY DEF IInv
  <1>2. cpu' = [cpu EXCEPT ![c] = s] /\ pcp' = pcp /\ count' = count /\ cpu[c].pc = "freeing"
    BY <1>1 DEF free_one_page, At, TypeOK
  <1>3. s \in Cpu
    BY CpuFacts DEF Cpu, Steps
  <1>4. Loop(s, Cardinality(pcp[c]), count[c])
    BY <1>2, CpuFacts DEF Loop, Cpu
  <1>5. nr_pages' \in Int
    BY <1>1, CpuFacts, BlockFields DEF free_one_page, TypeOK
  <1>6. /\ free' \in [DOMAIN free' -> MIGRATE_TYPES] /\ nr_free' \in [Order -> Int]
        /\ blockmt' = blockmt /\ lock' \in CPUs \cup {NoCPU} /\ pending' \subseteq CPUs
    BY <1>1 DEF free_one_page, TypeOK
  <1> HIDE DEF s
  <1> QED BY <1>2, <1>3, <1>4, <1>5, <1>6, PcpStaysKeeps

LEMMA DrainLockKeeps ==
    ASSUME IInv, Whole(Owned'), NEW c \in CPUs, free_pcppages_bulk(c)
    PROVE  TypeOK' /\ Loops'
  <1> DEFINE s == [cpu[c] EXCEPT !.pc = "drain"]
  <1>1. TypeOK
    BY DEF IInv
  <1>2. cpu' = [cpu EXCEPT ![c] = s] /\ pcp' = pcp /\ count' = count /\ cpu[c].pc = "drainlock"
    BY <1>1 DEF free_pcppages_bulk, At, TypeOK
  <1>3. s \in Cpu
    BY CpuFacts DEF Cpu, Steps
  <1>4. Loop(s, Cardinality(pcp[c]), count[c])
    BY <1>2, CpuFacts DEF Loop, Cpu
  <1>5. nr_pages' \in Int
    BY <1>1, CpuFacts DEF free_pcppages_bulk, TypeOK
  <1>6. /\ free' \in [DOMAIN free' -> MIGRATE_TYPES] /\ nr_free' \in [Order -> Int]
        /\ blockmt' = blockmt /\ lock' \in CPUs \cup {NoCPU} /\ pending' \subseteq CPUs
    BY <1>1 DEF free_pcppages_bulk, TypeOK
  <1> HIDE DEF s
  <1> QED BY <1>2, <1>3, <1>4, <1>5, <1>6, PcpStaysKeeps

LEMMA DrainBeginsKeeps ==
    ASSUME IInv, Whole(Owned'), NEW c \in CPUs, drain_pages(c) \/ drain_zone_pages(c)
    PROVE  TypeOK' /\ Loops'
  <1>1. TypeOK
    BY DEF IInv
  <1>2. pcp' = pcp /\ count' = count /\ cpu[c].pc = "idle"
    BY DEF drain_pages, drain_zone_pages, At
  <1>3. Cardinality(pcp[c]) = count[c] /\ count[c] \in Nat
    BY <1>2, CpuFacts DEF Loop
  <1> DEFINE Begins(n, why) ==
                 /\ cpu' = [cpu EXCEPT ![c] = Draining(n, why)]
                 /\ n <= count[c] /\ (why = "all" => n = count[c])
  <1>4. PICK n \in Nat, why \in {"high", "zone", "all"} : Begins(n, why)
    <2>1. CASE drain_pages(c)
      <3>1. Begins(count[c], "all")
        BY <1>3, <2>1 DEF drain_pages
      <3> QED BY <1>3, <3>1
    <2>2. CASE drain_zone_pages(c)
      <3> DEFINE n == IF count[c] >= batch THEN batch ELSE count[c]
      <3>1. n \in Nat /\ n <= count[c]
        BY <1>3, CallerAssumption
      <3>2. cpu' = [cpu EXCEPT ![c] = Draining(n, "zone")]
        BY <2>2 DEF drain_zone_pages
      <3>3. Begins(n, "zone")
        BY <3>1, <3>2
      <3> QED BY <3>1, <3>3
    <2> QED BY <2>1, <2>2
  <1>5. Draining(n, why) \in Cpu /\ Loop(Draining(n, why), Cardinality(pcp[c]), count[c])
    BY <1>3, <1>4, Records
  <1>6. /\ free' \in [DOMAIN free' -> MIGRATE_TYPES] /\ nr_free' \in [Order -> Int] /\ nr_pages' \in Int
        /\ blockmt' = blockmt /\ lock' \in CPUs \cup {NoCPU} /\ pending' \subseteq CPUs
    BY <1>1 DEF drain_pages, drain_zone_pages, TypeOK
  <1> QED BY <1>2, <1>4, <1>5, <1>6, PcpStaysKeeps

LEMMA FreeHotKeeps ==
    ASSUME IInv, Whole(Owned'), NEW c \in CPUs, free_hot_cold_page(c)
    PROVE  TypeOK' /\ Loops'
  <1> DEFINE b == cpu[c].blk
             mt == cpu[c].mt
             q == [i |-> b.i, private |-> mt, list |-> IF mt = "reserve" THEN "movable" ELSE mt]
             s == IF count[c] + 1 >= high THEN Draining(batch, "high") ELSE Idle
             k == count[c] + 1
  <1>1. TypeOK /\ Loops /\ Whole(Owned)
    BY DEF IInv
  <1>2. /\ cpu' = [cpu EXCEPT ![c] = s] /\ pcp' = [pcp EXCEPT ![c] = @ \cup {q}]
        /\ count' = [count EXCEPT ![c] = k] /\ cpu[c].pc = "freeing" /\ ~ ToZone(c)
    BY <1>1 DEF free_hot_cold_page, At, TypeOK
  <1>3. b \in Block /\ b.o = 0 /\ mt \in MIGRATE_TYPES /\ mt # "isolate"
    BY <1>2, CpuFacts, BlockFields DEF ToZone, Order
  <1>4. q \in PcpPage /\ q.i = b.i
    BY <1>3 DEF PcpPage, Block, MIGRATE_TYPES, MIGRATE_PCPTYPES
  <1>5. q \notin pcp[c]
    BY <1>1, <1>2, <1>3, <1>4, NotOnList DEF Carries
  <1>6. Cardinality(pcp[c]) = count[c] /\ k \in Nat /\ k >= 1
    BY <1>2, CpuFacts DEF Loop
  <1>7. s \in Cpu /\ Loop(s, k, k)
    BY <1>6, Records, CallerAssumption
  <1> HIDE DEF s, q
  <1>8. pcp'[c] = pcp[c] \cup {q} /\ \A d \in CPUs \ {c} : pcp'[d] = pcp[d]
    BY <1>1, <1>2 DEF TypeOK
  <1>9. IsFiniteSet(pcp'[c]) /\ Cardinality(pcp'[c]) = k
    BY <1>5, <1>6, <1>8, CpuFacts, OneMore
  <1>10. TypeOK'
    <2>1. /\ free' = free /\ nr_free' = nr_free /\ nr_pages' = nr_pages /\ blockmt' = blockmt
          /\ pending' = pending /\ lock' = lock
      BY DEF free_hot_cold_page
    <2>2. pcp' \in [CPUs -> SUBSET PcpPage] /\ count' \in [CPUs -> Int]
      BY <1>1, <1>2, <1>4, <1>6 DEF TypeOK
    <2> QED BY <1>1, <1>2, <1>7, <2>1, <2>2, BlocksAre DEF TypeOK
  <1>11. cpu'[c] = s /\ count'[c] = k /\ \A d \in CPUs \ {c} : cpu'[d] = cpu[d] /\ count'[d] = count[d]
    BY <1>1, <1>2 DEF TypeOK
  <1>12. Loop(cpu'[c], Cardinality(pcp'[c]), count'[c])
    BY <1>7, <1>9, <1>11
  <1> QED BY <1>1, <1>8, <1>9, <1>10, <1>11, <1>12, LoopStep

LEMMA DrainOneKeeps ==
    ASSUME IInv, Whole(Owned'), NEW c \in CPUs, DrainOne(c)
    PROVE  TypeOK' /\ Loops'
  <1> DEFINE S(q) == [pc |-> "merge", blk |-> Page(q.i), want |-> 0, mt |-> q.private,
                      on |-> "movable", todo |-> cpu[c].todo - 1, done |-> cpu[c].done,
                      why |-> cpu[c].why]
  <1>1. TypeOK /\ Loops
    BY DEF IInv
  <1>2. PICK q \in pcp[c] : pcp' = [pcp EXCEPT ![c] = @ \ {q}] /\ cpu' = [cpu EXCEPT ![c] = S(q)]
    BY DEF DrainOne
  <1>3. cpu[c].pc = "drain" /\ cpu[c].todo > 0 /\ count' = count
    BY DEF DrainOne, At
  <1>4. q \in PcpPage
    BY CpuFacts
  <1>5. S(q) \in Cpu
    <2>1. Page(q.i) \in Block
      BY <1>4, SinglePage, SizeFacts DEF PcpPage
    <2>2. q.private \in MIGRATE_TYPES /\ cpu[c].todo - 1 \in Nat
      BY <1>3, <1>4, CpuFacts DEF PcpPage
    <2> QED BY <2>1, <2>2, CpuFacts, Records DEF Cpu, Steps, MIGRATE_TYPES, MIGRATE_PCPTYPES
  <1>6. Loop(S(q), Cardinality(pcp[c]) - 1, count[c])
    BY <1>3, CpuFacts DEF Loop
  <1> DEFINE s == S(q)
  <1> HIDE DEF S, s
  <1>7. cpu' = [cpu EXCEPT ![c] = s] /\ s \in Cpu /\ Loop(s, Cardinality(pcp[c]) - 1, count[c])
    BY <1>2, <1>5, <1>6 DEF s
  <1>8. pcp'[c] = pcp[c] \ {q} /\ \A d \in CPUs \ {c} : pcp'[d] = pcp[d]
    BY <1>1, <1>2 DEF TypeOK
  <1>9. IsFiniteSet(pcp'[c]) /\ Cardinality(pcp'[c]) = Cardinality(pcp[c]) - 1
    BY <1>2, <1>8, CpuFacts, OneMore
  <1>10. TypeOK'
    <2>1. /\ free' = free /\ nr_free' = nr_free /\ nr_pages' = nr_pages /\ blockmt' = blockmt
          /\ pending' = pending /\ lock' = lock
      BY DEF DrainOne
    <2>2. pcp' \in [CPUs -> SUBSET PcpPage]
      BY <1>1, <1>2 DEF TypeOK
    <2> QED BY <1>1, <1>3, <1>7, <2>1, <2>2, BlocksAre DEF TypeOK
  <1>11. cpu'[c] = s /\ \A d \in CPUs \ {c} : cpu'[d] = cpu[d]
    BY <1>1, <1>7 DEF TypeOK
  <1>12. Loop(cpu'[c], Cardinality(pcp'[c]), count'[c])
    BY <1>3, <1>7, <1>9, <1>11
  <1> QED BY <1>1, <1>3, <1>8, <1>9, <1>10, <1>11, <1>12, LoopStep

LEMMA DrainEndKeeps ==
    ASSUME IInv, Whole(Owned'), NEW c \in CPUs, DrainEnd(c)
    PROVE  TypeOK' /\ Loops'
  <1> DEFINE k == IF cpu[c].why = "all" THEN 0 ELSE count[c] - cpu[c].done
  <1>1. TypeOK /\ Loops
    BY DEF IInv
  <1>2. /\ cpu' = [cpu EXCEPT ![c] = Idle] /\ count' = [count EXCEPT ![c] = k]
        /\ cpu[c].pc = "drain" /\ cpu[c].todo = 0 /\ pcp' = pcp
    BY <1>1 DEF DrainEnd, At, TypeOK
  <1>3. Cardinality(pcp[c]) = k /\ k \in Int
    BY <1>2, CpuFacts DEF Loop
  <1> HIDE DEF k
  <1>4. TypeOK'
    <2>1. /\ free' = free /\ nr_free' = nr_free /\ nr_pages' = nr_pages /\ blockmt' = blockmt
          /\ pending' = pending /\ lock' = NoCPU
      BY DEF DrainEnd
    <2>2. count' \in [CPUs -> Int]
      BY <1>1, <1>2, <1>3 DEF TypeOK
    <2> QED BY <1>1, <1>2, <2>1, <2>2, Records, BlocksAre DEF TypeOK
  <1>5. cpu'[c] = Idle /\ count'[c] = k /\ \A d \in CPUs \ {c} : cpu'[d] = cpu[d] /\ count'[d] = count[d]
    BY <1>1, <1>2 DEF TypeOK
  <1>6. Loop(cpu'[c], Cardinality(pcp'[c]), count'[c])
    BY <1>2, <1>3, <1>5, Records
  <1> QED BY <1>1, <1>2, <1>4, <1>5, <1>6, CpuFacts, LoopStep

LEMMA MergeOneKeeps ==
    ASSUME IInv, Whole(Owned'), NEW c \in CPUs, MergeOne(c)
    PROVE  TypeOK' /\ Loops'
  <1> DEFINE b == cpu[c].blk
             s == [cpu[c] EXCEPT !.blk = find_combined(b)]
  <1>1. TypeOK
    BY DEF IInv
  <1>2. cpu' = [cpu EXCEPT ![c] = s] /\ pcp' = pcp /\ count' = count /\ cpu[c].pc = "merge"
    BY <1>1 DEF MergeOne, At, TypeOK
  <1>3. cpu'[c].pc \in Carries /\ cpu'[c].blk = find_combined(b)
    BY <1>1, <1>2, CpuFacts DEF Carries, Cpu, TypeOK
  <1>4. find_combined(b) \in Block
    BY <1>3, BlocksAre
  <1>5. s \in Cpu
    BY <1>4, CpuFacts DEF Cpu
  <1>6. Loop(s, Cardinality(pcp[c]), count[c])
    BY <1>2, CpuFacts DEF Loop, Cpu
  <1>7. nr_free' \in [Order -> Int]
    BY <1>1, CpuFacts, BlockFields DEF MergeOne, TypeOK
  <1>8. free' \in [DOMAIN free' -> MIGRATE_TYPES]
    BY <1>1 DEF MergeOne, Without, TypeOK
  <1>9. nr_pages' \in Int /\ blockmt' = blockmt /\ lock' \in CPUs \cup {NoCPU} /\ pending' \subseteq CPUs
    BY <1>1 DEF MergeOne, TypeOK
  <1> HIDE DEF s
  <1> QED BY <1>2, <1>5, <1>6, <1>7, <1>8, <1>9, PcpStaysKeeps

LEMMA FreeOneKeeps ==
    ASSUME IInv, Whole(Owned'), NEW c \in CPUs, __free_one_page(c)
    PROVE  TypeOK' /\ Loops'
  <1> DEFINE t == [pc |-> "drain", blk |-> Page(0), want |-> 0, mt |-> "movable",
                   on |-> "movable", todo |-> cpu[c].todo, done |-> cpu[c].done, why |-> cpu[c].why]
             s == IF cpu[c].why = "one" THEN Idle ELSE t
  <1>1. TypeOK
    BY DEF IInv
  <1>2. cpu' = [cpu EXCEPT ![c] = s] /\ pcp' = pcp /\ count' = count /\ cpu[c].pc = "merge"
    BY <1>1 DEF __free_one_page, At, TypeOK
  <1>3. t \in Cpu
    BY CpuFacts, Records DEF Cpu, Steps, MIGRATE_TYPES, MIGRATE_PCPTYPES
  <1>4. Loop(s, Cardinality(pcp[c]), count[c])
    <2>1. CASE cpu[c].why = "one"
      <3>1. Cardinality(pcp[c]) = count[c]
        BY <1>2, <2>1, CpuFacts DEF Loop
      <3> QED BY <2>1, <3>1, Records
    <2>2. CASE cpu[c].why # "one"
      BY <1>2, <2>2, CpuFacts DEF Loop
    <2> QED BY <2>1, <2>2
  <1>5. s \in Cpu
    BY <1>3, Records
  <1>6. nr_free' \in [Order -> Int]
    BY <1>1, CpuFacts, BlockFields DEF __free_one_page, TypeOK
  <1>7. free' \in [DOMAIN free' -> MIGRATE_TYPES]
    BY <1>1, CpuFacts DEF __free_one_page, With, TypeOK
  <1>8. nr_pages' \in Int /\ blockmt' = blockmt /\ lock' \in CPUs \cup {NoCPU} /\ pending' \subseteq CPUs
    BY <1>1 DEF __free_one_page, TypeOK
  <1> HIDE DEF s, t
  <1> QED BY <1>2, <1>4, <1>5, <1>6, <1>7, <1>8, PcpStaysKeeps


\* There are finitely many blocks.
LEMMA BlockFinite == IsFiniteSet(Block)
  <1> DEFINE T == Order \X (0 .. ZonePages - 1)
             f == [b \in Block |-> <<b.o, b.i>>]
  <1>1. IsFiniteSet(Order) /\ IsFiniteSet(0 .. ZonePages - 1)
    <2>1. 0 \in Int /\ MAX_ORDER - 1 \in Int /\ ZonePages - 1 \in Int
      BY SizeFacts
    <2>2. IsFiniteSet(0 .. MAX_ORDER - 1)
      BY <2>1, FS_Interval
    <2>3. IsFiniteSet(0 .. ZonePages - 1)
      BY <2>1, FS_Interval
    <2> QED BY <2>2, <2>3 DEF Order
  <1>2. IsFiniteSet(T)
    BY <1>1, FS_Product
  <1>3. f \in [Block -> T] /\ \A x, y \in Block : f[x] = f[y] => x = y
    BY DEF Block
  <1>4. f \in Injection(Block, T)
    BY <1>3, Zenon DEF Injection, IsInjective
  <1> HIDE DEF T, f
  <1> QED BY <1>2, <1>4, FS_Injection

\* The steps that are no processor's.
LEMMA OthersKeep ==
    ASSUME IInv, Whole(Owned'),
           \/ \E k \in Pageblocks : set_migratetype_isolate(k) \/ unset_migratetype_isolate(k)
           \/ \E c \in CPUs, r \in Block : __offline_isolated_pages(c, r)
           \/ \E n \in 0 .. 2 : setup_zone_migrate_reserve(n)
           \/ \E b \in used : split_page(b)
           \/ UNCHANGED vars
    PROVE  TypeOK' /\ Loops'
  <1>1. TypeOK /\ Loops
    BY DEF IInv
  <1>2. cpu' = cpu /\ pcp' = pcp /\ count' = count
    BY DEF set_migratetype_isolate, unset_migratetype_isolate, __offline_isolated_pages,
           setup_zone_migrate_reserve, split_page, vars
  <1>3. Loops'
    BY <1>1, <1>2 DEF Loops
  <1>4. lock' \in CPUs \cup {NoCPU} /\ pending' \subseteq CPUs
    BY <1>1 DEF TypeOK, set_migratetype_isolate, unset_migratetype_isolate, __offline_isolated_pages,
           setup_zone_migrate_reserve, split_page, vars
  <1>5. "isolate" \in MIGRATE_TYPES /\ "movable" \in MIGRATE_TYPES /\ "reserve" \in MIGRATE_TYPES
    BY DEF MIGRATE_TYPES, MIGRATE_PCPTYPES
  <1>6. /\ free' \in [DOMAIN free' -> MIGRATE_TYPES] /\ blockmt' \in [Pageblocks -> MIGRATE_TYPES]
        /\ nr_free' \in [Order -> Int] /\ nr_pages' \in Int
    <2>1. CASE \E k \in Pageblocks : set_migratetype_isolate(k) \/ unset_migratetype_isolate(k)
      <3>1. PICK k \in Pageblocks, mt \in MIGRATE_TYPES :
               /\ blockmt' = set_pageblock_migratetype({k}, mt)
               /\ free' = move_freepages_block(k, mt)
        BY <1>5, <2>1 DEF set_migratetype_isolate, unset_migratetype_isolate
      <3>2. free' \in [DOMAIN free -> MIGRATE_TYPES] /\ blockmt' \in [Pageblocks -> MIGRATE_TYPES]
        BY <1>1, <3>1, TypesMoved
      <3>3. nr_free' = nr_free /\ nr_pages' = nr_pages
        BY <2>1 DEF set_migratetype_isolate, unset_migratetype_isolate
      <3> QED BY <1>1, <3>2, <3>3 DEF TypeOK
    <2>2. CASE \E c \in CPUs, r \in Block : __offline_isolated_pages(c, r)
      <3>1. PICK c \in CPUs, r \in Block : __offline_isolated_pages(c, r)
        BY <2>2
      <3> DEFINE range == {b \in DOMAIN free : Pages(b) \cap Pages(r) # {}}
                 In(o) == {b \in range : b.o = o}
      <3>2. /\ free' = [b \in DOMAIN free \ range |-> free[b]] /\ blockmt' = blockmt
            /\ nr_free' = [o \in Order |-> nr_free[o] - Cardinality(In(o))]
            /\ nr_pages' = nr_pages - Size[MAX_ORDER - 1]
        BY <3>1 DEF __offline_isolated_pages
      <3>3. \A o : Cardinality(In(o)) \in Nat
        <4> TAKE o
        <4>1. In(o) \in SUBSET Block
          BY <1>1 DEF TypeOK
        <4> HIDE DEF In
        <4> QED BY <4>1, BlockFinite, FS_Subset, FS_CardinalityType
      <3>4. Size[MAX_ORDER - 1] \in Nat
        BY SizeFacts
      <3>5. nr_free \in [Order -> Int] /\ nr_pages \in Int /\ free \in [DOMAIN free -> MIGRATE_TYPES]
        BY <1>1 DEF TypeOK
      <3> HIDE DEF range, In
      <3>6. nr_free' \in [Order -> Int] /\ nr_pages' \in Int
        BY <3>2, <3>3, <3>4, <3>5
      <3>7. free' \in [DOMAIN free' -> MIGRATE_TYPES]
        BY <3>2, <3>5
      <3> QED BY <1>1, <3>2, <3>6, <3>7 DEF TypeOK
    <2>3. CASE \E n \in 0 .. 2 : setup_zone_migrate_reserve(n)
      <3>1. PICK n \in 0 .. 2 : setup_zone_migrate_reserve(n)
        BY <2>3
      <3>2. nr_free' = nr_free /\ nr_pages' = nr_pages
        BY <3>1 DEF setup_zone_migrate_reserve
      <3>3. blockmt' \in [Pageblocks -> MIGRATE_TYPES]
        BY <1>1, <1>5, <3>1 DEF setup_zone_migrate_reserve, TypeOK
      <3>4. free' \in [DOMAIN free' -> MIGRATE_TYPES]
        BY <1>1, <1>5, <3>1 DEF setup_zone_migrate_reserve, TypeOK
      <3> QED BY <1>1, <3>2, <3>3, <3>4 DEF TypeOK
    <2>4. CASE (\E b \in used : split_page(b)) \/ UNCHANGED vars
      BY <1>1, <2>4 DEF split_page, vars, TypeOK
    <2> QED BY <2>1, <2>2, <2>3, <2>4
  <1>7. TypeOK'
    BY <1>1, <1>2, <1>4, <1>6, BlocksAre DEF TypeOK
  <1> QED BY <1>3, <1>7

LEMMA InitIInv == Init => IInv
  <1> SUFFICES ASSUME Init PROVE IInv
    OBVIOUS
  <1>1. TypeOK
    <2>1. free \in [DOMAIN free -> MIGRATE_TYPES] /\ DOMAIN free \subseteq Block
      BY DEF Init
    <2>2. blockmt \in [Pageblocks -> MIGRATE_TYPES]
      BY DEF Init, MIGRATE_TYPES, MIGRATE_PCPTYPES
    <2>3. cpu \in [CPUs -> Cpu]
      BY Records DEF Init
    <2> QED BY <2>1, <2>2, <2>3 DEF Init, TypeOK
  <1>2. Loops
    BY Records, FS_EmptySet DEF Init, Loops
  <1> QED BY <1>1, <1>2, InitWhole DEF IInv

LEMMA NextIInv == IInv /\ [Next]_vars => IInv'
  <1> SUFFICES ASSUME IInv, [Next]_vars PROVE IInv'
    OBVIOUS
  <1>1. Whole(Owned')
    BY NextWhole DEF IInv
  <1>2. ASSUME NEW c \in CPUs, Alloc(c) PROVE TypeOK' /\ Loops'
    BY <1>1, <1>2, AllocHotKeeps, BufferedKeeps DEF Alloc
  <1>3. ASSUME NEW c \in CPUs, Rmqueue(c) PROVE TypeOK' /\ Loops'
    BY <1>1, <1>3, RmqueueKeeps, RmqueueFailsKeeps, ExpandKeeps, BulkGotKeeps, BulkEndKeeps,
       RmqueueGotKeeps, AccountKeeps DEF Rmqueue
  <1>4. ASSUME NEW c \in CPUs, Free(c) PROVE TypeOK' /\ Loops'
    BY <1>1, <1>4, FreePagesKeeps, FreeOnePageKeeps, FreeHotKeeps, DrainLockKeeps, DrainOneKeeps,
       DrainEndKeeps, MergeOneKeeps, FreeOneKeeps, DrainBeginsKeeps DEF Free
  <1>5. TypeOK' /\ Loops'
    BY <1>1, <1>2, <1>3, <1>4, OthersKeep DEF Next
  <1> QED BY <1>1, <1>5, Zenon DEF IInv

\* The pages of the zone are partitioned among the places, and every loop of
\* the allocator is where its code says: what a split or a merge has in hand
\* is a proper block, and a drain has no more to free than its lists hold.
THEOREM Invariant == Spec => []IInv
  BY InitIInv, NextIInv, PTL DEF Spec

\* Every page of the zone is in exactly one place, in every state of every
\* run: with a caller, offline, on one list of the zone or of a processor, or
\* in the hands of one processor that splits, merges, hands out or gives back.
THEOREM PagesInOnePlace == Spec => []OnePlace
  <1>1. IInv => OnePlace
    BY WholeIs DEF IInv, OnePlace, Whole
  <1> QED BY <1>1, Invariant, PTL

\* free_pcppages_bulk, which looks for a list that is not empty with no other
\* way out and zone->lock held, always finds one.
THEOREM DrainNeverSpins == Spec => []DrainFinds
  <1>1. IInv => DrainFinds
    <2> SUFFICES ASSUME IInv, NEW c \in CPUs, At(c, "drain"), cpu[c].todo > 0
                 PROVE  pcp[c] # {}
      BY DEF DrainFinds
    <2>1. Cardinality(pcp[c]) >= cpu[c].todo /\ Cardinality(pcp[c]) > 0
      BY CpuFacts DEF Loop, At
    <2> QED BY <2>1, FS_EmptySet
  <1> QED BY <1>1, Invariant, PTL

-----------------------------------------------------------------------------
(* Coalescing.                                                               *)

\* Which steps put a block on a list of the zone.
LEMMA FreeGrows ==
    ASSUME [Next]_vars
    PROVE  \/ DOMAIN free' \subseteq DOMAIN free
           \/ \E c \in CPUs : expand(c) \/ __free_one_page(c)
  <1>1. ASSUME NEW c \in CPUs, Alloc(c) PROVE free' = free
    BY <1>1 DEF Alloc, AllocHot, buffered_rmqueue
  <1>2. ASSUME NEW c \in CPUs, NEW b, NEW f, NEW on, Grab(c, b, f, on), DOMAIN f = DOMAIN free
        PROVE  DOMAIN free' \subseteq DOMAIN free
    BY <1>2 DEF Grab, Without
  <1>3. \A k, mt : DOMAIN move_freepages_block(k, mt) = DOMAIN free
    BY DEF move_freepages_block
  <1>4. ASSUME NEW c \in CPUs, __rmqueue_smallest(c) \/ __rmqueue_fallback(c) \/ RetryReserve(c)
        PROVE  DOMAIN free' \subseteq DOMAIN free
    <2>1. \E b, f, on : Grab(c, b, f, on) /\ DOMAIN f = DOMAIN free
      <3>1. CASE __rmqueue_smallest(c) \/ RetryReserve(c)
        BY <3>1 DEF __rmqueue_smallest, RetryReserve
      <3>2. CASE __rmqueue_fallback(c)
        <4>1. PICK b : Steal(c, b)
          BY <3>2 DEF __rmqueue_fallback
        <4> QED BY <4>1, <1>3, Zenon DEF Steal
      <3> QED BY <1>4, <3>1, <3>2
    <2> QED BY <1>2, <2>1
  <1>5. ASSUME NEW c \in CPUs, Rmqueue(c), ~ expand(c) PROVE DOMAIN free' \subseteq DOMAIN free
    BY <1>4, <1>5 DEF Rmqueue, RmqueueFails, BulkGot, BulkEnd, RmqueueGot, Account
  <1>6. ASSUME NEW c \in CPUs, Free(c), ~ __free_one_page(c) PROVE DOMAIN free' \subseteq DOMAIN free
    <2>1. CASE MergeOne(c)
      BY <2>1 DEF MergeOne, Without
    <2> QED BY <1>6, <2>1 DEF Free, __free_pages, free_one_page, free_hot_cold_page,
               free_pcppages_bulk, DrainOne, DrainEnd, drain_pages, drain_zone_pages
  <1>7. ASSUME NEW c \in CPUs, NEW r, __offline_isolated_pages(c, r)
        PROVE  DOMAIN free' \subseteq DOMAIN free
    BY <1>7 DEF __offline_isolated_pages
  <1>8. CASE \/ \E k \in Pageblocks : set_migratetype_isolate(k) \/ unset_migratetype_isolate(k)
             \/ \E n \in 0 .. 2 : setup_zone_migrate_reserve(n)
             \/ \E b \in used : split_page(b)
             \/ UNCHANGED vars
    BY <1>3, <1>8 DEF set_migratetype_isolate, unset_migratetype_isolate, setup_zone_migrate_reserve,
                      split_page, vars
  <1> QED BY <1>1, <1>5, <1>6, <1>7, <1>8 DEF Next

\* A block whose buddy is not free can go on a list.
LEMMA CoalescedWith ==
    ASSUME TypeOK, Coalesced, NEW b \in Block, DOMAIN free' = DOMAIN free \cup {b},
           b.o < MAX_ORDER - 1 => page_find_buddy(b) \notin DOMAIN free
    PROVE  Coalesced'
  <1> SUFFICES ASSUME NEW x \in DOMAIN free', x.o < MAX_ORDER - 1
               PROVE  page_find_buddy(x) \notin DOMAIN free'
    BY DEF Coalesced
  <1>1. CASE x = b
    <2>1. page_find_buddy(b) # b
      BY BuddyOfBuddy
    <2> QED BY <1>1, <2>1
  <1>2. CASE x # b
    <2>1. x \in DOMAIN free /\ x \in Block /\ page_find_buddy(x) \notin DOMAIN free
      BY <1>2 DEF Coalesced, TypeOK
    <2>2. page_find_buddy(x) # b
      <3>1. page_find_buddy(page_find_buddy(x)) = x /\ page_find_buddy(x).o = x.o
        BY <2>1, BuddyOfBuddy
      <3> QED BY <2>1, <3>1
    <2> QED BY <2>1, <2>2
  <1> QED BY <1>1, <1>2

\* expand: the upper half's buddy is in hand; __free_one_page: the merge ends
\* only where the buddy is not free.
LEMMA NextCoalesced == IInv /\ Coalesced /\ [Next]_vars => Coalesced'
  <1> SUFFICES ASSUME IInv, Coalesced, [Next]_vars PROVE Coalesced'
    OBVIOUS
  <1>1. TypeOK /\ Whole(Owned)
    BY DEF IInv
  <1>2. CASE DOMAIN free' \subseteq DOMAIN free
    BY <1>2 DEF Coalesced
  <1>3. ASSUME NEW c \in CPUs, expand(c) PROVE Coalesced'
    <2> DEFINE b == cpu[c].blk
               u == UpperHalf(b)
    <2>1. HandAt(c, b) \in Owned /\ HandAt(c, b)[3] = b /\ HandAt(c, b)[1] = "hand"
      BY <1>3, AtPlace, Tags DEF expand, At, Carries
    <2>2. b \in Block /\ InZone(b) /\ b.o > 0
      BY <1>1, <1>3, <2>1, CpuFacts, BlockFields DEF Whole, expand
    <2>3. /\ u \in Block /\ LowerHalf(b) \in Block /\ page_find_buddy(u) = LowerHalf(b)
          /\ Pages(LowerHalf(b)) \subseteq Pages(b)
      BY <2>2, Halves
    <2>4. LowerHalf(b) \notin DOMAIN free
      <3> SUFFICES ASSUME LowerHalf(b) \in DOMAIN free PROVE FALSE
        OBVIOUS
      <3>1. FreeAt(LowerHalf(b)) \in Owned /\ FreeAt(LowerHalf(b))[3] = LowerHalf(b)
            /\ FreeAt(LowerHalf(b))[1] = "free"
        BY AtPlace, Tags
      <3>2. FreeAt(LowerHalf(b)) # HandAt(c, b)
        BY <2>1, <3>1
      <3>3. Pages(LowerHalf(b)) \cap Pages(b) = {}
        BY <1>1, <2>1, <3>1, <3>2 DEF Whole, Apart
      <3>4. Head(LowerHalf(b)) \in Pages(LowerHalf(b))
        BY <2>3, BlockFields, InPages
      <3> QED BY <2>3, <3>3, <3>4
    <2>5. DOMAIN free' = DOMAIN free \cup {u}
      BY <1>3 DEF expand, With
    <2> HIDE DEF u
    <2> QED BY <1>1, <2>3, <2>4, <2>5, CoalescedWith
  <1>4. ASSUME NEW c \in CPUs, __free_one_page(c) PROVE Coalesced'
    <2> DEFINE b == cpu[c].blk
    <2>1. b \in Block
      BY CpuFacts
    <2>2. b.o < MAX_ORDER - 1 => page_find_buddy(b) \notin DOMAIN free
      BY <1>4 DEF __free_one_page, Mergeable, page_is_buddy
    <2>3. DOMAIN free' = DOMAIN free \cup {b}
      BY <1>4 DEF __free_one_page, With
    <2> HIDE DEF b
    <2> QED BY <1>1, <2>1, <2>2, <2>3, CoalescedWith
  <1> QED BY <1>2, <1>3, <1>4, FreeGrows

\* No two free blocks are buddies, even half-way through a split or a merge:
\* what __free_one_page leaves is merged as far as it can be.
THEOREM BuddiesCoalesce == Spec => []Coalesced
  <1>1. Init => Coalesced
    BY DEF Init, Coalesced
  <1> QED BY <1>1, NextCoalesced, Invariant, PTL DEF Spec

-----------------------------------------------------------------------------
(* zone->lock and the counters.                                              *)

\* Who is inside holds the lock, and who holds the lock is inside.
Inside == {"rmqueue", "expand", "bulkend", "drain", "merge"}
LockHeld == \A c \in CPUs : cpu[c].pc \in Inside <=> lock = c

\* Processor c takes the lock, keeps it, gives it back or has nothing to do
\* with it.
LEMMA LockStep ==
    ASSUME LockHeld, NEW c \in CPUs, \A d \in CPUs \ {c} : cpu'[d] = cpu[d],
           \/ lock = NoCPU /\ lock' = c /\ cpu'[c].pc \in Inside
           \/ cpu[c].pc \in Inside /\ lock' = lock /\ cpu'[c].pc \in Inside
           \/ cpu[c].pc \in Inside /\ lock' = NoCPU /\ cpu'[c].pc \notin Inside
           \/ cpu[c].pc \notin Inside /\ lock' = lock /\ cpu'[c].pc \notin Inside
    PROVE  LockHeld'
  BY ZoneAssumption DEF LockHeld

LEMMA NextLockHeld == IInv /\ LockHeld /\ [Next]_vars => LockHeld'
  <1> SUFFICES ASSUME IInv, LockHeld, [Next]_vars PROVE LockHeld'
    OBVIOUS
  <1>1. cpu \in [CPUs -> Cpu]
    BY DEF IInv, TypeOK
  <1> DEFINE Moves1(c) ==
           /\ \A d \in CPUs \ {c} : cpu'[d] = cpu[d]
           /\ \/ lock = NoCPU /\ lock' = c /\ cpu'[c].pc \in Inside
              \/ cpu[c].pc \in Inside /\ lock' = lock /\ cpu'[c].pc \in Inside
              \/ cpu[c].pc \in Inside /\ lock' = NoCPU /\ cpu'[c].pc \notin Inside
              \/ cpu[c].pc \notin Inside /\ lock' = lock /\ cpu'[c].pc \notin Inside
  <1>2. ASSUME NEW c \in CPUs, Alloc(c) PROVE Moves1(c) \/ (cpu' = cpu /\ lock' = lock)
    BY <1>1, <1>2 DEF Alloc, AllocHot, buffered_rmqueue, Inside
  <1>3. ASSUME NEW c \in CPUs, Rmqueue(c) PROVE Moves1(c)
    <2>1. cpu[c] \in Cpu
      BY <1>1
    <2>2. ASSUME NEW b, NEW f, NEW on, Grab(c, b, f, on), At(c, "rmqueue") PROVE Moves1(c)
      BY <1>1, <2>2 DEF Grab, At, Inside
    <2>3. CASE __rmqueue_smallest(c) \/ __rmqueue_fallback(c) \/ RetryReserve(c)
      <3>1. At(c, "rmqueue")
        BY <2>3 DEF __rmqueue_smallest, __rmqueue_fallback, RetryReserve, NothingElse
      <3>2. CASE __rmqueue_smallest(c) \/ RetryReserve(c)
        BY <2>2, <3>1, <3>2 DEF __rmqueue_smallest, RetryReserve
      <3>3. CASE __rmqueue_fallback(c)
        <4>1. PICK b : Steal(c, b)
          BY <3>3 DEF __rmqueue_fallback
        <4>2. PICK f, on : Grab(c, b, f, on)
          BY <4>1, Zenon DEF Steal
        <4> QED BY <2>2, <3>1, <4>2
      <3> QED BY <2>3, <3>2, <3>3
    <2>4. CASE RmqueueFails(c)
      BY <1>1, <2>1, <2>4 DEF RmqueueFails, NothingElse, At, Inside, Idle, Cpu
    <2>5. CASE expand(c)
      BY <1>1, <2>1, <2>5 DEF expand, At, Inside, Cpu
    <2>6. CASE BulkGot(c) \/ BulkEnd(c)
      BY <1>1, <2>6 DEF BulkGot, BulkEnd, At, Inside, Idle
    <2>7. CASE RmqueueGot(c) \/ Account(c)
      BY <1>1, <2>1, <2>7 DEF RmqueueGot, Account, At, Inside, Idle, Cpu
    <2> QED BY <1>3, <2>3, <2>4, <2>5, <2>6, <2>7 DEF Rmqueue
  <1>4. ASSUME NEW c \in CPUs, Free(c) PROVE Moves1(c)
    <2>1. cpu[c] \in Cpu
      BY <1>1
    <2>2. CASE \E b \in used : __free_pages(c, b)
      BY <1>1, <2>2 DEF __free_pages, At, Inside
    <2>3. CASE free_one_page(c) \/ free_pcppages_bulk(c)
      BY <1>1, <2>1, <2>3 DEF free_one_page, free_pcppages_bulk, At, Inside, Cpu
    <2>4. CASE free_hot_cold_page(c)
      BY <1>1, <2>4 DEF free_hot_cold_page, At, Inside, Idle, Draining
    <2>5. CASE DrainOne(c) \/ DrainEnd(c)
      BY <1>1, <2>5 DEF DrainOne, DrainEnd, At, Inside, Idle
    <2>6. CASE MergeOne(c)
      BY <1>1, <2>1, <2>6 DEF MergeOne, At, Inside, Cpu
    <2>7. CASE __free_one_page(c)
      BY <1>1, <2>7 DEF __free_one_page, At, Inside, Idle
    <2>8. CASE drain_pages(c) \/ drain_zone_pages(c)
      BY <1>1, <2>8 DEF drain_pages, drain_zone_pages, At, Inside, Draining
    <2> QED BY <1>4, <2>2, <2>3, <2>4, <2>5, <2>6, <2>7, <2>8 DEF Free
  <1>5. CASE cpu' = cpu /\ lock' = lock
    BY <1>5 DEF LockHeld
  <1>6. ASSUME NEW c \in CPUs, Moves1(c) PROVE LockHeld'
    BY <1>6, LockStep
  <1>7. CASE \/ \E k \in Pageblocks : set_migratetype_isolate(k) \/ unset_migratetype_isolate(k)
             \/ \E c \in CPUs, r \in Block : __offline_isolated_pages(c, r)
             \/ \E n \in 0 .. 2 : setup_zone_migrate_reserve(n)
             \/ \E b \in used : split_page(b)
             \/ UNCHANGED vars
    <2>1. cpu' = cpu /\ lock' = lock
      BY <1>7 DEF set_migratetype_isolate, unset_migratetype_isolate, __offline_isolated_pages,
             setup_zone_migrate_reserve, split_page, vars
    <2> QED BY <1>5, <2>1
  <1> HIDE DEF Moves1
  <1> QED BY <1>2, <1>3, <1>4, <1>5, <1>6, <1>7 DEF Next

\* The pages of the blocks in D, and the blocks of one order.
Span(D) == UNION {Pages(b) : b \in D}
OfOrder(D, o) == {b \in D : b.o = o}

\* The blocks handed out and not yet subtracted.
Handed == {cpu[c].blk : c \in {d \in CPUs : At(d, "account")}}

\* The pages processor c has in hand inside: NR_FREE_PAGES counts them.
Extra(s) ==
    (IF s.pc \in {"rmqueue", "expand", "bulkend"} THEN s.done ELSE 0)
    + (IF s.pc \in {"drain", "merge"} THEN s.todo ELSE 0)
    + (IF s.pc \in {"expand", "merge"} THEN Size[s.blk.o] ELSE 0)

FreeCount == Cardinality(Span(DOMAIN free))
HandedCount == Cardinality(Span(Handed))

Lists == \A o \in Order : nr_free[o] = Cardinality(OfOrder(DOMAIN free, o))
Balance ==
    /\ lock = NoCPU => nr_pages = FreeCount + HandedCount
    /\ \A c \in CPUs : lock = c => nr_pages = FreeCount + HandedCount + Extra(cpu[c])

\* The invariant about the counters.
CInv == LockHeld /\ Lists /\ Balance

\* The blocks of D are blocks of the zone that have no page in common.
Disjoint(D) ==
    /\ \A b \in D : b \in Block /\ InZone(b)
    /\ \A b, d \in D : b # d => Pages(b) \cap Pages(d) = {}

LEMMA PagesOf ==
    ASSUME NEW b \in Block, InZone(b)
    PROVE  /\ IsFiniteSet(Pages(b)) /\ Cardinality(Pages(b)) = Size[b.o]
           /\ Pages(b) \subseteq 0 .. ZonePages - 1 /\ Pages(b) # {}
  <1>1. b.i \in Nat /\ b.o \in Order /\ Size[b.o] \in Nat /\ Size[b.o] > 0
    BY BlockFields
  <1>2. Head(b) \in Nat /\ Head(b) \in Pages(b)
    BY <1>1, InPages
  <1>3. Head(b) \in Int /\ Head(b) + Size[b.o] - 1 \in Int
    BY <1>1, <1>2
  <1>4. IsFiniteSet(Pages(b)) /\ Cardinality(Pages(b)) = Size[b.o]
    <2> DEFINE u == Head(b)
               v == Head(b) + Size[b.o] - 1
    <2>1. u \in Int /\ v \in Int /\ ~ (u > v) /\ v - u + 1 = Size[b.o]
      BY <1>1, <1>2
    <2>2. Pages(b) = u .. v
      BY DEF Pages
    <2> HIDE DEF u, v
    <2> QED BY <2>1, <2>2, FS_Interval
  <1>5. Pages(b) \subseteq 0 .. ZonePages - 1
    BY <1>1, <1>2, SizeFacts DEF Pages, InZone
  <1> QED BY <1>2, <1>4, <1>5

LEMMA SpanFinite ==
    ASSUME NEW D, Disjoint(D)
    PROVE  IsFiniteSet(Span(D)) /\ Cardinality(Span(D)) \in Nat
  <1>1. Span(D) \in SUBSET (0 .. ZonePages - 1)
    BY PagesOf DEF Span, Disjoint
  <1>2. 0 \in Int /\ ZonePages - 1 \in Int
    BY SizeFacts
  <1>3. IsFiniteSet(0 .. ZonePages - 1)
    BY <1>2, FS_Interval
  <1> QED BY <1>1, <1>3, FS_Subset, FS_CardinalityType

LEMMA SpanAdd ==
    ASSUME NEW D, Disjoint(D), NEW b \in Block, InZone(b), \A d \in D : Pages(b) \cap Pages(d) = {}
    PROVE  Cardinality(Span(D \cup {b})) = Cardinality(Span(D)) + Size[b.o]
  <1>1. Span(D \cup {b}) = Span(D) \cup Pages(b) /\ Span(D) \cap Pages(b) = {}
    BY DEF Span
  <1>2. IsFiniteSet(Span(D)) /\ Cardinality(Span(D)) \in Nat
    BY SpanFinite
  <1>3. IsFiniteSet(Pages(b)) /\ Cardinality(Pages(b)) = Size[b.o] /\ Size[b.o] \in Nat
    BY PagesOf, BlockFields
  <1>4. Cardinality(Span(D) \cup Pages(b)) =
           Cardinality(Span(D)) + Cardinality(Pages(b)) - Cardinality(Span(D) \cap Pages(b))
    BY <1>2, <1>3, FS_Union
  <1>5. Cardinality(Span(D) \cap Pages(b)) = 0
    BY <1>1, FS_EmptySet
  <1>6. Cardinality(Span(D \cup {b})) = Cardinality(Span(D) \cup Pages(b))
    BY <1>1, Zenon
  <1> QED BY <1>2, <1>3, <1>4, <1>5, <1>6

LEMMA SpanRemove ==
    ASSUME NEW D, Disjoint(D), NEW b \in D
    PROVE  Cardinality(Span(D \ {b})) = Cardinality(Span(D)) - Size[b.o]
  <1>1. Disjoint(D \ {b}) /\ b \in Block /\ InZone(b) /\ (D \ {b}) \cup {b} = D
    BY DEF Disjoint
  <1>2. \A d \in D \ {b} : Pages(b) \cap Pages(d) = {}
    BY DEF Disjoint
  <1>3. Cardinality(Span((D \ {b}) \cup {b})) = Cardinality(Span(D \ {b})) + Size[b.o]
    BY <1>1, <1>2, SpanAdd
  <1>4. Cardinality(Span(D \ {b})) \in Nat /\ Size[b.o] \in Nat
    BY <1>1, SpanFinite, BlockFields
  <1>5. Cardinality(Span(D)) = Cardinality(Span(D \ {b})) + Size[b.o]
    BY <1>1, <1>3
  <1> QED BY <1>4, <1>5

\* The lists by order.
LEMMA OrderFinite ==
    ASSUME NEW D, D \subseteq Block, NEW o
    PROVE  IsFiniteSet(OfOrder(D, o)) /\ Cardinality(OfOrder(D, o)) \in Nat
  <1>1. OfOrder(D, o) \in SUBSET Block
    BY DEF OfOrder
  <1> QED BY <1>1, BlockFinite, FS_Subset, FS_CardinalityType

LEMMA OrderSteps ==
    ASSUME NEW D, D \subseteq Block, NEW b
    PROVE  /\ b \notin D => \A o : Cardinality(OfOrder(D \cup {b}, o)) =
                 Cardinality(OfOrder(D, o)) + (IF o = b.o THEN 1 ELSE 0)
           /\ b \in D => \A o : Cardinality(OfOrder(D \ {b}, o)) =
                 Cardinality(OfOrder(D, o)) - (IF o = b.o THEN 1 ELSE 0)
  <1>1. ASSUME NEW o
        PROVE  /\ o = b.o => OfOrder(D \cup {b}, o) = OfOrder(D, o) \cup {b}
               /\ o # b.o => OfOrder(D \cup {b}, o) = OfOrder(D, o)
               /\ o = b.o => OfOrder(D \ {b}, o) = OfOrder(D, o) \ {b}
               /\ o # b.o => OfOrder(D \ {b}, o) = OfOrder(D, o)
               /\ b \notin D => b \notin OfOrder(D, o)
               /\ b \in D /\ o = b.o => b \in OfOrder(D, o)
    BY DEF OfOrder
  <1>2. ASSUME NEW o, b \notin D
        PROVE  Cardinality(OfOrder(D \cup {b}, o)) = Cardinality(OfOrder(D, o)) + (IF o = b.o THEN 1 ELSE 0)
    <2> DEFINE X == OfOrder(D, o)
    <2>1. IsFiniteSet(X) /\ Cardinality(X) \in Nat /\ b \notin X
      BY <1>1, <1>2, OrderFinite
    <2>2. CASE o = b.o
      <3>1. OfOrder(D \cup {b}, o) = X \cup {b}
        BY <1>1, <2>2
      <3> HIDE DEF X
      <3>2. Cardinality(X \cup {b}) = Cardinality(X) + 1
        BY <2>1, OneMore
      <3>3. Cardinality(OfOrder(D \cup {b}, o)) = Cardinality(X \cup {b})
        BY <3>1, Zenon
      <3> QED BY <2>2, <3>2, <3>3 DEF X
    <2>3. CASE o # b.o
      <3>1. Cardinality(OfOrder(D \cup {b}, o)) = Cardinality(X)
        BY <1>1, <2>3, Zenon
      <3> QED BY <2>1, <2>3, <3>1
    <2> QED BY <2>2, <2>3
  <1>3. ASSUME NEW o, b \in D
        PROVE  Cardinality(OfOrder(D \ {b}, o)) = Cardinality(OfOrder(D, o)) - (IF o = b.o THEN 1 ELSE 0)
    <2> DEFINE X == OfOrder(D, o)
    <2>1. IsFiniteSet(X) /\ Cardinality(X) \in Nat
      BY OrderFinite
    <2>2. CASE o = b.o
      <3>1. OfOrder(D \ {b}, o) = X \ {b} /\ b \in X
        BY <1>1, <1>3, <2>2
      <3> HIDE DEF X
      <3>2. Cardinality(X \ {b}) = Cardinality(X) - 1
        BY <2>1, <3>1, OneMore
      <3>3. Cardinality(OfOrder(D \ {b}, o)) = Cardinality(X \ {b})
        BY <3>1, Zenon
      <3> QED BY <2>2, <3>2, <3>3 DEF X
    <2>3. CASE o # b.o
      <3>1. Cardinality(OfOrder(D \ {b}, o)) = Cardinality(X)
        BY <1>1, <2>3, Zenon
      <3> QED BY <2>1, <2>3, <3>1
    <2> QED BY <2>2, <2>3
  <1> QED BY <1>2, <1>3

\* What is free, what is handed out and what is in a hand have no page in
\* common.
LEMMA ApartFacts ==
    ASSUME IInv
    PROVE  /\ Disjoint(DOMAIN free) /\ Disjoint(Handed)
           /\ \A c \in CPUs : cpu[c].pc \in Carries =>
                 /\ cpu[c].blk \in Block /\ InZone(cpu[c].blk)
                 /\ \A b \in DOMAIN free : Pages(cpu[c].blk) \cap Pages(b) = {}
                 /\ \A d \in CPUs \ {c} : cpu[d].pc \in Carries =>
                       Pages(cpu[c].blk) \cap Pages(cpu[d].blk) = {}
  <1>1. Whole(Owned)
    BY DEF IInv
  <1>2. Disjoint(DOMAIN free)
    <2>1. \A b \in DOMAIN free : FreeAt(b) \in Owned /\ FreeAt(b)[3] = b
      BY AtPlace, Tags
    <2> QED BY <1>1, <2>1 DEF Disjoint, Whole, Apart
  <1>3. ASSUME NEW c \in CPUs, cpu[c].pc \in Carries
        PROVE  /\ cpu[c].blk \in Block /\ InZone(cpu[c].blk)
               /\ \A b \in DOMAIN free : Pages(cpu[c].blk) \cap Pages(b) = {}
               /\ \A d \in CPUs \ {c} : cpu[d].pc \in Carries =>
                     Pages(cpu[c].blk) \cap Pages(cpu[d].blk) = {}
    <2>1. HandAt(c, cpu[c].blk) \in Owned /\ HandAt(c, cpu[c].blk)[3] = cpu[c].blk
      BY <1>3, AtPlace, Tags
    <2>2. cpu[c].blk \in Block /\ InZone(cpu[c].blk)
      BY <1>1, <2>1 DEF Whole
    <2>3. ASSUME NEW b \in DOMAIN free PROVE Pages(cpu[c].blk) \cap Pages(b) = {}
      <3>1. FreeAt(b) \in Owned /\ FreeAt(b)[3] = b /\ FreeAt(b) # HandAt(c, cpu[c].blk)
        BY AtPlace, Tags
      <3> QED BY <1>1, <2>1, <3>1 DEF Whole, Apart
    <2>4. ASSUME NEW d \in CPUs \ {c}, cpu[d].pc \in Carries
          PROVE  Pages(cpu[c].blk) \cap Pages(cpu[d].blk) = {}
      <3>1. /\ HandAt(d, cpu[d].blk) \in Owned /\ HandAt(d, cpu[d].blk)[3] = cpu[d].blk
            /\ HandAt(d, cpu[d].blk) # HandAt(c, cpu[c].blk)
        BY <2>4, AtPlace, Tags DEF HandAt
      <3> QED BY <1>1, <2>1, <3>1 DEF Whole, Apart
    <2> QED BY <2>2, <2>3, <2>4
  <1>4. Disjoint(Handed)
    BY <1>3 DEF Disjoint, Handed, At, Carries
  <1> QED BY <1>2, <1>3, <1>4

LEMMA ExtraFacts ==
    ASSUME NEW s \in Cpu
    PROVE  Extra(s) \in Int /\ (s.pc \notin Inside => Extra(s) = 0)
  <1>1. s.done \in Nat /\ s.todo \in Nat /\ s.blk \in Block
    BY DEF Cpu
  <1>2. Size[s.blk.o] \in Nat
    BY <1>1, BlockFields
  <1> QED BY <1>1, <1>2 DEF Extra, Inside

\* The counter follows what processor c does.
LEMMA BalanceStep ==
    ASSUME IInv, IInv', CInv, LockHeld', NEW c \in CPUs, \A d \in CPUs \ {c} : cpu'[d] = cpu[d],
           FreeCount' \in Int, HandedCount' \in Int,
           nr_pages' = nr_pages + (FreeCount' - FreeCount) + (HandedCount' - HandedCount)
                                + (Extra(cpu'[c]) - Extra(cpu[c]))
    PROVE  Balance'
  <1> DEFINE E == Extra(cpu[c])
             E2 == Extra(cpu'[c])
  <1>1. cpu[c] \in Cpu /\ cpu'[c] \in Cpu /\ nr_pages \in Int /\ nr_pages' \in Int
    BY DEF IInv, TypeOK
  <1>2. E \in Int /\ E2 \in Int /\ (cpu[c].pc \notin Inside => E = 0) /\ (cpu'[c].pc \notin Inside => E2 = 0)
    BY <1>1, ExtraFacts
  <1>3. FreeCount \in Int /\ HandedCount \in Int
    BY ApartFacts, SpanFinite DEF FreeCount, HandedCount
  <1>4. lock \in CPUs \cup {NoCPU} /\ lock' \in CPUs \cup {NoCPU} /\ NoCPU \notin CPUs
    BY ZoneAssumption DEF IInv, TypeOK
  <1>8. \A w, v \in Int : v - w = E2 - E /\ nr_pages = FreeCount + HandedCount + w =>
                             nr_pages' = FreeCount' + HandedCount' + v
    <2>1. PICK n \in Int : n = nr_pages
      BY <1>1
    <2>2. PICK m \in Int : m = nr_pages'
      BY <1>1
    <2>3. PICK f \in Int, g \in Int : f = FreeCount /\ g = FreeCount'
      BY <1>3
    <2>4. PICK h \in Int, k \in Int : h = HandedCount /\ k = HandedCount'
      BY <1>3
    <2>5. PICK e \in Int, x \in Int : e = E /\ x = E2
      BY <1>2
    <2> HIDE DEF E, E2
    <2>6. m = n + (g - f) + (k - h) + (x - e)
      BY <2>1, <2>2, <2>3, <2>4, <2>5, Zenon DEF E, E2
    <2>7. \A w, v \in Int : v - w = x - e /\ n = f + h + w => m = g + k + v
      BY <2>6
    <2> QED BY <2>1, <2>2, <2>3, <2>4, <2>5, <2>7, Zenon
  <1> HIDE DEF E, E2
  <1>5. CASE lock = c
    <2>1. nr_pages = FreeCount + HandedCount + E
      BY <1>5 DEF CInv, Balance, E
    <2>2. nr_pages' = FreeCount' + HandedCount' + E2
      BY <1>2, <1>8, <2>1
    <2>3. lock' = c \/ (lock' = NoCPU /\ E2 = 0)
      BY <1>2, <1>4, <1>5 DEF CInv, LockHeld
    <2> QED BY <1>3, <1>4, <2>2, <2>3 DEF Balance, E2
  <1>6. CASE lock = NoCPU
    <2>1. nr_pages = FreeCount + HandedCount + E
      BY <1>2, <1>3, <1>4, <1>6 DEF CInv, Balance, LockHeld
    <2>2. nr_pages' = FreeCount' + HandedCount' + E2
      BY <1>2, <1>8, <2>1
    <2>3. lock' = c \/ (lock' = NoCPU /\ E2 = 0)
      BY <1>2, <1>4, <1>6 DEF CInv, LockHeld
    <2> QED BY <1>3, <1>4, <2>2, <2>3 DEF Balance, E2
  <1>7. CASE lock \in CPUs \ {c}
    <2>1. nr_pages = FreeCount + HandedCount + Extra(cpu[lock]) /\ E = 0 /\ Extra(cpu[lock]) \in Int
      BY <1>2, <1>7, ExtraFacts DEF CInv, Balance, LockHeld, IInv, TypeOK
    <2>2. lock' = lock /\ E2 = 0 /\ cpu'[lock] = cpu[lock]
      BY <1>2, <1>4, <1>7 DEF CInv, LockHeld
    <2>3. nr_pages' = FreeCount' + HandedCount' + Extra(cpu'[lock'])
      <3>1. PICK w \in Int : w = Extra(cpu[lock])
        BY <2>1
      <3>2. w - w = E2 - E
        BY <2>1, <2>2
      <3> QED BY <1>8, <2>1, <2>2, <3>1, <3>2
    <2> QED BY <1>4, <1>7, <2>2, <2>3 DEF Balance
  <1> QED BY <1>4, <1>5, <1>6, <1>7

\* The blocks handed out.
LEMMA HandedSteps ==
    ASSUME IInv, NEW c \in CPUs, \A d \in CPUs \ {c} : cpu'[d] = cpu[d]
    PROVE  /\ cpu[c].pc # "account" /\ cpu'[c].pc # "account" => HandedCount' = HandedCount
           /\ cpu[c].pc = "expand" /\ cpu'[c].pc = "account" /\ cpu'[c].blk = cpu[c].blk =>
                 HandedCount' = HandedCount + Size[cpu[c].blk.o]
           /\ cpu[c].pc = "account" /\ cpu'[c].pc # "account" =>
                 HandedCount' = HandedCount - Size[cpu[c].blk.o]
  <1> DEFINE b == cpu[c].blk
             H == Handed'
  <1>1. H = {cpu'[d].blk : d \in {e \in CPUs : cpu'[e].pc = "account"}}
    BY DEF Handed, At
  <1>2. Disjoint(Handed) /\ Handed = {cpu[d].blk : d \in {e \in CPUs : cpu[e].pc = "account"}}
    BY ApartFacts DEF Handed, At
  <1>3. HandedCount' = Cardinality(Span(H))
    BY DEF HandedCount, Span, Pages, Head
  <1> HIDE DEF H
  <1>4. CASE cpu[c].pc # "account" /\ cpu'[c].pc # "account"
    <2>1. H = Handed
      BY <1>1, <1>2, <1>4
    <2> QED BY <1>3, <1>4, <2>1 DEF HandedCount
  <1>5. CASE cpu[c].pc = "expand" /\ cpu'[c].pc = "account" /\ cpu'[c].blk = b
    <2>1. H = Handed \cup {b}
      BY <1>1, <1>2, <1>5
    <2>2. b \in Block /\ InZone(b) /\ \A d \in Handed : Pages(b) \cap Pages(d) = {}
      BY <1>2, <1>5, ApartFacts DEF Carries
    <2>3. Cardinality(Span(Handed \cup {b})) = Cardinality(Span(Handed)) + Size[b.o]
      BY <1>2, <2>2, SpanAdd
    <2> QED BY <1>3, <1>5, <2>1, <2>3 DEF HandedCount
  <1>6. CASE cpu[c].pc = "account" /\ cpu'[c].pc # "account"
    <2>1. b \in Handed /\ b \in Block /\ InZone(b)
      BY <1>2, <1>6, ApartFacts DEF Carries
    <2>2. \A d \in CPUs \ {c} : cpu[d].pc = "account" => cpu[d].blk # b
      BY <1>6, <2>1, ApartFacts, PagesOf DEF Carries
    <2>3. H = Handed \ {b}
      BY <1>1, <1>2, <1>6, <2>2
    <2>4. Cardinality(Span(Handed \ {b})) = Cardinality(Span(Handed)) - Size[b.o]
      BY <1>2, <2>1, SpanRemove
    <2> QED BY <1>3, <1>6, <2>3, <2>4 DEF HandedCount
  <1> QED BY <1>4, <1>5, <1>6

\* The lists of the zone.
LEMMA ListsSame ==
    ASSUME Lists, DOMAIN free' = DOMAIN free, nr_free' = nr_free
    PROVE  Lists' /\ FreeCount' = FreeCount
  <1>1. Lists'
    BY DEF Lists, OfOrder
  <1>2. FreeCount' = FreeCount
    BY DEF FreeCount, Span, Pages, Head
  <1> QED BY <1>1, <1>2

LEMMA ListsAdd ==
    ASSUME IInv, Lists, NEW b \in Block, InZone(b), \A d \in DOMAIN free : Pages(b) \cap Pages(d) = {},
           DOMAIN free' = DOMAIN free \cup {b}, nr_free' = [nr_free EXCEPT ![b.o] = @ + 1]
    PROVE  Lists' /\ FreeCount' = FreeCount + Size[b.o]
  <1> DEFINE D == DOMAIN free
  <1>1. D \subseteq Block /\ nr_free \in [Order -> Int] /\ Disjoint(D)
    BY ApartFacts DEF IInv, TypeOK
  <1>2. b \notin D
    BY <1>1, PagesOf
  <1>3. \A o : Cardinality(OfOrder(D \cup {b}, o)) = Cardinality(OfOrder(D, o)) + (IF o = b.o THEN 1 ELSE 0)
    BY <1>1, <1>2, OrderSteps
  <1>4. Lists'
    <2> SUFFICES ASSUME NEW o \in Order PROVE nr_free'[o] = Cardinality(OfOrder(DOMAIN free', o))
      BY DEF Lists, OfOrder
    <2>1. nr_free[o] = Cardinality(OfOrder(D, o)) /\ nr_free[o] \in Int
      BY <1>1 DEF Lists
    <2>2. nr_free'[o] = nr_free[o] + (IF o = b.o THEN 1 ELSE 0)
      BY <1>1, <2>1
    <2>3. Cardinality(OfOrder(DOMAIN free', o)) = Cardinality(OfOrder(D, o)) + (IF o = b.o THEN 1 ELSE 0)
      BY <1>3
    <2> QED BY <2>1, <2>2, <2>3
  <1>5. FreeCount' = FreeCount + Size[b.o]
    <2>1. Cardinality(Span(D \cup {b})) = Cardinality(Span(D)) + Size[b.o]
      BY <1>1, SpanAdd
    <2>2. FreeCount' = Cardinality(Span(D \cup {b}))
      BY DEF FreeCount, Span, Pages, Head
    <2> QED BY <2>1, <2>2 DEF FreeCount
  <1> QED BY <1>4, <1>5

LEMMA ListsRemove ==
    ASSUME IInv, Lists, NEW b \in DOMAIN free, DOMAIN free' = DOMAIN free \ {b},
           nr_free' = [nr_free EXCEPT ![b.o] = @ - 1]
    PROVE  Lists' /\ FreeCount' = FreeCount - Size[b.o]
  <1> DEFINE D == DOMAIN free
  <1>1. D \subseteq Block /\ nr_free \in [Order -> Int] /\ Disjoint(D) /\ b \in Block /\ b \in D
    BY ApartFacts DEF IInv, TypeOK
  <1>2. \A o : Cardinality(OfOrder(D \ {b}, o)) = Cardinality(OfOrder(D, o)) - (IF o = b.o THEN 1 ELSE 0)
    BY <1>1, OrderSteps
  <1>3. Lists'
    <2> SUFFICES ASSUME NEW o \in Order PROVE nr_free'[o] = Cardinality(OfOrder(DOMAIN free', o))
      BY DEF Lists, OfOrder
    <2>1. nr_free[o] = Cardinality(OfOrder(D, o)) /\ nr_free[o] \in Int
      BY <1>1 DEF Lists
    <2>2. nr_free'[o] = nr_free[o] - (IF o = b.o THEN 1 ELSE 0)
      BY <1>1, <2>1
    <2>3. Cardinality(OfOrder(DOMAIN free', o)) = Cardinality(OfOrder(D, o)) - (IF o = b.o THEN 1 ELSE 0)
      BY <1>2
    <2> QED BY <2>1, <2>2, <2>3
  <1>4. FreeCount' = FreeCount - Size[b.o]
    <2>1. Cardinality(Span(D \ {b})) = Cardinality(Span(D)) - Size[b.o]
      BY <1>1, SpanRemove
    <2>2. FreeCount' = Cardinality(Span(D \ {b}))
      BY DEF FreeCount, Span, Pages, Head
    <2> QED BY <2>1, <2>2 DEF FreeCount
  <1> QED BY <1>3, <1>4

\* Processor c moves and the lists of the zone stay.
LEMMA QuietStep ==
    ASSUME IInv, IInv', CInv, LockHeld', NEW c \in CPUs, \A d \in CPUs \ {c} : cpu'[d] = cpu[d],
           DOMAIN free' = DOMAIN free, nr_free' = nr_free,
           cpu[c].pc # "account", cpu'[c].pc # "account",
           NEW e \in Int, NEW x \in Int, Extra(cpu[c]) = e, Extra(cpu'[c]) = x, nr_pages' = nr_pages + x - e
    PROVE  CInv'
  <1>1. Lists' /\ FreeCount' = FreeCount
    BY ListsSame DEF CInv
  <1>2. HandedCount' = HandedCount
    BY HandedSteps
  <1>3. FreeCount \in Int /\ HandedCount \in Int /\ nr_pages \in Int
    BY ApartFacts, SpanFinite DEF FreeCount, HandedCount, IInv, TypeOK
  <1>4. nr_pages' = nr_pages + (FreeCount' - FreeCount) + (HandedCount' - HandedCount)
                              + (Extra(cpu'[c]) - Extra(cpu[c]))
    BY <1>1, <1>2, <1>3
  <1>5. Balance'
    BY <1>1, <1>2, <1>3, <1>4, BalanceStep
  <1> QED BY <1>1, <1>5 DEF CInv

\* Processor c moves a block between a list of the zone and its hands.
LEMMA BlockStep ==
    ASSUME IInv, IInv', CInv, LockHeld', NEW c \in CPUs, \A d \in CPUs \ {c} : cpu'[d] = cpu[d],
           cpu[c].pc # "account", cpu'[c].pc # "account", Lists', NEW z \in Int, FreeCount' = FreeCount + z,
           NEW e \in Int, NEW x \in Int, Extra(cpu[c]) = e, Extra(cpu'[c]) = x,
           nr_pages' = nr_pages, x + z = e
    PROVE  CInv'
  <1>1. HandedCount' = HandedCount
    BY HandedSteps
  <1>2. FreeCount \in Int /\ HandedCount \in Int /\ nr_pages \in Int
    BY ApartFacts, SpanFinite DEF FreeCount, HandedCount, IInv, TypeOK
  <1>3. nr_pages' = nr_pages + (FreeCount' - FreeCount) + (HandedCount' - HandedCount)
                              + (Extra(cpu'[c]) - Extra(cpu[c]))
    BY <1>1, <1>2
  <1>4. Balance'
    BY <1>1, <1>2, <1>3, BalanceStep
  <1> QED BY <1>4 DEF CInv

\* Processor c is outside before and after.
LEMMA OutsideCounts ==
    ASSUME IInv, IInv', CInv, LockHeld', NEW c \in CPUs,
           \/ \E mt \in AllocTypes : AllocHot(c, mt)
           \/ \E b \in used : __free_pages(c, b)
           \/ free_hot_cold_page(c) \/ drain_pages(c) \/ drain_zone_pages(c)
    PROVE  CInv'
  <1>1. cpu \in [CPUs -> Cpu]
    BY DEF IInv, TypeOK
  <1>2. free' = free /\ nr_free' = nr_free /\ nr_pages' = nr_pages
    BY DEF AllocHot, __free_pages, free_hot_cold_page, drain_pages, drain_zone_pages
  <1>3. \A d \in CPUs \ {c} : cpu'[d] = cpu[d]
    BY <1>1 DEF AllocHot, __free_pages, free_hot_cold_page, drain_pages, drain_zone_pages
  <1>4. cpu[c].pc \in {"idle", "freeing"}
    BY DEF AllocHot, __free_pages, free_hot_cold_page, drain_pages, drain_zone_pages, At
  <1>5. cpu'[c].pc \in {"idle", "freeing", "drainlock"}
    BY <1>1, <1>4 DEF AllocHot, __free_pages, free_hot_cold_page, drain_pages, drain_zone_pages,
       Idle, Draining
  <1>6. Extra(cpu[c]) = 0 /\ Extra(cpu'[c]) = 0
    BY <1>4, <1>5 DEF Extra
  <1>7. nr_pages' = nr_pages + 0 - 0
    BY <1>2 DEF IInv, TypeOK
  <1> QED BY <1>2, <1>3, <1>4, <1>5, <1>6, <1>7, QuietStep

LEMMA BufferedCounts ==
    ASSUME IInv, IInv', CInv, LockHeld', NEW c \in CPUs, NEW order, NEW mt, buffered_rmqueue(c, order, mt)
    PROVE  CInv'
  <1>1. cpu \in [CPUs -> Cpu] /\ nr_pages \in Int
    BY DEF IInv, TypeOK
  <1>2. /\ free' = free /\ nr_free' = nr_free /\ nr_pages' = nr_pages /\ cpu[c].pc = "idle"
        /\ \A d \in CPUs \ {c} : cpu'[d] = cpu[d]
        /\ cpu'[c].pc = "rmqueue" /\ cpu'[c].done = 0
    BY <1>1 DEF buffered_rmqueue, At
  <1>3. Extra(cpu[c]) = 0 /\ Extra(cpu'[c]) = 0
    BY <1>2 DEF Extra
  <1>4. nr_pages' = nr_pages + 0 - 0
    BY <1>1, <1>2
  <1> QED BY <1>2, <1>3, <1>4, QuietStep

LEMMA GrabCounts ==
    ASSUME IInv, IInv', CInv, LockHeld', NEW c \in CPUs, NEW b \in DOMAIN free, NEW f, NEW on,
           Grab(c, b, f, on), DOMAIN f = DOMAIN free, At(c, "rmqueue")
    PROVE  CInv'
  <1>1. cpu \in [CPUs -> Cpu] /\ nr_free \in [Order -> Int] /\ b \in Block /\ Lists
    BY DEF IInv, TypeOK, CInv
  <1>2. /\ DOMAIN free' = DOMAIN free \ {b} /\ nr_free' = [nr_free EXCEPT ![b.o] = @ - 1]
        /\ nr_pages' = nr_pages /\ cpu[c].pc = "rmqueue"
        /\ \A d \in CPUs \ {c} : cpu'[d] = cpu[d]
        /\ cpu'[c].pc = "expand" /\ cpu'[c].done = cpu[c].done /\ cpu'[c].blk = b
    BY <1>1 DEF Grab, Without, At
  <1>3. Lists' /\ FreeCount' = FreeCount - Size[b.o]
    BY <1>1, <1>2, ListsRemove
  <1>4. cpu[c].done \in Int /\ Size[b.o] \in Int
    BY <1>1, CpuFacts, BlockFields
  <1>5. Extra(cpu[c]) = cpu[c].done /\ Extra(cpu'[c]) = cpu[c].done + Size[b.o]
    BY <1>2, <1>4 DEF Extra
  <1> DEFINE z == 0 - Size[b.o]
             x == cpu[c].done + Size[b.o]
  <1>6. FreeCount \in Int
    BY ApartFacts, SpanFinite DEF FreeCount
  <1>7. z \in Int /\ x \in Int /\ x + z = cpu[c].done /\ FreeCount' = FreeCount + z /\ Extra(cpu'[c]) = x
    BY <1>3, <1>4, <1>5, <1>6
  <1> HIDE DEF z, x
  <1> QED BY <1>2, <1>3, <1>4, <1>5, <1>7, BlockStep

LEMMA RmqueueCounts ==
    ASSUME IInv, IInv', CInv, LockHeld', NEW c \in CPUs,
           __rmqueue_smallest(c) \/ __rmqueue_fallback(c) \/ RetryReserve(c)
    PROVE  CInv'
  <1>1. CASE __rmqueue_smallest(c) \/ RetryReserve(c)
    <2>1. PICK b \in DOMAIN free : \E on : Grab(c, b, free, on)
      BY <1>1 DEF __rmqueue_smallest, RetryReserve, Smallest
    <2>2. PICK on : Grab(c, b, free, on)
      BY <2>1
    <2>3. At(c, "rmqueue")
      BY <1>1 DEF __rmqueue_smallest, RetryReserve, NothingElse
    <2> QED BY <2>2, <2>3, GrabCounts
  <1>2. CASE __rmqueue_fallback(c)
    <2>1. PICK b \in DOMAIN free : Steal(c, b)
      BY <1>2 DEF __rmqueue_fallback, Fallback
    <2>2. PICK f, on : Grab(c, b, f, on) /\ DOMAIN f = DOMAIN free
      <3>1. \A k, mt : DOMAIN move_freepages_block(k, mt) = DOMAIN free
        BY DEF move_freepages_block
      <3> QED BY <2>1, <3>1, Zenon DEF Steal
    <2> QED BY <1>2, <2>2, GrabCounts DEF __rmqueue_fallback
  <1> QED BY <1>1, <1>2

LEMMA RmqueueFailsCounts ==
    ASSUME IInv, IInv', CInv, LockHeld', NEW c \in CPUs, RmqueueFails(c)
    PROVE  CInv'
  <1>1. cpu \in [CPUs -> Cpu] /\ nr_pages \in Int /\ cpu[c] \in Cpu
    BY DEF IInv, TypeOK
  <1>2. /\ free' = free /\ nr_free' = nr_free /\ nr_pages' = nr_pages /\ cpu[c].pc = "rmqueue"
        /\ \A d \in CPUs \ {c} : cpu'[d] = cpu[d]
        /\ \/ cpu'[c].pc = "bulkend" /\ cpu'[c].done = cpu[c].done
           \/ cpu'[c].pc = "idle" /\ cpu[c].want # 0
    BY <1>1 DEF RmqueueFails, NothingElse, At, Idle, Cpu
  <1>3. cpu[c].done \in Int /\ (cpu[c].want # 0 => cpu[c].done = 0)
    BY <1>2, CpuFacts DEF Loop
  <1>4. Extra(cpu[c]) = cpu[c].done /\ Extra(cpu'[c]) = cpu[c].done
    BY <1>2, <1>3 DEF Extra
  <1>5. nr_pages' = nr_pages + cpu[c].done - cpu[c].done
    BY <1>1, <1>2, <1>3
  <1> QED BY <1>2, <1>3, <1>4, <1>5, QuietStep

LEMMA ExpandCounts ==
    ASSUME IInv, IInv', CInv, LockHeld', NEW c \in CPUs, expand(c)
    PROVE  CInv'
  <1> DEFINE b == cpu[c].blk
             u == UpperHalf(b)
             z == Size[b.o - 1]
  <1>1. cpu \in [CPUs -> Cpu] /\ cpu[c] \in Cpu /\ Lists
    BY DEF IInv, TypeOK, CInv
  <1>2. b \in Block /\ InZone(b) /\ \A d \in DOMAIN free : Pages(b) \cap Pages(d) = {}
    BY ApartFacts DEF expand, At, Carries
  <1>3. b.o > 0
    BY <1>2, BlockFields, CpuFacts DEF expand
  <1>4. /\ u \in Block /\ InZone(u) /\ Pages(u) \subseteq Pages(b) /\ Size[b.o] = 2 * z
        /\ u.o = b.o - 1 /\ LowerHalf(b).o = b.o - 1
    BY <1>2, <1>3, Halves DEF UpperHalf, LowerHalf
  <1>5. /\ DOMAIN free' = DOMAIN free \cup {u} /\ nr_free' = [nr_free EXCEPT ![u.o] = @ + 1]
        /\ nr_pages' = nr_pages /\ cpu[c].pc = "expand"
        /\ \A d \in CPUs \ {c} : cpu'[d] = cpu[d]
        /\ cpu'[c].pc = "expand" /\ cpu'[c].done = cpu[c].done /\ cpu'[c].blk = LowerHalf(b)
    BY <1>1, <1>4 DEF expand, With, At, Cpu
  <1>6. \A d \in DOMAIN free : Pages(u) \cap Pages(d) = {}
    BY <1>2, <1>4
  <1>7. cpu[c].done \in Int /\ z \in Int /\ Size[u.o] = z
    BY <1>4, CpuFacts, BlockFields
  <1> HIDE DEF u
  <1>8. Lists' /\ FreeCount' = FreeCount + z
    BY <1>1, <1>4, <1>5, <1>6, <1>7, ListsAdd
  <1>9. Extra(cpu[c]) = cpu[c].done + 2 * z /\ Extra(cpu'[c]) = cpu[c].done + z
    BY <1>4, <1>5, <1>7 DEF Extra
  <1> DEFINE e == cpu[c].done + 2 * z
             x == cpu[c].done + z
  <1>10. e \in Int /\ x \in Int /\ x + z = e /\ Extra(cpu[c]) = e /\ Extra(cpu'[c]) = x
    BY <1>7, <1>9
  <1> HIDE DEF b, z, e, x
  <1> QED BY <1>5, <1>7, <1>8, <1>10, BlockStep

LEMMA BulkGotCounts ==
    ASSUME IInv, IInv', CInv, LockHeld', NEW c \in CPUs, BulkGot(c)
    PROVE  CInv'
  <1>1. cpu \in [CPUs -> Cpu] /\ nr_pages \in Int
    BY DEF IInv, TypeOK
  <1>2. /\ free' = free /\ nr_free' = nr_free /\ nr_pages' = nr_pages /\ cpu[c].pc = "expand"
        /\ \A d \in CPUs \ {c} : cpu'[d] = cpu[d] /\ cpu[c].blk.o = 0
        /\ cpu'[c].pc \in {"bulkend", "rmqueue"} /\ cpu'[c].done = cpu[c].done + 1
    BY <1>1 DEF BulkGot, At
  <1>3. cpu[c].done \in Int /\ Size[cpu[c].blk.o] = 1 /\ cpu[c].done + 1 \in Int
    BY <1>2, CpuFacts, SizeFacts DEF BulkGot
  <1>4. Extra(cpu[c]) = cpu[c].done + 1 /\ Extra(cpu'[c]) = cpu[c].done + 1
    BY <1>2, <1>3 DEF Extra
  <1>5. nr_pages' = nr_pages + (cpu[c].done + 1) - (cpu[c].done + 1)
    BY <1>1, <1>2, <1>3
  <1> QED BY <1>2, <1>3, <1>4, <1>5, QuietStep

LEMMA BulkEndCounts ==
    ASSUME IInv, IInv', CInv, LockHeld', NEW c \in CPUs, BulkEnd(c)
    PROVE  CInv'
  <1>1. cpu \in [CPUs -> Cpu] /\ nr_pages \in Int
    BY DEF IInv, TypeOK
  <1>2. /\ free' = free /\ nr_free' = nr_free /\ nr_pages' = nr_pages - cpu[c].done
        /\ cpu[c].pc = "bulkend" /\ \A d \in CPUs \ {c} : cpu'[d] = cpu[d] /\ cpu'[c].pc = "idle"
    BY <1>1 DEF BulkEnd, At, Idle
  <1>3. cpu'[c].pc = "idle"
    BY <1>1 DEF BulkEnd, Idle
  <1>4. cpu[c].done \in Int
    BY CpuFacts
  <1>5. Extra(cpu[c]) = cpu[c].done /\ Extra(cpu'[c]) = 0
    BY <1>2, <1>3, <1>4 DEF Extra
  <1>6. nr_pages' = nr_pages + 0 - cpu[c].done
    BY <1>1, <1>2, <1>4
  <1> QED BY <1>2, <1>3, <1>4, <1>5, <1>6, QuietStep

\* The block goes from the splitter to the caller: inside before, handed out
\* after, and not subtracted yet.
LEMMA RmqueueGotCounts ==
    ASSUME IInv, IInv', CInv, LockHeld', NEW c \in CPUs, RmqueueGot(c)
    PROVE  CInv'
  <1> DEFINE z == Size[cpu[c].blk.o]
  <1>1. cpu \in [CPUs -> Cpu] /\ nr_pages \in Int /\ cpu[c] \in Cpu
    BY DEF IInv, TypeOK
  <1>2. /\ free' = free /\ nr_free' = nr_free /\ nr_pages' = nr_pages /\ cpu[c].pc = "expand"
        /\ \A d \in CPUs \ {c} : cpu'[d] = cpu[d]
    BY <1>1 DEF RmqueueGot, At
  <1>3. cpu'[c].pc = "account" /\ cpu'[c].blk = cpu[c].blk
    BY <1>1 DEF RmqueueGot, Cpu
  <1>4. cpu[c].done = 0 /\ z \in Int
    BY <1>2, CpuFacts, BlockFields DEF Loop, RmqueueGot
  <1>5. Extra(cpu[c]) = z /\ Extra(cpu'[c]) = 0
    BY <1>2, <1>3, <1>4 DEF Extra
  <1>6. Lists' /\ FreeCount' = FreeCount
    BY <1>2, ListsSame DEF CInv
  <1>7. HandedCount' = HandedCount + z
    BY <1>2, <1>3, HandedSteps
  <1>8. FreeCount \in Int /\ HandedCount \in Int
    BY ApartFacts, SpanFinite DEF FreeCount, HandedCount
  <1> HIDE DEF z
  <1>9. nr_pages' = nr_pages + (FreeCount' - FreeCount) + (HandedCount' - HandedCount)
                              + (Extra(cpu'[c]) - Extra(cpu[c]))
    BY <1>1, <1>2, <1>4, <1>5, <1>6, <1>7, <1>8
  <1>10. FreeCount' \in Int /\ HandedCount' \in Int
    BY <1>4, <1>6, <1>7, <1>8
  <1>11. Balance'
    BY <1>2, <1>9, <1>10, BalanceStep
  <1> QED BY <1>6, <1>11 DEF CInv

LEMMA AccountCounts ==
    ASSUME IInv, IInv', CInv, LockHeld', NEW c \in CPUs, Account(c)
    PROVE  CInv'
  <1> DEFINE z == Size[cpu[c].blk.o]
  <1>1. cpu \in [CPUs -> Cpu] /\ nr_pages \in Int
    BY DEF IInv, TypeOK
  <1>2. /\ free' = free /\ nr_free' = nr_free /\ nr_pages' = nr_pages - Size[cpu[c].want]
        /\ cpu[c].pc = "account" /\ \A d \in CPUs \ {c} : cpu'[d] = cpu[d]
    BY <1>1 DEF Account, At
  <1>3. cpu'[c].pc = "idle"
    BY <1>1 DEF Account, Idle
  <1>4. Size[cpu[c].want] = z /\ z \in Int
    BY <1>2, CpuFacts, BlockFields DEF Loop
  <1>5. Extra(cpu[c]) = 0 /\ Extra(cpu'[c]) = 0
    BY <1>2, <1>3 DEF Extra
  <1>6. Lists' /\ FreeCount' = FreeCount
    BY <1>2, ListsSame DEF CInv
  <1>7. HandedCount' = HandedCount - z
    BY <1>2, <1>3, HandedSteps
  <1>8. FreeCount \in Int /\ HandedCount \in Int
    BY ApartFacts, SpanFinite DEF FreeCount, HandedCount
  <1> HIDE DEF z
  <1>9. nr_pages' = nr_pages + (FreeCount' - FreeCount) + (HandedCount' - HandedCount)
                              + (Extra(cpu'[c]) - Extra(cpu[c]))
    BY <1>1, <1>2, <1>4, <1>5, <1>6, <1>7, <1>8
  <1>10. FreeCount' \in Int /\ HandedCount' \in Int
    BY <1>4, <1>6, <1>7, <1>8
  <1>11. Balance'
    BY <1>2, <1>9, <1>10, BalanceStep
  <1> QED BY <1>6, <1>11 DEF CInv

LEMMA FreeOnePageCounts ==
    ASSUME IInv, IInv', CInv, LockHeld', NEW c \in CPUs, free_one_page(c)
    PROVE  CInv'
  <1> DEFINE z == Size[cpu[c].blk.o]
  <1>1. cpu \in [CPUs -> Cpu] /\ nr_pages \in Int /\ cpu[c] \in Cpu
    BY DEF IInv, TypeOK
  <1>2. /\ free' = free /\ nr_free' = nr_free /\ nr_pages' = nr_pages + z /\ cpu[c].pc = "freeing"
        /\ \A d \in CPUs \ {c} : cpu'[d] = cpu[d]
    BY <1>1 DEF free_one_page, At
  <1>3. cpu'[c].pc = "merge" /\ cpu'[c].blk = cpu[c].blk /\ cpu'[c].todo = cpu[c].todo
    BY <1>1 DEF free_one_page, Cpu
  <1>4. cpu[c].todo = 0 /\ z \in Int
    BY <1>2, CpuFacts, BlockFields DEF Loop
  <1>5. Extra(cpu[c]) = 0 /\ Extra(cpu'[c]) = z
    BY <1>2, <1>3, <1>4 DEF Extra
  <1> HIDE DEF z
  <1>6. nr_pages' = nr_pages + z - 0
    BY <1>1, <1>2, <1>4
  <1> QED BY <1>2, <1>3, <1>4, <1>5, <1>6, QuietStep

LEMMA DrainLockCounts ==
    ASSUME IInv, IInv', CInv, LockHeld', NEW c \in CPUs, free_pcppages_bulk(c)
    PROVE  CInv'
  <1>1. cpu \in [CPUs -> Cpu] /\ nr_pages \in Int /\ cpu[c] \in Cpu
    BY DEF IInv, TypeOK
  <1>2. /\ free' = free /\ nr_free' = nr_free /\ nr_pages' = nr_pages + cpu[c].todo
        /\ cpu[c].pc = "drainlock" /\ \A d \in CPUs \ {c} : cpu'[d] = cpu[d]
    BY <1>1 DEF free_pcppages_bulk, At
  <1>3. cpu'[c].pc = "drain" /\ cpu'[c].todo = cpu[c].todo
    BY <1>1 DEF free_pcppages_bulk, Cpu
  <1>4. cpu[c].todo \in Int
    BY CpuFacts
  <1>5. Extra(cpu[c]) = 0 /\ Extra(cpu'[c]) = cpu[c].todo
    BY <1>2, <1>3, <1>4 DEF Extra
  <1>6. nr_pages' = nr_pages + cpu[c].todo - 0
    BY <1>1, <1>2, <1>4
  <1> QED BY <1>2, <1>3, <1>4, <1>5, <1>6, QuietStep

LEMMA DrainOneCounts ==
    ASSUME IInv, IInv', CInv, LockHeld', NEW c \in CPUs, DrainOne(c)
    PROVE  CInv'
  <1>1. cpu \in [CPUs -> Cpu] /\ nr_pages \in Int
    BY DEF IInv, TypeOK
  <1>2. /\ free' = free /\ nr_free' = nr_free /\ nr_pages' = nr_pages
        /\ cpu[c].pc = "drain" /\ \A d \in CPUs \ {c} : cpu'[d] = cpu[d]
    BY <1>1 DEF DrainOne, At
  <1>3. cpu'[c].pc = "merge" /\ cpu'[c].todo = cpu[c].todo - 1 /\ cpu'[c].blk.o = 0
    BY <1>1 DEF DrainOne, Page
  <1>4. cpu[c].todo \in Int /\ Size[0] = 1
    BY CpuFacts, SizeFacts
  <1>5. Extra(cpu[c]) = cpu[c].todo /\ Extra(cpu'[c]) = cpu[c].todo
    BY <1>2, <1>3, <1>4 DEF Extra
  <1>6. nr_pages' = nr_pages + cpu[c].todo - cpu[c].todo
    BY <1>1, <1>2, <1>4
  <1> QED BY <1>2, <1>3, <1>4, <1>5, <1>6, QuietStep

LEMMA DrainEndCounts ==
    ASSUME IInv, IInv', CInv, LockHeld', NEW c \in CPUs, DrainEnd(c)
    PROVE  CInv'
  <1>1. cpu \in [CPUs -> Cpu] /\ nr_pages \in Int
    BY DEF IInv, TypeOK
  <1>2. /\ free' = free /\ nr_free' = nr_free /\ nr_pages' = nr_pages
        /\ cpu[c].pc = "drain" /\ cpu[c].todo = 0 /\ \A d \in CPUs \ {c} : cpu'[d] = cpu[d]
    BY <1>1 DEF DrainEnd, At
  <1>3. cpu'[c].pc = "idle"
    BY <1>1 DEF DrainEnd, Idle
  <1>4. cpu[c].todo = 0
    BY DEF DrainEnd
  <1>5. Extra(cpu[c]) = 0 /\ Extra(cpu'[c]) = 0
    BY <1>2, <1>3, <1>4 DEF Extra
  <1>6. nr_pages' = nr_pages + 0 - 0
    BY <1>1, <1>2
  <1> QED BY <1>2, <1>3, <1>5, <1>6, QuietStep

LEMMA MergeOneCounts ==
    ASSUME IInv, IInv', CInv, LockHeld', NEW c \in CPUs, MergeOne(c)
    PROVE  CInv'
  <1> DEFINE b == cpu[c].blk
             g == page_find_buddy(b)
             S == Size[b.o]
  <1>1. cpu \in [CPUs -> Cpu] /\ cpu[c] \in Cpu /\ Lists /\ nr_pages \in Int
    BY DEF IInv, TypeOK, CInv
  <1>2. b \in Block /\ InZone(b) /\ b.o < MAX_ORDER - 1 /\ g \in DOMAIN free
    BY ApartFacts DEF MergeOne, At, Carries, Mergeable, page_is_buddy
  <1>3. g \in Block /\ InZone(g)
    BY <1>2, ApartFacts DEF Disjoint
  <1>4. g.o = b.o /\ Size[b.o + 1] = 2 * S /\ find_combined(b).o = b.o + 1
    BY <1>2, <1>3, Combines DEF find_combined
  <1>5. /\ DOMAIN free' = DOMAIN free \ {g} /\ nr_free' = [nr_free EXCEPT ![g.o] = @ - 1]
        /\ nr_pages' = nr_pages /\ cpu[c].pc = "merge" /\ \A d \in CPUs \ {c} : cpu'[d] = cpu[d]
    BY <1>1, <1>4 DEF MergeOne, Without, At
  <1>6. cpu'[c].pc = "merge" /\ cpu'[c].todo = cpu[c].todo /\ cpu'[c].blk = find_combined(b)
    BY <1>1 DEF MergeOne, At, Cpu
  <1>7. cpu[c].todo \in Int /\ S \in Int /\ Size[g.o] = S
    BY <1>2, <1>4, CpuFacts, BlockFields
  <1>8. Extra(cpu[c]) = cpu[c].todo + S /\ Extra(cpu'[c]) = cpu[c].todo + 2 * S
    BY <1>4, <1>5, <1>6, <1>7 DEF Extra
  <1> HIDE DEF b, g
  <1>9. Lists' /\ FreeCount' = FreeCount - S
    BY <1>1, <1>2, <1>5, <1>7, ListsRemove
  <1>10. FreeCount \in Int
    BY ApartFacts, SpanFinite DEF FreeCount
  <1> DEFINE e == cpu[c].todo + S
             x == cpu[c].todo + 2 * S
             z == 0 - S
  <1> HIDE DEF S
  <1>11. /\ e \in Int /\ x \in Int /\ z \in Int /\ x + z = e /\ FreeCount' = FreeCount + z
         /\ Extra(cpu[c]) = e /\ Extra(cpu'[c]) = x
    BY <1>7, <1>8, <1>9, <1>10
  <1> HIDE DEF e, x, z
  <1> QED BY <1>5, <1>6, <1>9, <1>11, BlockStep

LEMMA FreeOneCounts ==
    ASSUME IInv, IInv', CInv, LockHeld', NEW c \in CPUs, __free_one_page(c)
    PROVE  CInv'
  <1> DEFINE b == cpu[c].blk
             z == Size[b.o]
  <1>1. cpu \in [CPUs -> Cpu] /\ Lists /\ nr_pages \in Int
    BY DEF IInv, TypeOK, CInv
  <1>2. b \in Block /\ InZone(b) /\ \A d \in DOMAIN free : Pages(b) \cap Pages(d) = {}
    BY ApartFacts DEF __free_one_page, At, Carries
  <1>3. /\ DOMAIN free' = DOMAIN free \cup {b} /\ nr_free' = [nr_free EXCEPT ![b.o] = @ + 1]
        /\ nr_pages' = nr_pages /\ cpu[c].pc = "merge" /\ \A d \in CPUs \ {c} : cpu'[d] = cpu[d]
    BY <1>1 DEF __free_one_page, With, At
  <1>4. \/ cpu'[c].pc = "idle" /\ cpu[c].why = "one"
        \/ cpu'[c].pc = "drain" /\ cpu'[c].todo = cpu[c].todo
    BY <1>1 DEF __free_one_page, Idle
  <1>5. cpu[c].todo \in Int /\ z \in Int /\ (cpu[c].why = "one" => cpu[c].todo = 0)
    BY <1>2, <1>3, CpuFacts, BlockFields DEF Loop
  <1>6. Extra(cpu[c]) = cpu[c].todo + z /\ Extra(cpu'[c]) = cpu[c].todo
    BY <1>3, <1>4, <1>5 DEF Extra
  <1> HIDE DEF b
  <1>7. Lists' /\ FreeCount' = FreeCount + z
    BY <1>1, <1>2, <1>3, ListsAdd
  <1> DEFINE e == cpu[c].todo + z
             x == cpu[c].todo
  <1> HIDE DEF z
  <1>8. e \in Int /\ x \in Int /\ x + z = e /\ Extra(cpu[c]) = e /\ Extra(cpu'[c]) = x
    BY <1>5, <1>6
  <1>9. cpu'[c].pc # "account"
    BY <1>4
  <1> HIDE DEF e, x
  <1> QED BY <1>3, <1>5, <1>7, <1>8, <1>9, BlockStep

\* Nobody's hands are involved and the processors stay.
LEMMA StillStep ==
    ASSUME IInv, IInv', CInv, LockHeld', cpu' = cpu, lock' = lock, Lists',
           NEW z \in Int, FreeCount' = FreeCount + z, nr_pages' = nr_pages + z
    PROVE  CInv'
  <1>1. HandedCount' = HandedCount
    BY DEF HandedCount, Handed, At, Span, Pages, Head
  <1>2. FreeCount \in Int /\ HandedCount \in Int /\ nr_pages \in Int
    BY ApartFacts, SpanFinite DEF FreeCount, HandedCount, IInv, TypeOK
  <1>3. \A c \in CPUs : Extra(cpu[c]) \in Int
    BY ExtraFacts DEF IInv, TypeOK
  <1>4. Balance'
    <2>1. lock = NoCPU => nr_pages + z = (FreeCount + z) + HandedCount
      BY <1>2 DEF CInv, Balance
    <2>2. \A c \in CPUs : lock = c => nr_pages + z = (FreeCount + z) + HandedCount + Extra(cpu[c])
      BY <1>2, <1>3 DEF CInv, Balance
    <2>3. lock' = NoCPU => nr_pages' = FreeCount' + HandedCount'
      BY <1>1, <2>1
    <2>4. \A c \in CPUs : lock' = c => nr_pages' = FreeCount' + HandedCount' + Extra(cpu'[c])
      BY <1>1, <2>2
    <2> QED BY <2>3, <2>4 DEF Balance, Extra
  <1> QED BY <1>4 DEF CInv

\* A whole range goes offline: the free blocks that meet it are inside it.
LEMMA OfflineCounts ==
    ASSUME IInv, IInv', CInv, LockHeld', NEW c \in CPUs, NEW r \in Block, __offline_isolated_pages(c, r)
    PROVE  CInv'
  <1> DEFINE D == DOMAIN free
             range == {b \in D : Pages(b) \cap Pages(r) # {}}
             In(o) == {b \in range : b.o = o}
             R == D \ range
             S == Size[MAX_ORDER - 1]
  <1>1. /\ r.o = MAX_ORDER - 1 /\ InZone(r) /\ Pages(r) \subseteq Span(range)
        /\ free' = [b \in D \ range |-> free[b]]
        /\ nr_free' = [o \in Order |-> nr_free[o] - Cardinality(In(o))]
        /\ nr_pages' = nr_pages - S /\ cpu' = cpu /\ lock' = lock
    BY DEF __offline_isolated_pages, Span
  <1>2. Disjoint(D) /\ D \subseteq Block /\ nr_pages \in Int /\ nr_free \in [Order -> Int] /\ Lists
    BY ApartFacts DEF IInv, TypeOK, CInv
  <1>3. \A b \in range : Pages(b) \subseteq Pages(r)
    <2> SUFFICES ASSUME NEW b \in range PROVE Pages(b) \subseteq Pages(r)
      OBVIOUS
    <2>1. b \in Block /\ b.o \in Order /\ b.i \in Nat /\ r.o \in Order /\ r.i \in Nat
      BY <1>2, BlockFields
    <2>2. b.o <= r.o /\ Pages(b) \cap Pages(r) # {}
      BY <1>1, <2>1, SizeFacts DEF Order
    <2> QED BY <2>1, <2>2, Nested
  <1>4. DOMAIN free' = R
    BY <1>1
  <1>5. FreeCount' = FreeCount - S
    <2>1. \A b \in R : Pages(b) \cap Pages(r) = {}
      OBVIOUS
    <2>2. Disjoint(R)
      BY <1>2 DEF Disjoint
    <2>3. Span(D) = Span(R \cup {r})
      <3>1. Span(D) = Span(R) \cup Span(range)
        <4>1. D = R \cup range
          OBVIOUS
        <4> HIDE DEF R, range, D
        <4> QED BY <4>1 DEF Span
      <3>2. Span(range) = Pages(r)
        <4> HIDE DEF range
        <4> QED BY <1>1, <1>3 DEF Span
      <3>3. Span(R \cup {r}) = Span(R) \cup Pages(r)
        <4> HIDE DEF R
        <4> QED BY DEF Span
      <3> QED BY <3>1, <3>2, <3>3
    <2> HIDE DEF R
    <2>4. Cardinality(Span(R \cup {r})) = Cardinality(Span(R)) + Size[r.o]
      BY <1>1, <2>1, <2>2, SpanAdd
    <2>5. Cardinality(Span(R)) \in Nat /\ S \in Nat /\ Size[r.o] = S
      BY <1>1, <2>2, SpanFinite, SizeFacts
    <2>6. FreeCount' = Cardinality(Span(R))
      BY <1>4 DEF FreeCount, Span, Pages, Head
    <2>7. FreeCount = Cardinality(Span(R)) + S
      BY <2>3, <2>4, <2>5 DEF FreeCount
    <2> QED BY <2>5, <2>6, <2>7
  <1>6. Lists'
    <2> SUFFICES ASSUME NEW o \in Order PROVE nr_free'[o] = Cardinality(OfOrder(DOMAIN free', o))
      BY DEF Lists, OfOrder
    <2>1. OfOrder(D, o) = OfOrder(R, o) \cup In(o) /\ OfOrder(R, o) \cap In(o) = {}
      <3>1. D = R \cup range /\ R \cap range = {}
        OBVIOUS
      <3> HIDE DEF D, R, range
      <3> QED BY <3>1 DEF OfOrder
    <2>2. R \subseteq Block /\ range \subseteq Block /\ In(o) = OfOrder(range, o)
      BY <1>2 DEF OfOrder
    <2> HIDE DEF D, R, range, In
    <2>3. /\ IsFiniteSet(OfOrder(R, o)) /\ Cardinality(OfOrder(R, o)) \in Nat
          /\ IsFiniteSet(In(o)) /\ Cardinality(In(o)) \in Nat
      BY <2>2, OrderFinite
    <2>4. Cardinality(OfOrder(R, o) \cup In(o)) =
             Cardinality(OfOrder(R, o)) + Cardinality(In(o)) - Cardinality(OfOrder(R, o) \cap In(o))
      BY <2>3, FS_Union
    <2>5. Cardinality(OfOrder(R, o) \cap In(o)) = 0
      BY <2>1, FS_EmptySet
    <2>6. Cardinality(OfOrder(D, o)) = Cardinality(OfOrder(R, o)) + Cardinality(In(o))
      BY <2>1, <2>3, <2>4, <2>5
    <2>7. nr_free[o] = Cardinality(OfOrder(D, o))
      BY <1>2 DEF Lists, D
    <2>8. nr_free'[o] = nr_free[o] - Cardinality(In(o))
      BY <1>1
    <2>9. nr_free'[o] = Cardinality(OfOrder(R, o))
      BY <2>3, <2>6, <2>7, <2>8
    <2> QED BY <1>4, <2>9
  <1> DEFINE z == 0 - S
  <1>7. S \in Int /\ FreeCount \in Int
    BY <1>2, SizeFacts, SpanFinite DEF FreeCount
  <1> HIDE DEF S
  <1>8. z \in Int /\ FreeCount' = FreeCount + z /\ nr_pages' = nr_pages + z
    BY <1>1, <1>2, <1>5, <1>7
  <1> HIDE DEF z
  <1> QED BY <1>1, <1>6, <1>8, StillStep

LEMMA OthersCount ==
    ASSUME IInv, IInv', CInv, LockHeld',
           \/ \E k \in Pageblocks : set_migratetype_isolate(k) \/ unset_migratetype_isolate(k)
           \/ \E n \in 0 .. 2 : setup_zone_migrate_reserve(n)
           \/ \E b \in used : split_page(b)
           \/ UNCHANGED vars
    PROVE  CInv'
  <1>1. DOMAIN free' = DOMAIN free
    <2>1. \A k, mt : DOMAIN move_freepages_block(k, mt) = DOMAIN free
      BY DEF move_freepages_block
    <2> QED BY <2>1 DEF set_migratetype_isolate, unset_migratetype_isolate, setup_zone_migrate_reserve,
               split_page, vars
  <1>2. cpu' = cpu /\ lock' = lock /\ nr_free' = nr_free /\ nr_pages' = nr_pages
    BY DEF set_migratetype_isolate, unset_migratetype_isolate, setup_zone_migrate_reserve,
           split_page, vars
  <1>3. Lists' /\ FreeCount' = FreeCount
    BY <1>1, <1>2, ListsSame DEF CInv
  <1>4. FreeCount' = FreeCount + 0 /\ nr_pages' = nr_pages + 0
    BY <1>2, <1>3, ApartFacts, SpanFinite DEF FreeCount, IInv, TypeOK
  <1> QED BY <1>2, <1>3, <1>4, StillStep

LEMMA NextCInv == IInv /\ IInv' /\ CInv /\ [Next]_vars => CInv'
  <1> SUFFICES ASSUME IInv, IInv', CInv, [Next]_vars PROVE CInv'
    OBVIOUS
  <1>1. LockHeld'
    BY NextLockHeld DEF CInv
  <1>2. ASSUME NEW c \in CPUs, Alloc(c) PROVE CInv'
    BY <1>1, <1>2, OutsideCounts, BufferedCounts DEF Alloc
  <1>3. ASSUME NEW c \in CPUs, Rmqueue(c) PROVE CInv'
    BY <1>1, <1>3, RmqueueCounts, RmqueueFailsCounts, ExpandCounts, BulkGotCounts, BulkEndCounts,
       RmqueueGotCounts, AccountCounts DEF Rmqueue
  <1>4. ASSUME NEW c \in CPUs, Free(c) PROVE CInv'
    BY <1>1, <1>4, OutsideCounts, FreeOnePageCounts, DrainLockCounts, DrainOneCounts,
       DrainEndCounts, MergeOneCounts, FreeOneCounts DEF Free
  <1> QED BY <1>1, <1>2, <1>3, <1>4, OthersCount, OfflineCounts DEF Next

LEMMA InitCInv == Init => CInv
  <1> SUFFICES ASSUME Init PROVE CInv
    OBVIOUS
  <1>1. LockHeld
    BY ZoneAssumption DEF Init, LockHeld, Idle, Inside
  <1>2. DOMAIN free = {} /\ Handed = {}
    BY DEF Init, Handed, At, Idle
  <1>3. Span({}) = {} /\ \A o : OfOrder({}, o) = {}
    BY DEF Span, OfOrder
  <1>4. Lists
    BY <1>2, <1>3, FS_EmptySet DEF Init, Lists
  <1>5. FreeCount = 0 /\ HandedCount = 0
    BY <1>2, <1>3, FS_EmptySet DEF FreeCount, HandedCount
  <1>6. Balance
    BY <1>5, ZoneAssumption DEF Init, Balance
  <1> QED BY <1>1, <1>4, <1>6 DEF CInv

\* zone->lock is held by the processor that is inside and by no other, and
\* the counters are the sizes of the lists but for what that processor has in
\* hand and what was handed out and not yet subtracted.
THEOREM CountersInvariant == Spec => []CInv
  BY InitCInv, NextCInv, Invariant, PTL DEF Spec

\* When the lock is free, nr_free is the number of blocks on the lists and
\* NR_FREE_PAGES exceeds their pages by exactly what buffered_rmqueue has
\* handed out and not yet subtracted: what zone_watermark_ok reads.
THEOREM CountersRight == Spec => []Counted
  <1>1. CInv => Counted
    <2> SUFFICES ASSUME CInv, lock = NoCPU
                 PROVE  /\ \A o \in Order : nr_free[o] = Cardinality({b \in DOMAIN free : b.o = o})
                        /\ nr_pages = FreePages +
                             Cardinality(UNION {Pages(cpu[c].blk) : c \in {d \in CPUs : At(d, "account")}})
      BY DEF Counted
    <2>1. \A o \in Order : nr_free[o] = Cardinality({b \in DOMAIN free : b.o = o})
      BY DEF CInv, Lists, OfOrder
    <2>2. FreePages = FreeCount
      BY DEF FreePages, FreeCount, Span
    <2>3. UNION {Pages(cpu[c].blk) : c \in {d \in CPUs : At(d, "account")}} = Span(Handed)
      BY DEF Span, Handed
    <2>4. HandedCount = Cardinality(UNION {Pages(cpu[c].blk) : c \in {d \in CPUs : At(d, "account")}})
      BY <2>3, Zenon DEF HandedCount
    <2> QED BY <2>1, <2>2, <2>4 DEF CInv, Balance
  <1> QED BY <1>1, CountersInvariant, PTL
=============================================================================
