--------------------------- MODULE Telnetd_proofs ---------------------------
(* Proofs about Telnetd, for any number of pids, of clients, and of waiting  *)
(* clients and messages, and whichever events may happen; and about one      *)
(* session of it, TelnetdSession.                                            *)
EXTENDS Telnetd, TelnetdSession, FiniteSetTheorems, SequenceTheorems, WellFoundedInduction, TLAPS

-----------------------------------------------------------------------------
(* Sets of descriptors.                                                      *)

\* A set of naturals has a least element, which is the one Min chooses.
LEMMA HasMin ==
    ASSUME NEW S, S \subseteq Nat, S # {}
    PROVE  Min(S) \in S /\ \A m \in S : Min(S) <= m
<1>1. PICK n \in S : \A m \in S : ~ (<<m, n>> \in OpToRel(<, Nat))
  BY NatLessThanWellFounded, WFMin, Zenon
<1>2. \A m \in S : n <= m
  <2> SUFFICES ASSUME NEW m \in S PROVE n <= m
    OBVIOUS
  <2>1. <<m, n>> \notin {ss \in Nat \X Nat : ss[1] < ss[2]}
    BY <1>1, Zenon DEF OpToRel
  <2>2. ~ (m < n)
    BY <2>1
  <2> QED BY <2>2
<1> QED
  BY <1>2 DEF Min

\* A bounded one has a greatest, which is the one Max chooses.
LEMMA HasMax ==
    ASSUME NEW S, S \subseteq Nat, S # {}, NEW b \in Nat, \A x \in S : x <= b
    PROVE  Max(S) \in S /\ \A m \in S : m <= Max(S)
<1> DEFINE U == {n \in Nat : \A x \in S : x <= n}
<1>1. U \subseteq Nat /\ U # {}
  OBVIOUS
<1>2. PICK n : n \in U /\ \A m \in U : n <= m
  <2> HIDE DEF U
  <2> QED BY <1>1, HasMin
<1>3. n \in S
  <2> SUFFICES ASSUME n \notin S PROVE FALSE
    OBVIOUS
  <2>1. n \in Nat /\ \A x \in S : x < n
    BY <1>2
  <2>0. PICK x0 : x0 \in S
    OBVIOUS
  <2>a. n - 1 \in Nat
    BY <2>0, <2>1
  <2>2. n - 1 \in Nat /\ \A x \in S : x <= n - 1
    <3> SUFFICES ASSUME NEW x \in S PROVE x <= n - 1
      BY <2>a
    <3> QED
      BY <2>1
  <2>3. n - 1 \in U
    BY <2>2
  <2> QED
    BY <1>2, <2>1, <2>3
<1>4. \A x \in S : n >= x
  BY <1>2, <1>3
<1>5. Max(S) \in S /\ \A y \in S : Max(S) >= y
  BY <1>3, <1>4 DEF Max
<1> QED
  BY <1>5

\* There is a free descriptor above those of the server.
LEMMA LowestIsAbove ==
    ASSUME NEW used, used \subseteq Nat, NEW b \in Nat, \A x \in used : x <= b
    PROVE  Lowest(used) \in Nat /\ Lowest(used) > netlink_fd
<1> DEFINE lo == netlink_fd + 1
           hi == netlink_fd + 1 + Cardinality(used)
           S == {n \in lo .. hi : n \notin used}
<1>0. IsFiniteSet(used) /\ Cardinality(used) \in Nat
  BY FS_BoundedSetOfNaturals, FS_CardinalityType
<1>1. lo \in Nat /\ hi \in Nat /\ hi - lo = Cardinality(used) /\ lo > netlink_fd
  BY <1>0, ServerAssumption
<1> HIDE DEF lo, hi
<1>2. S # {}
  <2> SUFFICES ASSUME S = {} PROVE FALSE
    OBVIOUS
  <2>1. lo .. hi \subseteq used
    OBVIOUS
  <2>2. Cardinality(lo .. hi) <= Cardinality(used)
    BY <1>0, <2>1, FS_Subset
  <2>3. Cardinality(lo .. hi) = hi - lo + 1
    BY <1>0, <1>1, FS_Interval
  <2> QED
    BY <1>0, <1>1, <2>2, <2>3
<1>3. S \subseteq Nat
  BY <1>1
<1>4. Lowest(used) = Min(S)
  BY DEF Lowest, lo, hi
<1>5. Min(S) \in S
  <2> HIDE DEF S
  <2> QED BY <1>2, <1>3, HasMin
<1>6. Lowest(used) \in lo .. hi
  BY <1>4, <1>5
<1> QED
  BY <1>1, <1>6, ServerAssumption

-----------------------------------------------------------------------------
(* The list of sessions.                                                     *)

\* The members of a list: Linked for any of them.
Members(s) == {s[i] : i \in 1 .. Len(s)}

\* Taking one session out of a list in which none is twice.
LEMMA Removed ==
    ASSUME NEW s \in Seq(Pids), IsInjective(s), NEW k \in 1 .. Len(s),
           NEW t, t = RemoveAt(s, k)
    PROVE  /\ t \in Seq(Pids) /\ Len(t) = Len(s) - 1
           /\ \A j \in 1 .. Len(t) : t[j] = IF j < k THEN s[j] ELSE s[j + 1]
           /\ IsInjective(t)
           /\ Members(t) = Members(s) \ {s[k]}
           /\ SubSeq(t, k, Len(t)) = SubSeq(s, k + 1, Len(s))
<1>0. PICK l, a, b, j1, k1 : /\ l = Len(s) /\ j1 = k - 1 /\ k1 = k + 1
                             /\ a = SubSeq(s, 1, j1) /\ b = SubSeq(s, k1, l)
  OBVIOUS
<1>1. l \in Nat /\ k \in 1..l /\ j1 \in Int /\ k1 \in Int /\ \A i \in 1..l : s[i] \in Pids
  BY <1>0
<1>2. a \in Seq(Pids) /\ Len(a) = k - 1 /\ \A i \in 1 .. k - 1 : a[i] = s[i]
  <2>1. \A i \in 1..j1 : s[i] \in Pids
    BY <1>0, <1>1
  <2> QED
    BY <1>0, <1>1, <2>1, SubSeqProperties
<1>3. b \in Seq(Pids) /\ Len(b) = l - k /\ \A i \in 1 .. l - k : b[i] = s[k + i]
  <2>1. \A i \in k1..l : s[i] \in Pids
    BY <1>0, <1>1
  <2>2. /\ b \in Seq(Pids) /\ Len(b) = IF k1 <= l THEN l - k1 + 1 ELSE 0
        /\ \A i \in 1 .. l - k1 + 1 : b[i] = s[k1 + i - 1]
    BY <1>0, <1>1, <2>1, SubSeqProperties
  <2>3. (IF k1 <= l THEN l - k1 + 1 ELSE 0) = l - k /\ l - k1 + 1 = l - k
    BY <1>0, <1>1
  <2>4. ASSUME NEW i \in 1 .. l - k PROVE k1 + i - 1 = k + i
    BY <1>0, <1>1
  <2> QED
    BY <2>2, <2>3, <2>4
<1>4. t = a \o b
  BY <1>0 DEF RemoveAt
<1>5. /\ t \in Seq(Pids) /\ Len(t) = l - 1
      /\ \A i \in 1 .. l - 1 : t[i] = IF i <= k - 1 THEN a[i] ELSE b[i - (k - 1)]
  <2>1. /\ t \in Seq(Pids) /\ Len(t) = Len(a) + Len(b)
        /\ \A i \in 1 .. Len(a) + Len(b) :
              t[i] = IF i <= Len(a) THEN a[i] ELSE b[i - Len(a)]
    <3>1. /\ a \o b \in Seq(Pids) /\ Len(a \o b) = Len(a) + Len(b)
          /\ \A i \in 1 .. Len(a) + Len(b) :
                (a \o b)[i] = IF i <= Len(a) THEN a[i] ELSE b[i - Len(a)]
      BY <1>2, <1>3, ConcatProperties, Zenon
    <3> QED
      BY <1>4, <3>1, Zenon
  <2>2. Len(a) + Len(b) = l - 1
    BY <1>1, <1>2, <1>3
  <2> QED
    BY <1>2, <2>1, <2>2
<1>6. ASSUME NEW j \in 1 .. l - 1
      PROVE  t[j] = IF j < k THEN s[j] ELSE s[j + 1]
  <2>1. CASE j < k
    <3>1. j \in 1 .. k - 1 /\ j <= k - 1
      BY <1>1, <2>1
    <3> QED BY <1>2, <1>5, <2>1, <3>1
  <2>2. CASE ~(j < k)
    <3>1. j - (k - 1) \in 1 .. l - k /\ ~(j <= k - 1) /\ k + (j - (k - 1)) = j + 1
      BY <1>1, <2>2
    <3> QED BY <1>3, <1>5, <2>2, <3>1
  <2> QED BY <2>1, <2>2
<1>7. \A i, j \in 1..l : s[i] = s[j] => i = j
  BY <1>0 DEF IsInjective
<1>8. \A i, j \in 1 .. l - 1 : t[i] = t[j] => i = j
  <2> SUFFICES ASSUME NEW i \in 1 .. l - 1, NEW j \in 1 .. l - 1, t[i] = t[j]
               PROVE  i = j
    OBVIOUS
  <2>1. /\ i \in 1..l /\ i + 1 \in 1..l /\ j \in 1..l /\ j + 1 \in 1..l
    BY <1>1
  <2>2. /\ t[i] = IF i < k THEN s[i] ELSE s[i + 1]
        /\ t[j] = IF j < k THEN s[j] ELSE s[j + 1]
    BY <1>6
  <2>3. (IF i < k THEN i ELSE i + 1) = (IF j < k THEN j ELSE j + 1)
    BY <1>7, <2>1, <2>2
  <2> QED
    BY <1>1, <2>1, <2>3
<1>9. IsInjective(t)
  <2>1. DOMAIN t = 1 .. l - 1
    BY <1>5
  <2> QED
    BY <1>8, <2>1 DEF IsInjective
<1>10. ASSUME NEW x
       PROVE  (\E i \in 1 .. l - 1 : x = t[i])
                 <=> (\E i \in 1..l : x = s[i]) /\ x # s[k]
  <2>1. ASSUME NEW i \in 1 .. l - 1, x = t[i]
        PROVE  (\E n \in 1..l : x = s[n]) /\ x # s[k]
    <3>2. PICK n \in 1..l : x = s[n] /\ n # k
      <4>1. CASE i < k
        <5>1. i \in 1..l /\ i # k
          BY <1>1, <4>1
        <5> QED BY <1>6, <2>1, <4>1, <5>1
      <4>2. CASE ~(i < k)
        <5>1. i + 1 \in 1..l /\ i + 1 # k
          BY <1>1, <4>2
        <5> QED BY <1>6, <2>1, <4>2, <5>1
      <4> QED BY <4>1, <4>2
    <3> QED
      BY <1>1, <1>7, <3>2
  <2>2. ASSUME NEW i \in 1..l, x = s[i], x # s[k]
        PROVE  \E n \in 1 .. l - 1 : x = t[n]
    <3>1. CASE i < k
      <4>1. i \in 1 .. l - 1
        BY <1>1, <3>1
      <4> QED BY <1>6, <2>2, <3>1, <4>1
    <3>2. CASE i > k
      <4>1. i - 1 \in 1 .. l - 1 /\ ~(i - 1 < k) /\ (i - 1) + 1 = i
        BY <1>1, <3>2
      <4>2. t[i - 1] = s[(i - 1) + 1]
        BY <1>6, <4>1
      <4> QED BY <2>2, <4>1, <4>2
    <3> QED
      BY <1>1, <2>2, <3>1, <3>2
  <2> QED
    BY <2>1, <2>2
<1>11. Members(t) = Members(s) \ {s[k]}
  <2>1. Members(t) = {t[i] : i \in 1 .. l - 1} /\ Members(s) = {s[i] : i \in 1..l}
    BY <1>0, <1>5, Zenon DEF Members
  <2> QED
    BY <1>10, <2>1
<1>12. SubSeq(t, k, l - 1) = b
  <2>1. PICK c, m : m = l - 1 /\ c = SubSeq(t, k, m)
    OBVIOUS
  <2>2. \A i \in k..m : t[i] \in Pids
    BY <1>1, <1>5, <2>1
  <2>3. /\ c \in Seq(Pids) /\ Len(c) = IF k <= m THEN m - k + 1 ELSE 0
        /\ \A i \in 1 .. m - k + 1 : c[i] = t[k + i - 1]
    BY <1>1, <2>1, <2>2, SubSeqProperties
  <2>4. (IF k <= m THEN m - k + 1 ELSE 0) = l - k /\ m - k + 1 = l - k
    BY <1>1, <2>1
  <2>5. ASSUME NEW i \in 1 .. l - k PROVE c[i] = b[i]
    <3>1. k + i - 1 \in 1 .. l - 1 /\ ~(k + i - 1 < k) /\ (k + i - 1) + 1 = k + i
      BY <1>1
    <3>2. t[k + i - 1] = s[k + i]
      BY <1>6, <3>1
    <3> QED BY <1>3, <2>3, <2>4, <3>2
  <2>6. Len(c) = Len(b) /\ Len(b) = l - k
    BY <1>3, <2>3, <2>4
  <2>7. c = b
    BY <1>3, <2>3, <2>5, <2>6, SeqEqual
  <2> QED BY <2>1, <2>7
<1> QED
  BY <1>0, <1>5, <1>6, <1>9, <1>11, <1>12

-----------------------------------------------------------------------------
(* The invariant.                                                            *)

\* Where the loop is with the list: a session is outside of it only between
\* vfork and its being linked, and the second loop has one to serve.
Listed ==
    /\ pc # "link" => new = {}
    /\ pc = "link" => \E p \in Pids \ Linked : new = {p}
    /\ pc = "accept" => todo = sessions
    /\ pc \in {"serve", "recv", "rest"} => todo # <<>>

\* maxfd covers the sessions all the time, and the listening socket from
\* SelectSetup on.  It never lies between master_fd and netlink_fd, so that
\* setting it to master_fd never lowers it; without sessions it is below
\* netlink_fd, unless a failed vfork has left it raised.
Covered ==
    /\ \A p \in DOMAIN tsession : /\ netlink_fd < tsession[p].sock /\ tsession[p].sock <= maxfd
                            /\ netlink_fd < tsession[p].pty /\ tsession[p].pty <= maxfd
    /\ maxfd \in {0, master_fd} \/ maxfd > netlink_fd
    /\ sessions = <<>> /\ new = {} /\ ~raised => maxfd \in {0, master_fd}
    /\ pc \in {"call", "blocked"} => master_fd <= maxfd

IInv == TypeOK /\ Listed /\ Covered

\* The descriptors of sessions are between netlink_fd and maxfd.
LEMMA FdsCovered ==
    ASSUME TypeOK, Covered, NEW ps, ps \subseteq DOMAIN tsession
    PROVE  /\ Fds(ps) \subseteq Nat
           /\ \A fd \in Fds(ps) : netlink_fd < fd /\ fd <= maxfd
           /\ ps # {} => Fds(ps) # {}
<1>1. \A p \in ps : /\ tsession[p].sock \in Nat /\ tsession[p].pty \in Nat
                    /\ netlink_fd < tsession[p].sock /\ tsession[p].sock <= maxfd
                    /\ netlink_fd < tsession[p].pty /\ tsession[p].pty <= maxfd
  BY DEF TypeOK, Covered, Session
<1>2. ASSUME NEW fd \in Fds(ps)
      PROVE  fd \in Nat /\ netlink_fd < fd /\ fd <= maxfd
  <2>1. PICK p \in ps : fd = tsession[p].sock \/ fd = tsession[p].pty
    BY DEF Fds
  <2> QED
    BY <1>1, <2>1
<1>3. ps # {} => Fds(ps) # {}
  BY DEF Fds
<1> QED
  BY <1>2, <1>3

\* maxfd after a session has been freed.
LEMMA SessionMaxCovers ==
    ASSUME TypeOK, Covered, NEW ps, ps \subseteq DOMAIN tsession
    PROVE  /\ SessionMax(ps) \in Nat
           /\ \A p \in ps : tsession[p].sock <= SessionMax(ps) /\ tsession[p].pty <= SessionMax(ps)
           /\ SessionMax(ps) = 0 \/ SessionMax(ps) > netlink_fd
           /\ ps = {} => SessionMax(ps) = 0
<1>1. /\ Fds(ps) \subseteq Nat
      /\ \A fd \in Fds(ps) : netlink_fd < fd /\ fd <= maxfd
      /\ ps # {} => Fds(ps) # {}
  BY FdsCovered
<1>2. CASE ps = {}
  BY <1>2, ServerAssumption DEF SessionMax
<1>3. CASE ps # {}
  <2>1. SessionMax(ps) = Max(Fds(ps))
    BY <1>3 DEF SessionMax
  <2>2. maxfd \in Nat
    BY DEF TypeOK
  <2>3. Max(Fds(ps)) \in Fds(ps) /\ \A m \in Fds(ps) : m <= Max(Fds(ps))
    BY <1>1, <1>3, <2>2, HasMax
  <2>4. \A p \in ps : tsession[p].sock \in Fds(ps) /\ tsession[p].pty \in Fds(ps)
    BY DEF Fds
  <2> QED
    BY <1>1, <1>3, <2>1, <2>3, <2>4
<1> QED
  BY <1>2, <1>3

\* The session being visited is in the list, and the visit goes on behind it.
LEMMA NextVisit ==
    ASSUME TypeOK, Visiting, todo # <<>>
    PROVE  \E k \in 1 .. Len(sessions) :
              /\ Head(todo) = sessions[k] /\ Head(todo) \in Linked
              /\ Tail(todo) = SubSeq(sessions, k + 1, Len(sessions))
              /\ k + 1 \in 1 .. Len(sessions) + 1
              /\ Len(todo) = Len(sessions) - k + 1 /\ Len(todo) \in Nat
              /\ todo \in Seq(Pids) /\ Tail(todo) \in Seq(Pids)
              /\ Len(Tail(todo)) = Len(todo) - 1
<1>0. /\ sessions \in Seq(Pids) /\ Len(sessions) \in Nat
      /\ \A i \in 1 .. Len(sessions) : sessions[i] \in Pids
  BY DEF TypeOK
<1>1. PICK k \in 1 .. Len(sessions) + 1 : todo = SubSeq(sessions, k, Len(sessions))
  BY DEF Visiting
<1>2. /\ todo \in Seq(Pids)
      /\ Len(todo) = IF k <= Len(sessions) THEN Len(sessions) - k + 1 ELSE 0
      /\ \A i \in 1 .. Len(sessions) - k + 1 : todo[i] = sessions[k + i - 1]
  <2>1. \A i \in k .. Len(sessions) : sessions[i] \in Pids
    BY <1>0
  <2>2. k \in Int /\ Len(sessions) \in Int
    BY <1>0
  <2> QED
    BY <1>1, <2>1, <2>2, SubSeqProperties
<1>3. k \in 1 .. Len(sessions)
  <2>1. Len(todo) # 0
    BY <1>2, EmptySeq
  <2> QED
    BY <1>0, <1>2, <2>1
<1>4. Head(todo) = sessions[k]
  <2>1. 1 \in 1 .. Len(sessions) - k + 1 /\ k + 1 - 1 = k
    BY <1>0, <1>3
  <2>2. todo[1] = sessions[k]
    BY <1>2, <2>1
  <2>3. Head(todo) = todo[1]
    BY <1>2
  <2> QED BY <2>2, <2>3
<1>5. Tail(todo) = SubSeq(sessions, k + 1, Len(sessions))
  <2>1. PICK a, k1 : k1 = k + 1 /\ a = SubSeq(sessions, k1, Len(sessions))
    OBVIOUS
  <2>2. \A i \in k1 .. Len(sessions) : sessions[i] \in Pids
    BY <1>0, <1>3, <2>1
  <2>3. /\ a \in Seq(Pids)
        /\ Len(a) = IF k1 <= Len(sessions) THEN Len(sessions) - k1 + 1 ELSE 0
        /\ \A i \in 1 .. Len(sessions) - k1 + 1 : a[i] = sessions[k1 + i - 1]
    <3>1. k1 \in Int /\ Len(sessions) \in Int
      BY <1>0, <1>3, <2>1
    <3> QED BY <2>1, <2>2, <3>1, SubSeqProperties
  <2>4. PICK t : t = Tail(todo)
    OBVIOUS
  <2>5. /\ t \in Seq(Pids) /\ Len(t) = Len(todo) - 1
        /\ \A i \in 1 .. Len(t) : t[i] = todo[i + 1]
    BY <1>2, <2>4, HeadTailProperties
  <2>6. Len(todo) = Len(sessions) - k + 1 /\ Len(a) = Len(sessions) - k
        /\ Len(t) = Len(sessions) - k /\ Len(sessions) - k1 + 1 = Len(sessions) - k
    BY <1>0, <1>2, <1>3, <2>1, <2>3, <2>5
  <2>7. ASSUME NEW i \in 1 .. Len(sessions) - k PROVE t[i] = a[i]
    <3>1. /\ i + 1 \in 1 .. Len(sessions) - k + 1
          /\ k + (i + 1) - 1 = k1 + i - 1
      BY <1>0, <1>3, <2>1
    <3>2. todo[i + 1] = sessions[k + (i + 1) - 1]
      BY <1>2, <3>1
    <3>3. a[i] = sessions[k1 + i - 1]
      BY <2>3, <2>6
    <3> QED BY <2>5, <2>6, <3>1, <3>2, <3>3
  <2>8. t = a
    BY <2>3, <2>5, <2>6, <2>7, SeqEqual
  <2> QED BY <2>1, <2>4, <2>8
<1>6. Head(todo) \in Linked
  BY <1>3, <1>4 DEF Linked
<1>7. k + 1 \in 1 .. Len(sessions) + 1 /\ Len(todo) = Len(sessions) - k + 1
  BY <1>0, <1>2, <1>3
<1>8. Tail(todo) \in Seq(Pids) /\ Len(Tail(todo)) = Len(todo) - 1
  BY <1>2, HeadTailProperties
<1>9. Len(todo) \in Nat
  BY <1>2
<1> QED
  BY <1>2, <1>3, <1>4, <1>5, <1>6, <1>7, <1>8, <1>9

\* What free_session leaves behind, for the session being visited.
LEMMA Freed ==
    ASSUME TypeOK, Covered, Visiting, todo # <<>>, new = {},
           free_session(Head(todo))
    PROVE  /\ sessions' \in Seq(Pids) /\ IsInjective(sessions')
           /\ DOMAIN tsession' = Linked' /\ \A p \in DOMAIN tsession' : tsession'[p] \in Session
           /\ \E k \in 1 .. Len(sessions') + 1 :
                 Tail(todo) = SubSeq(sessions', k, Len(sessions'))
           /\ \A p \in DOMAIN tsession' : /\ netlink_fd < tsession'[p].sock /\ tsession'[p].sock <= maxfd'
                                    /\ netlink_fd < tsession'[p].pty /\ tsession'[p].pty <= maxfd'
           /\ maxfd' \in Nat /\ (maxfd' = 0 \/ maxfd' > netlink_fd)
           /\ sessions' = <<>> => maxfd' = 0
           /\ raised' = FALSE
           /\ gone' \subseteq Pids
           /\ Len(sessions') = Len(sessions) - 1
<1>0. /\ sessions \in Seq(Pids) /\ IsInjective(sessions) /\ Len(sessions) \in Nat
      /\ DOMAIN tsession = Linked /\ gone \subseteq Pids
      /\ \A p \in DOMAIN tsession : tsession[p] \in Session
      /\ \A i \in 1 .. Len(sessions) : sessions[i] \in Pids
  BY DEF TypeOK
<1>1. PICK k \in 1 .. Len(sessions) :
         /\ Head(todo) = sessions[k]
         /\ Tail(todo) = SubSeq(sessions, k + 1, Len(sessions))
  BY NextVisit
<1>3. k \in 1 .. Len(sessions)
  OBVIOUS
<1>4. Head(todo) = sessions[k]
  BY <1>1
<1>5. Tail(todo) = SubSeq(sessions, k + 1, Len(sessions))
  BY <1>1
<1>6. sessions' = RemoveAt(sessions, k)
  <2>1. PICK i \in 1 .. Len(sessions) : /\ sessions[i] = Head(todo)
                                       /\ sessions' = RemoveAt(sessions, i)
    BY DEF free_session
  <2>2. i = k
    <3>1. DOMAIN sessions = 1 .. Len(sessions)
      BY <1>0
    <3> QED BY <1>0, <1>3, <1>4, <2>1, <3>1 DEF IsInjective
  <2> QED BY <2>1, <2>2
<1>7. PICK t : t = sessions'
  OBVIOUS
<1>8. /\ t \in Seq(Pids) /\ Len(t) = Len(sessions) - 1
      /\ IsInjective(t)
      /\ Members(t) = Members(sessions) \ {sessions[k]}
      /\ SubSeq(t, k, Len(t)) = SubSeq(sessions, k + 1, Len(sessions))
  <2>1. PICK s : s = sessions
    OBVIOUS
  <2>2. s \in Seq(Pids) /\ IsInjective(s) /\ k \in 1 .. Len(s) /\ t = RemoveAt(s, k)
    BY <1>0, <1>3, <1>6, <1>7, <2>1
  <2>3. /\ t \in Seq(Pids) /\ Len(t) = Len(s) - 1
        /\ IsInjective(t)
        /\ Members(t) = Members(s) \ {s[k]}
        /\ SubSeq(t, k, Len(t)) = SubSeq(s, k + 1, Len(s))
    BY <2>2, Removed
  <2> QED
    BY <2>1, <2>3, Zenon
<1>9. Linked' = Linked \ {Head(todo)}
  <2>1. Linked = Members(sessions) /\ Linked' = Members(t)
    BY <1>7 DEF Linked, Members
  <2> QED
    BY <1>4, <1>8, <2>1
<1>10. k \in 1 .. Len(t) + 1
  BY <1>0, <1>3, <1>8
<1>11. \E n \in 1 .. Len(t) + 1 : Tail(todo) = SubSeq(t, n, Len(t))
  BY <1>5, <1>8, <1>10
<1>12. PICK ps : ps = Linked \ {Head(todo)}
  OBVIOUS
<1>13. ps \subseteq DOMAIN tsession /\ ps = DOMAIN tsession \ {Head(todo)}
  BY <1>0, <1>12
<1>14. /\ tsession' = [q \in ps |-> tsession[q]] /\ maxfd' = SessionMax(ps) /\ raised' = FALSE
       /\ gone' \subseteq gone
  BY <1>12, <1>13 DEF free_session
<1>15. /\ SessionMax(ps) \in Nat
       /\ \A p \in ps : tsession[p].sock <= SessionMax(ps) /\ tsession[p].pty <= SessionMax(ps)
       /\ SessionMax(ps) = 0 \/ SessionMax(ps) > netlink_fd
       /\ ps = {} => SessionMax(ps) = 0
  BY <1>13, SessionMaxCovers
<1>16. sessions' = <<>> => ps = {}
  <2> SUFFICES ASSUME t = <<>> PROVE ps = {}
    BY <1>7
  <2>1. Len(t) = 0
    OBVIOUS
  <2>2. {t[i] : i \in 1 .. Len(t)} = {}
    BY <2>1
  <2>3. Linked' = {t[i] : i \in 1 .. Len(t)}
    BY <1>7 DEF Linked
  <2> QED
    BY <1>9, <1>12, <2>2, <2>3, Zenon
<1>17. DOMAIN tsession' = ps /\ \A p \in ps : tsession'[p] = tsession[p]
  BY <1>14
<1>18. \A p \in ps : /\ tsession[p] \in Session
                     /\ netlink_fd < tsession[p].sock /\ netlink_fd < tsession[p].pty
  BY <1>0, <1>13 DEF Covered
<1> QED
  BY <1>0, <1>7, <1>8, <1>9, <1>11, <1>12, <1>14, <1>15, <1>16, <1>17, <1>18

-----------------------------------------------------------------------------
(* One lemma for each kind of step.                                          *)

LEMMA InitIInv == Init => IInv
<1> SUFFICES ASSUME Init PROVE IInv
  OBVIOUS
<1>1. sessions = <<>> /\ Len(sessions) = 0 /\ todo = <<>> /\ new = {}
  BY DEF Init
<1>2. Linked = {}
  BY <1>1 DEF Linked
<1>3. DOMAIN tsession = {}
  BY DEF Init
<1>4. Visiting
  <2>1. 1 \in 1 .. Len(sessions) + 1 /\ SubSeq(sessions, 1, Len(sessions)) = <<>>
    BY <1>1, SubSeqEmpty
  <2> QED
    BY <1>1, <2>1 DEF Visiting
<1>5. sessions \in Seq(Pids) /\ IsInjective(sessions)
  BY <1>1 DEF IsInjective
<1>6. backlog \in 0 .. MaxQueue /\ netq \in 0 .. MaxQueue
  BY ServerAssumption DEF Init
<1>7. TypeOK
  BY <1>1, <1>2, <1>3, <1>4, <1>5, <1>6 DEF Init, TypeOK
<1>8. Listed /\ Covered
  BY <1>1, <1>3, ServerAssumption DEF Init, Listed, Covered
<1> QED
  BY <1>7, <1>8 DEF IInv

\* The list and the sessions are as they were: what is left to show.
Unlisted ==
    /\ pc' \in {"scan", "call", "blocked", "accept", "link", "serve", "recv",
                "rest", "exited"}
    /\ Visiting' \/ pc' \in {"accept", "link", "exited"}
    /\ fds' \subseteq Nat
    /\ pc' # "link"
    /\ pc' = "accept" => todo' = sessions
    /\ pc' \in {"serve", "recv", "rest"} => todo' # <<>>
    /\ maxfd' \in Nat /\ maxfd' >= maxfd
    /\ maxfd' \in {0, master_fd} \/ maxfd' > netlink_fd
    /\ raised' \in BOOLEAN
    /\ sessions = <<>> /\ ~raised' => maxfd' \in {0, master_fd}
    /\ pc' \in {"call", "blocked"} => master_fd <= maxfd'
    /\ backlog' \in 0 .. MaxQueue /\ netq' \in 0 .. MaxQueue

\* A step of the loop that changes none of the sessions.
LEMMA LoopOnly ==
    ASSUME IInv, pc # "link", UNCHANGED <<sessions, tsession, new, proc, slave, gone>>,
           Unlisted
    PROVE  IInv'
<1>0. new = {}
  BY DEF IInv, Listed
<1>1. Linked' = Linked
  BY DEF Linked
<1>2. TypeOK'
  BY <1>1 DEF IInv, TypeOK, Unlisted
<1>3. Listed'
  BY <1>0, <1>1 DEF Listed, Unlisted
<1>4. ASSUME NEW p \in DOMAIN tsession'
      PROVE  /\ netlink_fd < tsession'[p].sock /\ tsession'[p].sock <= maxfd'
             /\ netlink_fd < tsession'[p].pty /\ tsession'[p].pty <= maxfd'
  <2>1. p \in DOMAIN tsession /\ tsession'[p] = tsession[p]
    OBVIOUS
  <2>2. PICK a, b, m, n : a = tsession[p].sock /\ b = tsession[p].pty /\ m = maxfd /\ n = maxfd'
    OBVIOUS
  <2>3. /\ a \in Nat /\ b \in Nat /\ m \in Nat /\ n \in Nat
        /\ netlink_fd < a /\ a <= m /\ netlink_fd < b /\ b <= m /\ m <= n
    BY <2>1, <2>2 DEF IInv, TypeOK, Covered, Session, Unlisted
  <2>4. a <= n /\ b <= n
    BY <2>3
  <2> QED
    BY <2>1, <2>2, <2>3, <2>4
<1>5. Covered'
  BY <1>0, <1>4 DEF Covered, Unlisted
<1> QED
  BY <1>2, <1>3, <1>5 DEF IInv

\* All of the list is to be visited, or nothing of it is left.
LEMMA WholeList ==
    ASSUME NEW s \in Seq(Pids)
    PROVE  \E k \in 1 .. Len(s) + 1 : s = SubSeq(s, k, Len(s))
<1>1. 1 \in 1 .. Len(s) + 1 /\ s = SubSeq(s, 1, Len(s))
  BY SubSeqFull
<1> QED
  BY <1>1

LEMMA NothingLeft ==
    ASSUME NEW s \in Seq(Pids)
    PROVE  \E k \in 1 .. Len(s) + 1 : <<>> = SubSeq(s, k, Len(s))
<1>1. Len(s) + 1 \in 1 .. Len(s) + 1 /\ Len(s) + 1 \in Int /\ Len(s) \in Int
      /\ Len(s) + 1 > Len(s)
  OBVIOUS
<1>2. SubSeq(s, Len(s) + 1, Len(s)) = <<>>
  BY <1>1, SubSeqEmpty
<1> QED
  BY <1>1, <1>2

LEMMA ScanStep ==
    ASSUME IInv, Scan
    PROVE  IInv'
<1>0. TypeOK /\ Listed /\ Covered /\ pc = "scan" /\ todo # <<>> /\ new = {} /\ Visiting
  BY DEF IInv, Listed, TypeOK, Scan
<1>1. PICK k \in 1 .. Len(sessions) :
         /\ Tail(todo) = SubSeq(sessions, k + 1, Len(sessions))
         /\ k + 1 \in 1 .. Len(sessions) + 1
         /\ Head(todo) \in Linked
  BY <1>0, NextVisit
<1>2. CASE free_session(Head(todo)) /\ UNCHANGED fds
  <2>1. /\ sessions' \in Seq(Pids) /\ IsInjective(sessions')
        /\ DOMAIN tsession' = Linked' /\ \A p \in DOMAIN tsession' : tsession'[p] \in Session
        /\ \E n \in 1 .. Len(sessions') + 1 :
              Tail(todo) = SubSeq(sessions', n, Len(sessions'))
        /\ \A p \in DOMAIN tsession' : /\ netlink_fd < tsession'[p].sock /\ tsession'[p].sock <= maxfd'
                                 /\ netlink_fd < tsession'[p].pty /\ tsession'[p].pty <= maxfd'
        /\ maxfd' \in Nat /\ (maxfd' = 0 \/ maxfd' > netlink_fd)
        /\ sessions' = <<>> => maxfd' = 0
        /\ raised' = FALSE
        /\ gone' \subseteq Pids
    BY <1>0, <1>2, Freed
  <2>2. /\ pc' = "scan" /\ todo' = Tail(todo) /\ new' = {}
        /\ UNCHANGED <<fds, proc, slave, backlog, netq>>
    BY <1>0, <1>2 DEF Scan
  <2>3. Visiting'
    BY <2>1, <2>2 DEF Visiting
  <2>4. TypeOK'
    BY <1>0, <2>1, <2>2, <2>3 DEF TypeOK
  <2>5. Listed'
    BY <2>2 DEF Listed
  <2>6. Covered'
    BY <2>1, <2>2 DEF Covered
  <2> QED
    BY <2>4, <2>5, <2>6 DEF IInv
<1>3. CASE /\ tsession[Head(todo)].shell_pid # -1
           /\ fds' = fds \cup {fd \in {tsession[Head(todo)].sock, tsession[Head(todo)].pty} :
                        \/ fd = tsession[Head(todo)].sock /\ 1 \notin tsession[Head(todo)].full
                        \/ fd = tsession[Head(todo)].pty /\ 2 \notin tsession[Head(todo)].full}
           /\ UNCHANGED <<sessions, tsession, maxfd, raised, gone>>
  <2>1. tsession[Head(todo)].sock \in Nat /\ tsession[Head(todo)].pty \in Nat
    BY <1>0, <1>1 DEF TypeOK, Session
  <2>2. fds' \subseteq Nat
    BY <1>0, <1>3, <2>1 DEF TypeOK
  <2>3. /\ pc' = "scan" /\ todo' = Tail(todo)
        /\ UNCHANGED <<sessions, tsession, maxfd, raised, gone, new, proc, slave, backlog, netq>>
    BY <1>0, <1>3 DEF Scan
  <2>4. Visiting'
    BY <1>1, <2>3 DEF Visiting
  <2>5. Unlisted
    BY <1>0, <2>2, <2>3, <2>4 DEF TypeOK, Covered, Unlisted
  <2> QED
    BY <1>0, <2>3, <2>5, LoopOnly
<1> QED
  BY <1>2, <1>3 DEF Scan

\* The descriptors of a new client, and what they raise maxfd to.
LEMMA NewFds ==
    ASSUME TypeOK, Covered, NEW sock, NEW pty, NEW m,
           sock = Lowest(Fds(Linked)), pty = Lowest(Fds(Linked) \cup {sock}),
           m = Max({maxfd, sock, pty})
    PROVE  /\ sock \in Nat /\ pty \in Nat /\ m \in Nat
           /\ sock > netlink_fd /\ pty > netlink_fd /\ m > netlink_fd
           /\ maxfd <= m /\ sock <= m /\ pty <= m
<1>0. maxfd \in Nat /\ netlink_fd \in Nat
  BY ServerAssumption DEF TypeOK
<1>1. Fds(Linked) \subseteq Nat /\ \A fd \in Fds(Linked) : fd <= maxfd
  <2>1. Linked \subseteq DOMAIN tsession
    BY DEF TypeOK
  <2> QED
    BY <2>1, FdsCovered
<1>2. sock \in Nat /\ sock > netlink_fd
  <2>1. PICK used : used = Fds(Linked)
    OBVIOUS
  <2> QED
    BY <1>0, <1>1, <2>1, LowestIsAbove
<1>3. pty \in Nat /\ pty > netlink_fd
  <2>1. PICK used, b : used = Fds(Linked) \cup {sock} /\ b = maxfd + sock
    OBVIOUS
  <2>2. used \subseteq Nat /\ b \in Nat
    BY <1>0, <1>1, <1>2, <2>1
  <2>3. ASSUME NEW x \in used PROVE x <= b
    <3>1. CASE x \in Fds(Linked)
      <4>1. PICK c \in Nat : c = maxfd
        BY <1>0
      <4>2. x \in Nat /\ x <= c
        BY <1>1, <3>1, <4>1
      <4>3. b = c + sock
        BY <2>1, <4>1
      <4> QED BY <1>2, <4>2, <4>3
    <3>2. CASE x = sock
      BY <1>0, <1>2, <2>1, <3>2
    <3> QED BY <2>1, <3>1, <3>2
  <2> QED
    BY <2>1, <2>2, <2>3, LowestIsAbove
<1>4. PICK S, b : S = {maxfd, sock, pty} /\ b = maxfd + sock + pty
  OBVIOUS
<1>5. /\ S \subseteq Nat /\ S # {} /\ b \in Nat /\ \A x \in S : x <= b
  BY <1>0, <1>2, <1>3, <1>4
<1>6. m \in S /\ \A x \in S : x <= m
  BY <1>4, <1>5, HasMax
<1>7. m \in Nat /\ maxfd <= m /\ sock <= m /\ pty <= m
  BY <1>4, <1>5, <1>6
<1>8. m > netlink_fd
  BY <1>0, <1>2, <1>7
<1> QED
  BY <1>2, <1>3, <1>7, <1>8

LEMMA SelectSetupStep ==
    ASSUME IInv, SelectSetup
    PROVE  IInv'
<1>0. /\ TypeOK /\ Listed /\ Covered /\ pc = "scan" /\ todo = <<>> /\ new = {}
      /\ pc' = "call" /\ UNCHANGED <<sessions, tsession, raised, todo, new, env>>
      /\ maxfd' = SelectMax(maxfd) /\ fds' = fds \cup {master_fd, netlink_fd}
      /\ maxfd \in Nat /\ sessions \in Seq(Pids)
  BY DEF IInv, Listed, TypeOK, SelectSetup
<1>1. /\ maxfd' \in Nat /\ maxfd' >= maxfd /\ maxfd' >= master_fd
      /\ maxfd' = master_fd \/ (maxfd' = maxfd /\ maxfd > netlink_fd)
  <2>1. PICK m, n : m = maxfd /\ n = maxfd'
    OBVIOUS
  <2>2. m \in Nat /\ (m \in {0, master_fd} \/ m > netlink_fd) /\ n = SelectMax(m)
    BY <1>0, <2>1 DEF Covered
  <2>3. /\ n \in Nat /\ n >= m /\ n >= master_fd
        /\ n = master_fd \/ (n = m /\ m > netlink_fd)
    BY <2>2, ServerAssumption DEF SelectMax
  <2> QED
    BY <2>1, <2>3
<1>2. Visiting'
  <2>1. \E k \in 1 .. Len(sessions) + 1 : <<>> = SubSeq(sessions, k, Len(sessions))
    BY <1>0, NothingLeft
  <2> QED
    BY <1>0, <2>1 DEF Visiting
<1>3. fds' \subseteq Nat
  BY <1>0, ServerAssumption DEF TypeOK
<1>4. sessions = <<>> /\ ~raised => maxfd' \in {0, master_fd}
  <2>1. sessions = <<>> /\ ~raised => maxfd \in {0, master_fd}
    BY <1>0 DEF Covered
  <2>2. maxfd \in {0, master_fd} => ~(maxfd > netlink_fd)
    BY ServerAssumption
  <2> QED
    BY <1>1, <2>1, <2>2
<1>5. Unlisted
  BY <1>0, <1>1, <1>2, <1>3, <1>4, ServerAssumption DEF Unlisted, TypeOK, env
<1> QED
  BY <1>0, <1>5, LoopOnly DEF env

\* A jump to "again": the list is visited from its start.
LEMMA AgainStep ==
    ASSUME IInv, pc # "link", UNCHANGED <<sessions, tsession, new, proc, slave, gone>>,
           Again(sessions),
           maxfd' \in Nat /\ maxfd' >= maxfd,
           \/ UNCHANGED <<maxfd, raised>>
           \/ maxfd' > netlink_fd /\ raised' = TRUE,
           backlog' \in 0 .. MaxQueue, netq' \in 0 .. MaxQueue
    PROVE  IInv'
<1>0. TypeOK /\ Covered /\ Listed /\ sessions \in Seq(Pids) /\ new = {}
  BY DEF IInv, TypeOK, Listed
<1>1. pc' = "scan" /\ todo' = sessions /\ fds' = {}
  BY DEF Again
<1>2. Visiting'
  <2>1. \E k \in 1 .. Len(sessions) + 1 : sessions = SubSeq(sessions, k, Len(sessions))
    BY <1>0, WholeList
  <2> QED
    BY <1>1, <2>1 DEF Visiting
<1>3. Unlisted
  BY <1>0, <1>1, <1>2, ServerAssumption DEF Unlisted, TypeOK, Covered
<1> QED
  BY <1>3, LoopOnly

LEMMA SelectStep ==
    ASSUME IInv, NEW chat, Select(chat)
    PROVE  IInv'
<1>0. /\ TypeOK /\ Listed /\ Covered /\ pc = "blocked" /\ new = {}
      /\ UNCHANGED <<sessions, tsession, maxfd, raised, new, env>>
      /\ maxfd \in Nat /\ sessions \in Seq(Pids)
      /\ backlog' \in 0 .. MaxQueue /\ netq' \in 0 .. MaxQueue
  BY DEF IInv, Listed, TypeOK, Select, env
<1>1. CASE sessions = <<>> /\ Again(<<>>)
  BY <1>0, <1>1, AgainStep DEF env
<1>2. CASE /\ sessions # <<>> \/ pc' = "accept"
           /\ fds' \subseteq fds /\ pc' \in {"accept", "serve"} /\ todo' = sessions
  <2>1. Visiting'
    <3>1. \E k \in 1 .. Len(sessions) + 1 : sessions = SubSeq(sessions, k, Len(sessions))
      BY <1>0, WholeList
    <3> QED
      BY <1>0, <1>2, <3>1 DEF Visiting
  <2>2. Unlisted
    BY <1>0, <1>2, <2>1 DEF Unlisted, TypeOK, Covered
  <2> QED
    BY <1>0, <2>2, LoopOnly DEF env
<1>3. \/ sessions = <<>> /\ Again(<<>>)
      \/ /\ sessions # <<>> \/ pc' = "accept"
         /\ fds' \subseteq fds /\ pc' \in {"accept", "serve"} /\ todo' = sessions
  <2>1. PICK r : /\ r = {fd \in (Readable \cup Fds(chat)) \cap fds : fd <= maxfd}
                 /\ \/ sessions = <<>> /\ master_fd \notin r /\ Again(<<>>)
                    \/ /\ sessions # <<>> \/ master_fd \in r
                       /\ fds' = r
                       /\ pc' = IF master_fd \in r THEN "accept" ELSE "serve"
                       /\ todo' = sessions
    BY DEF Select
  <2>2. r \subseteq fds
    BY <2>1
  <2> QED
    BY <2>1, <2>2
<1> QED
  BY <1>1, <1>2, <1>3

\* SelectCall, and what the loop does while it has a client to accept and
\* makes no session for it.
LEMMA AcceptStep ==
    ASSUME IInv, SelectCall \/ Refuse \/ Die \/ VforkFails
    PROVE  IInv'
<1>0. /\ TypeOK /\ Listed /\ Covered /\ sessions \in Seq(Pids) /\ maxfd \in Nat
      /\ backlog \in 0 .. MaxQueue /\ netq \in 0 .. MaxQueue
      /\ backlog > 0 => backlog - 1 \in 0 .. MaxQueue
  BY ServerAssumption DEF IInv, TypeOK
<1>1. CASE SelectCall
  <2>1. Visiting'
    BY <1>0, <1>1 DEF SelectCall, TypeOK, Visiting
  <2>2. Unlisted
    BY <1>0, <1>1, <2>1 DEF SelectCall, Unlisted, TypeOK, Listed, Covered, env
  <2> QED
    BY <1>1, <2>2, LoopOnly DEF SelectCall, env
<1>2. CASE Refuse
  BY <1>0, <1>2, AgainStep DEF Refuse
<1>3. CASE Die
  <2>1. Unlisted
    BY <1>0, <1>3 DEF Die, Unlisted, TypeOK, Listed, Covered, env
  <2> QED
    BY <1>3, <2>1, LoopOnly DEF Die, env
<1>4. CASE VforkFails
  <2>1. PICK sock, pty, m :
           /\ sock = Lowest(Fds(Linked)) /\ pty = Lowest(Fds(Linked) \cup {sock})
           /\ m = Max({maxfd, sock, pty}) /\ maxfd' = m
    BY <1>4 DEF VforkFails
  <2>2. m \in Nat /\ m > netlink_fd /\ maxfd <= m
    BY <1>0, <2>1, NewFds
  <2>3. /\ maxfd' \in Nat /\ maxfd' > netlink_fd /\ maxfd' >= maxfd
    BY <1>0, <2>1, <2>2
  <2>4. /\ pc = "accept" /\ raised' = TRUE /\ backlog' \in 0 .. MaxQueue
        /\ UNCHANGED <<sessions, tsession, new, proc, slave, gone, netq>>
        /\ netq' \in 0 .. MaxQueue
    BY <1>0, <1>4 DEF VforkFails
  <2>5. CASE sessions = <<>> /\ Again(<<>>)
    BY <2>3, <2>4, <2>5, AgainStep
  <2>6. CASE sessions # <<>> /\ pc' = "serve" /\ UNCHANGED <<todo, fds>>
    <3>1. todo = sessions
      BY <1>0, <2>4 DEF Listed
    <3>2. Visiting'
      <4>1. \E k \in 1 .. Len(sessions) + 1 : sessions = SubSeq(sessions, k, Len(sessions))
        BY <1>0, WholeList
      <4> QED
        BY <2>4, <2>6, <3>1, <4>1 DEF Visiting
    <3>3. Unlisted
      BY <1>0, <2>3, <2>4, <2>6, <3>1, <3>2 DEF Unlisted, TypeOK
    <3> QED
      BY <2>4, <3>3, LoopOnly
  <2> QED
    BY <1>4, <2>5, <2>6 DEF VforkFails
<1> QED
  BY <1>1, <1>2, <1>3, <1>4

LEMMA NewSessionStep ==
    ASSUME IInv, NEW q \in Pids, make_new_session(q)
    PROVE  IInv'
<1>0. /\ TypeOK /\ Listed /\ Covered /\ pc = "accept" /\ new = {} /\ pc' = "link"
      /\ q \notin Linked /\ new' = {q} /\ DOMAIN tsession = Linked
      /\ UNCHANGED <<sessions, raised, todo, fds, gone, netq>>
      /\ slave' = slave \cup {q} /\ proc' = [proc EXCEPT ![q] = "run"]
  BY DEF IInv, Listed, TypeOK, make_new_session
<1>1. backlog' \in 0 .. MaxQueue
  BY <1>0, ServerAssumption DEF TypeOK, make_new_session
<1>2. PICK sock, pty, m :
         /\ sock = Lowest(Fds(Linked)) /\ pty = Lowest(Fds(Linked) \cup {sock})
         /\ m = Max({maxfd, sock, pty}) /\ maxfd' = m
         /\ tsession' = [p \in DOMAIN tsession \cup {q} |->
                     IF p = q THEN [sock |-> sock, pty |-> pty, shell_pid |-> q,
                                    full |-> {}]
                     ELSE tsession[p]]
  BY DEF make_new_session
<1>3. /\ sock \in Nat /\ pty \in Nat /\ m \in Nat
      /\ sock > netlink_fd /\ pty > netlink_fd /\ m > netlink_fd
      /\ maxfd <= m /\ sock <= m /\ pty <= m
  BY <1>0, <1>2, NewFds
<1>4. Linked' = Linked /\ DOMAIN tsession' = Linked' \cup new'
  BY <1>0, <1>2 DEF Linked
<1>5. ASSUME NEW p \in DOMAIN tsession'
      PROVE  /\ tsession'[p] \in Session
             /\ netlink_fd < tsession'[p].sock /\ tsession'[p].sock <= m
             /\ netlink_fd < tsession'[p].pty /\ tsession'[p].pty <= m
  <2>1. CASE p = q
    <3>1. tsession'[p] = [sock |-> sock, pty |-> pty, shell_pid |-> q, full |-> {}]
      BY <1>2, <2>1
    <3> QED
      BY <1>3, <3>1, ServerAssumption DEF Session
  <2>2. CASE p # q
    <3>1. p \in DOMAIN tsession /\ tsession'[p] = tsession[p]
      BY <1>2, <2>2
    <3>2. PICK a, b, n : a = tsession[p].sock /\ b = tsession[p].pty /\ n = maxfd
      OBVIOUS
    <3>3. /\ a \in Nat /\ b \in Nat /\ n \in Nat /\ tsession[p] \in Session
          /\ netlink_fd < a /\ a <= n /\ netlink_fd < b /\ b <= n /\ n <= m
      BY <1>0, <1>3, <3>1, <3>2 DEF TypeOK, Covered, Session
    <3>4. a <= m /\ b <= m
      BY <1>3, <3>3
    <3> QED
      BY <3>1, <3>2, <3>3, <3>4
  <2> QED
    BY <2>1, <2>2
<1>6. maxfd' \in Nat /\ maxfd' > netlink_fd
  BY <1>2, <1>3
<1>7. proc' \in [Pids -> {"none", "run", "zombie"}]
  BY <1>0 DEF TypeOK
<1>8. TypeOK'
  BY <1>0, <1>1, <1>4, <1>5, <1>6, <1>7 DEF TypeOK
<1>9. Listed'
  BY <1>0, <1>4 DEF Listed
<1>10. Covered'
  BY <1>0, <1>2, <1>5, <1>6 DEF Covered
<1> QED
  BY <1>8, <1>9, <1>10 DEF IInv

LEMMA LinkStep ==
    ASSUME IInv, Link
    PROVE  IInv'
<1>0. /\ TypeOK /\ Listed /\ Covered /\ pc = "link"
      /\ UNCHANGED <<tsession, maxfd, raised, fds, env>> /\ new' = {} /\ pc' = "serve"
      /\ sessions \in Seq(Pids) /\ IsInjective(sessions)
  BY DEF IInv, TypeOK, Link
<1>1. PICK p \in Pids : p \notin Linked /\ new = {p}
  BY <1>0 DEF Listed
<1>2. PICK t : t = <<p>> \o sessions
  OBVIOUS
<1>3. sessions' = t /\ todo' = t
  BY <1>1, <1>2 DEF Link
<1>4. /\ t \in Seq(Pids) /\ Len(t) = Len(sessions) + 1 /\ t[1] = p
      /\ \A i \in 1 .. Len(sessions) : t[i + 1] = sessions[i]
  <2>1. PICK a : a = <<p>>
    OBVIOUS
  <2>2. a \in Seq(Pids) /\ Len(a) = 1 /\ a[1] = p
    BY <2>1
  <2>3. /\ a \o sessions \in Seq(Pids) /\ Len(a \o sessions) = Len(a) + Len(sessions)
        /\ \A i \in 1 .. Len(a) + Len(sessions) :
              (a \o sessions)[i] = IF i <= Len(a) THEN a[i] ELSE sessions[i - Len(a)]
    BY <1>0, <2>2, ConcatProperties, Zenon
  <2>4. t = a \o sessions
    BY <1>2, <2>1
  <2>5. \A i \in 1 .. 1 + Len(sessions) : t[i] = IF i <= 1 THEN a[i] ELSE sessions[i - 1]
    BY <2>2, <2>3, <2>4
  <2>6. Len(sessions) \in Nat
    BY <1>0
  <2>7. 1 \in 1 .. 1 + Len(sessions)
    BY <2>6
  <2>8. ASSUME NEW i \in 1 .. Len(sessions) PROVE t[i + 1] = sessions[i]
    <3>1. i + 1 \in 1 .. 1 + Len(sessions) /\ ~(i + 1 <= 1) /\ (i + 1) - 1 = i
      BY <2>6
    <3> QED BY <2>5, <3>1
  <2>9. Len(t) = 1 + Len(sessions)
    BY <2>2, <2>3, <2>4
  <2> QED
    BY <2>2, <2>3, <2>4, <2>5, <2>6, <2>7, <2>8, <2>9
<1>5. ASSUME NEW i \in 1 .. Len(t)
      PROVE  i = 1 \/ (i - 1 \in 1 .. Len(sessions) /\ t[i] = sessions[i - 1])
  <2>1. CASE i # 1
    <3>1. i - 1 \in 1 .. Len(sessions) /\ (i - 1) + 1 = i
      BY <1>0, <1>4, <2>1
    <3> QED BY <1>4, <3>1
  <2> QED BY <2>1
<1>6. \A i \in 1 .. Len(sessions) : sessions[i] # p
  BY <1>1 DEF Linked
<1>7. ASSUME NEW i \in 1 .. Len(t), NEW j \in 1 .. Len(t), t[i] = t[j]
      PROVE  i = j
  <2>1. \A x, y \in 1 .. Len(sessions) : sessions[x] = sessions[y] => x = y
    BY <1>0 DEF IsInjective
  <2>2. CASE i = 1 \/ j = 1
    BY <1>4, <1>5, <1>6, <1>7, <2>2
  <2>3. CASE i # 1 /\ j # 1
    <3>1. i - 1 = j - 1
      BY <1>5, <1>7, <2>1, <2>3
    <3> QED BY <3>1
  <2> QED BY <2>2, <2>3
<1>8. IsInjective(t)
  <2>1. DOMAIN t = 1 .. Len(t)
    BY <1>4
  <2> QED BY <1>7, <2>1 DEF IsInjective
<1>9. Linked' = Linked \cup {p}
  <2>1. Linked' = {t[i] : i \in 1 .. Len(t)}
    BY <1>3 DEF Linked
  <2>2. ASSUME NEW x PROVE (\E i \in 1 .. Len(t) : x = t[i])
                              <=> (\E i \in 1 .. Len(sessions) : x = sessions[i]) \/ x = p
    <3>0. Len(sessions) \in Nat
      BY <1>0
    <3>1. 1 \in 1 .. Len(t) /\ \A i \in 1 .. Len(sessions) : i + 1 \in 1 .. Len(t)
      BY <1>4, <3>0
    <3> QED
      BY <1>4, <1>5, <3>1
  <2> QED
    BY <2>1, <2>2 DEF Linked
<1>10. Visiting' /\ t # <<>>
  <2>1. \E k \in 1 .. Len(t) + 1 : t = SubSeq(t, k, Len(t))
    BY <1>4, WholeList
  <2>2. Len(t) # 0
    BY <1>0, <1>4
  <2>3. t # <<>>
    BY <2>2
  <2> QED
    BY <1>3, <2>1, <2>3 DEF Visiting
<1>11. TypeOK'
  BY <1>0, <1>1, <1>3, <1>4, <1>8, <1>9, <1>10 DEF TypeOK, env
<1>12. Listed'
  BY <1>0, <1>3, <1>10 DEF Listed
<1>13. Covered'
  BY <1>0, <1>3, <1>10 DEF Covered
<1> QED
  BY <1>11, <1>12, <1>13 DEF IInv

\* The end of a session's turn: it goes on, or it has been freed.
LEMMA TurnStep ==
    ASSUME IInv, pc \in {"serve", "rest"},
           \/ free_session(Head(todo)) /\ NextSession(sessions')
           \/ /\ NextSession(sessions) /\ UNCHANGED <<sessions, maxfd, raised, gone>>
              /\ \E full \in SUBSET {1, 2} : tsession' = [tsession EXCEPT ![Head(todo)].full = full],
           UNCHANGED <<new, proc, slave, backlog, netq>>
    PROVE  IInv'
<1>0. TypeOK /\ Listed /\ Covered /\ todo # <<>> /\ new = {} /\ Visiting /\ new' = {}
  BY DEF IInv, Listed, TypeOK
<1>1. PICK k \in 1 .. Len(sessions) :
         /\ Tail(todo) = SubSeq(sessions, k + 1, Len(sessions))
         /\ k + 1 \in 1 .. Len(sessions) + 1
         /\ Head(todo) \in Linked
         /\ todo \in Seq(Pids) /\ Len(todo) \in Nat
         /\ Tail(todo) \in Seq(Pids) /\ Len(Tail(todo)) = Len(todo) - 1
  BY <1>0, NextVisit
<1>2. NextSession(sessions')
  OBVIOUS
<1>3. /\ sessions' \in Seq(Pids) /\ IsInjective(sessions')
      /\ DOMAIN tsession' = Linked' /\ \A p \in DOMAIN tsession' : tsession'[p] \in Session
      /\ \E n \in 1 .. Len(sessions') + 1 :
            Tail(todo) = SubSeq(sessions', n, Len(sessions'))
      /\ \A p \in DOMAIN tsession' : /\ netlink_fd < tsession'[p].sock /\ tsession'[p].sock <= maxfd'
                               /\ netlink_fd < tsession'[p].pty /\ tsession'[p].pty <= maxfd'
      /\ maxfd' \in Nat /\ (maxfd' \in {0, master_fd} \/ maxfd' > netlink_fd)
      /\ sessions' = <<>> /\ ~raised' => maxfd' \in {0, master_fd}
      /\ raised' \in BOOLEAN
      /\ gone' \subseteq Pids
  <2>1. CASE free_session(Head(todo))
    BY <1>0, <2>1, Freed
  <2>2. CASE /\ UNCHANGED <<sessions, maxfd, raised, gone>>
             /\ \E full \in SUBSET {1, 2} : tsession' = [tsession EXCEPT ![Head(todo)].full = full]
    <3>1. PICK full \in SUBSET {1, 2} : tsession' = [tsession EXCEPT ![Head(todo)].full = full]
      BY <2>2
    <3>2. Linked' = Linked /\ DOMAIN tsession' = Linked'
      BY <1>0, <2>2, <3>1 DEF Linked, TypeOK
    <3>3. ASSUME NEW p \in DOMAIN tsession'
          PROVE  /\ tsession'[p] \in Session
                 /\ tsession'[p].sock = tsession[p].sock /\ tsession'[p].pty = tsession[p].pty
      <4>1. p \in DOMAIN tsession /\ tsession[p] \in Session
        BY <1>0, <3>1 DEF TypeOK
      <4>2. CASE p = Head(todo)
        <5>1. tsession'[p] = [tsession[p] EXCEPT !.full = full]
          BY <3>1, <4>1, <4>2
        <5> QED BY <4>1, <5>1 DEF Session
      <4>3. CASE p # Head(todo)
        BY <3>1, <4>1, <4>3
      <4> QED BY <4>2, <4>3
    <3>4. DOMAIN tsession' = DOMAIN tsession
      BY <3>1
    <3> QED
      BY <1>0, <1>1, <2>2, <3>2, <3>3, <3>4 DEF TypeOK, Covered
  <2> QED
    BY <2>1, <2>2
<1>4. CASE Len(todo) > 1 /\ pc' = "serve" /\ todo' = Tail(todo) /\ UNCHANGED fds
  <2>1. todo' # <<>>
    <3>1. PICK t : t = Tail(todo)
      OBVIOUS
    <3>2. Len(t) # 0
      BY <1>1, <1>4, <3>1
    <3>3. t # <<>>
      BY <3>2
    <3> QED BY <1>4, <3>1, <3>3
  <2>2. Visiting'
    BY <1>3, <1>4 DEF Visiting
  <2>3. TypeOK'
    BY <1>0, <1>3, <1>4, <2>2 DEF TypeOK
  <2>4. Listed' /\ Covered'
    BY <1>0, <1>3, <1>4, <2>1 DEF Listed, Covered
  <2> QED
    BY <2>3, <2>4 DEF IInv
<1>5. CASE Again(sessions')
  <2>1. pc' = "scan" /\ todo' = sessions' /\ fds' = {}
    BY <1>5 DEF Again
  <2>2. Visiting'
    <3>1. PICK s : s = sessions'
      OBVIOUS
    <3>2. \E n \in 1 .. Len(s) + 1 : s = SubSeq(s, n, Len(s))
      BY <1>3, <3>1, WholeList
    <3> QED
      BY <2>1, <3>1, <3>2 DEF Visiting
  <2>3. TypeOK'
    BY <1>0, <1>3, <2>1, <2>2 DEF TypeOK
  <2>4. Listed' /\ Covered'
    BY <1>0, <1>3, <2>1 DEF Listed, Covered
  <2> QED
    BY <2>3, <2>4 DEF IInv
<1> QED
  BY <1>2, <1>4, <1>5 DEF NextSession

LEMMA ServeStep ==
    ASSUME IInv,
           \/ \E result \in {"ok", "again", "kill"} : ServePty(result)
           \/ serial_daemon_recvmsg
           \/ \E full \in SUBSET {1, 2}, fails \in BOOLEAN : ServeRest(full, fails)
    PROVE  IInv'
<1>0. TypeOK /\ Listed /\ Covered /\ netq \in 0 .. MaxQueue /\ backlog \in 0 .. MaxQueue
  BY DEF IInv, TypeOK
<1>1. ASSUME pc \in {"serve", "recv"}, pc' \in {"recv", "rest"}, netq' \in 0 .. MaxQueue,
             UNCHANGED <<sessions, tsession, maxfd, raised, todo, fds, new, proc, slave, gone,
                         backlog>>
      PROVE  IInv'
  <2>1. Visiting'
    BY <1>0, <1>1 DEF TypeOK, Visiting
  <2>2. Unlisted
    BY <1>0, <1>1, <2>1 DEF Unlisted, TypeOK, Listed, Covered
  <2> QED
    BY <1>1, <2>2, LoopOnly
<1>2. ASSUME NEW result \in {"ok", "again", "kill"}, ServePty(result) PROVE IInv'
  <2>1. CASE result = "kill"
    BY <1>2, <2>1, TurnStep DEF ServePty
  <2>2. CASE result # "kill"
    BY <1>0, <1>1, <1>2, <2>2 DEF ServePty
  <2> QED BY <2>1, <2>2
<1>3. ASSUME serial_daemon_recvmsg PROVE IInv'
  <2>1. netq' \in 0 .. MaxQueue
    BY <1>0, <1>3, ServerAssumption DEF serial_daemon_recvmsg
  <2> QED
    BY <1>1, <1>3, <2>1 DEF serial_daemon_recvmsg
<1>4. ASSUME NEW full \in SUBSET {1, 2}, NEW fails \in BOOLEAN, ServeRest(full, fails)
      PROVE  IInv'
  BY <1>4, TurnStep DEF ServeRest
<1> QED
  BY <1>2, <1>3, <1>4

\* A signal: dead shells are marked, and select() may be interrupted.
LEMMA SignalStep ==
    ASSUME IInv, handle_sigchld
    PROVE  IInv'
<1>0. /\ TypeOK /\ Listed /\ Covered /\ sessions \in Seq(Pids)
      /\ UNCHANGED <<sessions, maxfd, raised, new, slave, gone, backlog, netq>>
  BY DEF IInv, TypeOK, handle_sigchld
<1>1. PICK D : tsession' = [p \in DOMAIN tsession |->
                        IF p \in D THEN [tsession[p] EXCEPT !.shell_pid = -1] ELSE tsession[p]]
  BY DEF handle_sigchld
<1>2. DOMAIN tsession' = DOMAIN tsession /\ Linked' = Linked
  BY <1>0, <1>1 DEF Linked
<1>3. ASSUME NEW p \in DOMAIN tsession'
      PROVE  /\ tsession'[p] \in Session
             /\ tsession'[p].sock = tsession[p].sock /\ tsession'[p].pty = tsession[p].pty
  <2>1. p \in DOMAIN tsession /\ tsession[p] \in Session
    BY <1>0, <1>2 DEF TypeOK
  <2>2. CASE p \in D
    <3>1. tsession'[p] = [tsession[p] EXCEPT !.shell_pid = -1]
      BY <1>1, <2>1, <2>2
    <3> QED BY <2>1, <3>1 DEF Session
  <2>3. CASE p \notin D
    BY <1>1, <2>1, <2>3
  <2> QED BY <2>2, <2>3
<1>4. proc' \in [Pids -> {"none", "run", "zombie"}]
  BY <1>0 DEF handle_sigchld, TypeOK
<1>5. \/ pc = "blocked" /\ Again(sessions)
      \/ pc # "blocked" /\ UNCHANGED <<pc, todo, fds>>
  BY DEF handle_sigchld
<1>6. Visiting' \/ pc' \in {"accept", "link", "exited"}
  <2>1. CASE Again(sessions)
    <3>1. \E k \in 1 .. Len(sessions) + 1 : sessions = SubSeq(sessions, k, Len(sessions))
      BY <1>0, WholeList
    <3> QED
      BY <1>0, <2>1, <3>1 DEF Visiting, Again
  <2>2. CASE UNCHANGED <<pc, todo, fds>>
    BY <1>0, <2>2 DEF Visiting, TypeOK
  <2> QED
    BY <1>5, <2>1, <2>2
<1>7. fds' \subseteq Nat
  BY <1>0, <1>5 DEF Again, TypeOK
<1>8. pc' = pc \/ (pc = "blocked" /\ pc' = "scan" /\ todo' = sessions)
  BY <1>5 DEF Again
<1>9. pc' # "blocked" => pc' \in {"scan", "call", "accept", "link", "serve", "recv",
                                   "rest", "exited"}
  BY <1>0, <1>8 DEF TypeOK
<1>10. TypeOK'
  BY <1>0, <1>2, <1>3, <1>4, <1>6, <1>7, <1>9 DEF TypeOK
<1>11. Listed'
  BY <1>0, <1>2, <1>5, <1>8 DEF Listed, Again
<1>12. Covered'
  BY <1>0, <1>2, <1>3, <1>8 DEF Covered
<1> QED
  BY <1>10, <1>11, <1>12 DEF IInv

\* Clients, shells and the kernel touch neither the loop nor the list.
LEMMA OutsideStep ==
    ASSUME IInv, UNCHANGED <<sessions, tsession, loop>>,
           proc' \in [Pids -> {"none", "run", "zombie"}],
           slave' \subseteq Pids, gone' \subseteq Pids,
           backlog' \in 0 .. MaxQueue, netq' \in 0 .. MaxQueue
    PROVE  IInv'
<1>1. Linked' = Linked /\ Visiting' = Visiting
  BY DEF Linked, Visiting, loop
<1>2. TypeOK'
  BY <1>1 DEF IInv, TypeOK, loop
<1>3. Listed' /\ Covered'
  BY <1>1 DEF IInv, Listed, Covered, loop
<1> QED
  BY <1>2, <1>3 DEF IInv

LEMMA NextIInv == IInv /\ [Next]_vars => IInv'
<1> SUFFICES ASSUME IInv, [Next]_vars PROVE IInv'
  OBVIOUS
<1>0. /\ proc \in [Pids -> {"none", "run", "zombie"}]
      /\ slave \subseteq Pids /\ gone \subseteq Pids
      /\ backlog \in 0 .. MaxQueue /\ netq \in 0 .. MaxQueue
  BY DEF IInv, TypeOK
<1>1. CASE Server
  <2>1. CASE Scan
    BY <2>1, ScanStep
  <2>2. CASE SelectSetup
    BY <2>2, SelectSetupStep
  <2>3. CASE SelectCall \/ Refuse \/ Die \/ VforkFails
    BY <2>3, AcceptStep
  <2>4. CASE Link
    BY <2>4, LinkStep
  <2>5. ASSUME NEW p \in Pids, make_new_session(p) PROVE IInv'
    BY <2>5, NewSessionStep
  <2>6. CASE \/ \E result \in {"ok", "again", "kill"} : ServePty(result)
             \/ serial_daemon_recvmsg
             \/ \E full \in SUBSET {1, 2}, fails \in BOOLEAN : ServeRest(full, fails)
    BY <2>6, ServeStep
  <2> QED
    BY <1>1, <2>1, <2>2, <2>3, <2>4, <2>5, <2>6 DEF Server
<1>2. ASSUME NEW chat \in SUBSET Linked, Select(chat) PROVE IInv'
  BY <1>2, SelectStep
<1>3. CASE handle_sigchld
  BY <1>3, SignalStep
<1>4. CASE Connect
  <2>1. backlog' \in 0 .. MaxQueue
    BY <1>0, <1>4, ServerAssumption DEF Connect
  <2> QED
    BY <1>0, <1>4, <2>1, OutsideStep DEF Connect
<1>5. CASE KernelSends
  <2>1. netq' \in 0 .. MaxQueue
    BY <1>0, <1>5, ServerAssumption DEF KernelSends
  <2> QED
    BY <1>0, <1>5, <2>1, OutsideStep DEF KernelSends
<1>6. ASSUME NEW p \in Pids, ClientCloses(p) PROVE IInv'
  BY <1>0, <1>6, OutsideStep DEF ClientCloses
<1>7. ASSUME NEW p \in Pids, NEW held \in BOOLEAN, ShellExits(p, held) PROVE IInv'
  BY <1>0, <1>7, OutsideStep DEF ShellExits
<1>8. CASE UNCHANGED vars
  BY <1>0, <1>8, OutsideStep DEF vars, env
<1> QED
  BY <1>1, <1>2, <1>3, <1>4, <1>5, <1>6, <1>7, <1>8 DEF Next

\* The invariant says what select() looks at.
LEMMA CoveredSelects == IInv => SelectsRight
<1> SUFFICES ASSUME IInv PROVE SelectsRight
  OBVIOUS
<1>0. TypeOK /\ Listed /\ Covered /\ maxfd \in Nat /\ sessions \in Seq(Pids)
  BY DEF IInv, TypeOK
<1>1. Linked \subseteq DOMAIN tsession
  BY <1>0 DEF TypeOK
<1>2. \A fd \in Fds(Linked) : fd \in Nat /\ netlink_fd < fd /\ fd <= maxfd
  BY <1>0, <1>1, FdsCovered
<1>3. sessions # <<>> => netlink_fd <= maxfd
  <2> SUFFICES ASSUME sessions # <<>> PROVE netlink_fd <= maxfd
    OBVIOUS
  <2>1. 1 \in 1 .. Len(sessions)
    <3>1. Len(sessions) # 0 /\ Len(sessions) \in Nat
      BY <1>0, EmptySeq
    <3> QED BY <3>1
  <2>2. sessions[1] \in Linked
    BY <2>1 DEF Linked
  <2>3. PICK fd : fd \in Fds(Linked)
    BY <2>2 DEF Fds
  <2> QED
    BY <1>0, <1>2, <2>3, ServerAssumption
<1>4. SelectsAll
  BY <1>0, <1>2, <1>3 DEF SelectsAll, Covered
<1>5. NoSpin
  <2>1. pc = "blocked" => new = {}
    BY <1>0 DEF Listed
  <2> QED
    BY <1>0, <2>1, ServerAssumption DEF NoSpin, Covered
<1> QED
  BY <1>0, <1>4, <1>5 DEF SelectsRight

\* maxfd is right at every select(), for any number of sessions: it covers
\* the listening socket, every session and, if there is one, the serial log,
\* although free_session forgets the server's sockets, and it leaves the
\* serial log out when nobody would read it.
THEOREM LooksWhereItShould == Spec => []SelectsRight
<1>1. Init => IInv
  BY InitIInv
<1>2. IInv /\ [Next]_vars => IInv'
  BY NextIInv
<1>3. IInv => SelectsRight
  BY CoveredSelects
<1> QED
  BY <1>1, <1>2, <1>3, PTL DEF Spec

-----------------------------------------------------------------------------
(* The serial log.                                                           *)

\* One client at a time, and the message select() has announced waits until
\* that client's turn: nobody else receives.
Waiting ==
    /\ Len(sessions) <= 1 /\ (pc = "link" => sessions = <<>>)
    /\ pc \in {"accept", "link", "serve", "recv"} /\ netlink_fd \in fds => netq > 0

\* With one client the second loop has one session to serve.
LEMMA OneTurn ==
    ASSUME IInv, Len(sessions) <= 1, pc \in {"serve", "rest"}, NEW list,
           NextSession(list)
    PROVE  Again(list)
<1>0. TypeOK /\ todo # <<>> /\ Visiting /\ Len(sessions) \in Nat
  BY DEF IInv, Listed, TypeOK
<1>1. PICK k \in 1 .. Len(sessions) : Len(todo) = Len(sessions) - k + 1
  BY <1>0, NextVisit
<1>2. ~(Len(todo) > 1)
  BY <1>0, <1>1
<1> QED
  BY <1>2 DEF NextSession

\* select() announces the netlink socket only if it has a message.
LEMMA Announced ==
    ASSUME IInv, NEW chat \in SUBSET Linked,
           netlink_fd \in Readable \cup Fds(chat)
    PROVE  netq > 0
<1>0. TypeOK /\ Covered
  BY DEF IInv
<1>1. Linked \subseteq DOMAIN tsession /\ chat \subseteq DOMAIN tsession
  BY <1>0 DEF TypeOK
<1>2. \A fd \in Fds(chat) : netlink_fd < fd /\ fd \in Nat
  BY <1>0, <1>1, FdsCovered
<1>3. netlink_fd \notin Fds(chat)
  BY <1>2, ServerAssumption
<1>4. ASSUME NEW p \in Linked PROVE netlink_fd # tsession[p].sock /\ netlink_fd # tsession[p].pty
  <2>1. /\ tsession[p].sock \in Nat /\ tsession[p].pty \in Nat
        /\ netlink_fd < tsession[p].sock /\ netlink_fd < tsession[p].pty
    BY <1>0, <1>1 DEF TypeOK, Covered, Session
  <2> QED
    BY <2>1, ServerAssumption
<1>5. netlink_fd # master_fd
  BY ServerAssumption
<1> QED
  BY <1>3, <1>4, <1>5 DEF Readable

LEMMA NextWaiting ==
    ASSUME MaxClients = 1, IInv, Waiting, [Next]_vars
    PROVE  Waiting'
<1>0. /\ TypeOK /\ Listed /\ Covered /\ sessions \in Seq(Pids) /\ Len(sessions) \in Nat
      /\ netq \in Nat
  BY DEF IInv, TypeOK
<1>1. ASSUME todo # <<>>, Visiting, new = {}, free_session(Head(todo))
      PROVE  Len(sessions') <= 1
  <2>1. Len(sessions') = Len(sessions) - 1
    BY <1>0, <1>1, Freed
  <2> QED
    BY <1>0, <2>1 DEF Waiting
<1>2. ASSUME pc' \notin {"accept", "link", "serve", "recv"}, UNCHANGED sessions
      PROVE  Waiting'
  BY <1>2 DEF Waiting
<1>3. ASSUME pc \in {"serve", "rest"},
             \/ free_session(Head(todo)) /\ NextSession(sessions')
             \/ NextSession(sessions) /\ UNCHANGED sessions
      PROVE  Waiting'
  <2>1. todo # <<>> /\ Visiting /\ new = {}
    BY <1>0, <1>3 DEF Listed, TypeOK
  <2>2. Len(sessions') <= 1
    BY <1>1, <1>3, <2>1 DEF Waiting
  <2>3. \E list : Again(list)
    BY <1>3, OneTurn DEF Waiting
  <2> QED
    BY <2>2, <2>3 DEF Again, Waiting
<1>4. CASE Scan
  <2>1. todo # <<>> /\ Visiting /\ new = {} /\ pc' = "scan"
    BY <1>0, <1>4 DEF Scan, Listed, TypeOK
  <2>2. Len(sessions') <= 1
    BY <1>1, <1>4, <2>1 DEF Scan, Waiting
  <2> QED
    BY <2>1, <2>2 DEF Waiting
<1>5. CASE SelectSetup \/ SelectCall \/ Refuse \/ Die
  BY <1>2, <1>5 DEF SelectSetup, SelectCall, Refuse, Die, Again
<1>6. ASSUME NEW chat \in SUBSET Linked, Select(chat) PROVE Waiting'
  <2>1. UNCHANGED <<sessions, netq>> /\ pc' # "link"
    BY <1>6 DEF Select, env, Again
  <2>2. pc' = "scan" \/ fds' \subseteq Readable \cup Fds(chat)
    BY <1>6 DEF Select, Again
  <2>3. pc' # "scan" /\ netlink_fd \in fds' => netq > 0
    BY <2>2, Announced
  <2> QED
    BY <2>1, <2>3 DEF Waiting
<1>7. ASSUME NEW p \in Pids, make_new_session(p) PROVE Waiting'
  <2>1. /\ Len(sessions) < 1 /\ pc = "accept" /\ pc' = "link"
        /\ UNCHANGED <<sessions, fds, netq>>
    BY <1>7 DEF make_new_session, new_session_is_allowed
  <2>2. sessions = <<>>
    <3>1. Len(sessions) = 0
      BY <1>0, <2>1
    <3> QED BY <1>0, <3>1, EmptySeq
  <2> QED
    BY <2>1, <2>2 DEF Waiting
<1>8. CASE VforkFails
  BY <1>8 DEF VforkFails, Again, Waiting
<1>9. CASE Link
  <2>1. PICK p \in Pids : sessions' = <<p>> \o sessions
    BY <1>0, <1>9 DEF Link, TypeOK
  <2>2. sessions = <<>> /\ pc = "link" /\ pc' = "serve" /\ UNCHANGED <<fds, netq>>
    BY <1>9 DEF Link, Waiting, env
  <2>3. sessions' = <<p>>
    BY <2>1, <2>2
  <2>4. Len(sessions') = 1
    BY <2>3
  <2> QED
    BY <2>2, <2>4 DEF Waiting
<1>10. ASSUME NEW result \in {"ok", "again", "kill"}, ServePty(result) PROVE Waiting'
  <2>1. CASE result = "kill"
    BY <1>3, <1>10, <2>1 DEF ServePty
  <2>2. CASE result # "kill"
    BY <1>10, <2>2 DEF ServePty, Waiting
  <2> QED BY <2>1, <2>2
<1>11. CASE serial_daemon_recvmsg
  BY <1>2, <1>11 DEF serial_daemon_recvmsg
<1>12. ASSUME NEW full \in SUBSET {1, 2}, NEW fails \in BOOLEAN, ServeRest(full, fails)
       PROVE  Waiting'
  BY <1>3, <1>12 DEF ServeRest
<1>13. CASE handle_sigchld
  BY <1>13 DEF handle_sigchld, Again, Waiting
<1>14. CASE KernelSends
  BY <1>0, <1>14 DEF KernelSends, loop, Waiting
<1>15. CASE Connect \/ \E p \in Pids : ClientCloses(p) \/ \E held \in BOOLEAN : ShellExits(p, held)
  BY <1>15 DEF Connect, ClientCloses, ShellExits, loop, Waiting
<1>16. CASE UNCHANGED vars
  BY <1>16 DEF vars, loop, env, Waiting
<1> QED
  BY <1>4, <1>5, <1>6, <1>7, <1>8, <1>9, <1>10, <1>11, <1>12, <1>13, <1>14, <1>15, <1>16
     DEF Next, Server

\* With the one client that TELNETD_MAX_CLIENTS allows, the blocking recvmsg
\* of the second loop always has the message that select() announced.
THEOREM RecvNeverBlocks ==
    ASSUME MaxClients = 1
    PROVE  Spec => []RecvHasMessage
<1>1. Init => IInv /\ Waiting
  <2>1. Init => Waiting
    BY DEF Init, Waiting
  <2> QED BY <2>1, InitIInv
<1>2. IInv /\ Waiting /\ [Next]_vars => (IInv /\ Waiting)'
  BY NextIInv, NextWaiting
<1>3. Waiting => RecvHasMessage
  BY DEF Waiting, RecvHasMessage
<1> QED
  BY <1>1, <1>2, <1>3, PTL DEF Spec

-----------------------------------------------------------------------------
(* One session, for every BUFSIZE and whatever the client sends and the      *)
(* shell prints: the indices of its buffers stay consistent, remove_iacs     *)
(* stays inside its chunk and a read never asks for 0 bytes.                 *)


\* Where the streams are, for the bytes that get into the buffers.
NetOK ==
    /\ stream \in Seq(Byte) /\ sent \in Nat
    /\ output \in Seq(Byte) /\ printed \in Nat

\* What remove_iacs leaves for the write: num_totty bytes up to ptr, all of
\* them in the buffer.
WriteInside ==
    step = "write" => ts.wridx1 <= ptr /\ ptr - ts.wridx1 <= ts.size1

\* None of the properties is inductive alone: the indices after a write are
\* right because remove_iacs stayed inside its chunk, and the chunk is inside
\* the buffer because the indices were right.
SessionInv ==
    /\ SessionTypeOK /\ NetOK
    /\ BuffersCircular /\ ScanInside /\ WriteInside /\ ReadHasRoom

-----------------------------------------------------------------------------
(* The circular buffer's arithmetic.                                        *)

\* Wrap keeps an index that ran at most to the end inside the buffer.
LEMMA WrapIndex == ASSUME NEW i \in 0 .. BUFSIZE PROVE Wrap(i) \in Index
  BY SizeAssumption DEF Wrap, Index

\* Reading c bytes in, not beyond the end of the buffer nor of its room.
LEMMA RingFill ==
  ASSUME NEW rd \in Index, NEW wr \in Index, NEW size \in 0 .. BUFSIZE,
         NEW c \in Nat, Ring(rd, wr, size),
         rd + c <= BUFSIZE, size + c <= BUFSIZE
  PROVE  Ring(Wrap(rd + c), wr, size + c)
  BY SizeAssumption DEF Ring, Wrap, Index

\* Writing c bytes out, not beyond the end of the buffer nor of its bytes.
LEMMA RingDrain ==
  ASSUME NEW rd \in Index, NEW wr \in 0 .. BUFSIZE, NEW size \in 0 .. BUFSIZE,
         NEW c \in Nat, Ring(rd, wr, size), c <= size, wr + c <= BUFSIZE
  PROVE  Ring(rd, Wrap(wr + c), size - c)
  BY SizeAssumption DEF Ring, Wrap, Index

\* The chunk remove_iacs gets ends inside the buffer and inside its bytes.
LEMMA EndInside ==
  ASSUME SessionTypeOK
  PROVE  /\ End \in 0 .. BUFSIZE
         /\ ts.wridx1 <= End /\ End <= ts.wridx1 + ts.size1
  BY SizeAssumption DEF SessionTypeOK, SessionType, End, Least

\* An empty buffer may start again at 0.
LEMMA ResetCircular ==
  ASSUME SessionTypeOK, BuffersCircular, ts.wridx1 \in Index
  PROVE  /\ Reset(ts) \in SessionType /\ Reset(ts).wridx1 \in Index
         /\ Ring(Reset(ts).rdidx1, Reset(ts).wridx1, Reset(ts).size1)
         /\ Ring(Reset(ts).rdidx2, Reset(ts).wridx2, Reset(ts).size2)
         /\ Reset(ts).size1 = ts.size1 /\ Reset(ts).size2 = ts.size2
  <1> DEFINE t == Reset(ts)
  <1>1. 0 \in Index /\ 0 \in 0 .. BUFSIZE
    BY SizeAssumption DEF Index
  <1>2. /\ t.size1 = ts.size1 /\ t.size2 = ts.size2
        /\ t.rdidx1 = (IF ts.size1 = 0 THEN 0 ELSE ts.rdidx1)
        /\ t.wridx1 = (IF ts.size1 = 0 THEN 0 ELSE ts.wridx1)
        /\ t.rdidx2 = (IF ts.size2 = 0 THEN 0 ELSE ts.rdidx2)
        /\ t.wridx2 = (IF ts.size2 = 0 THEN 0 ELSE ts.wridx2)
        /\ t = [rdidx1 |-> t.rdidx1, wridx1 |-> t.wridx1, size1 |-> t.size1,
                rdidx2 |-> t.rdidx2, wridx2 |-> t.wridx2, size2 |-> t.size2]
    BY DEF Reset
  <1> HIDE DEF t
  <1>3. t.wridx1 \in Index /\ t.rdidx1 \in Index /\ t.wridx2 \in Index
        /\ t.rdidx2 \in Index /\ t.size1 \in 0 .. BUFSIZE
        /\ t.size2 \in 0 .. BUFSIZE
    BY <1>1, <1>2 DEF SessionTypeOK, SessionType
  <1>4. t.wridx1 \in 0 .. BUFSIZE
    BY <1>3, SizeAssumption DEF Index
  <1>5. t \in SessionType
    BY <1>2, <1>3, <1>4 DEF SessionType
  <1>6. Ring(0, 0, 0)
    BY SizeAssumption DEF Ring
  <1>7. Ring(t.rdidx1, t.wridx1, t.size1) /\ Ring(t.rdidx2, t.wridx2, t.size2)
    BY <1>2, <1>6 DEF BuffersCircular
  <1> QED BY <1>2, <1>3, <1>5, <1>7 DEF t

\* What a read puts into a buffer are bytes of the stream.
LEMMA FillType ==
  ASSUME NEW b \in [Index -> Byte], NEW rd \in Index, NEW s \in Seq(Byte),
         NEW at \in Nat, NEW n \in Nat, at + n <= Len(s)
  PROVE  Fill(b, rd, s, at, n) \in [Index -> Byte]
  <1> SUFFICES ASSUME NEW i \in Index
               PROVE  (IF i >= rd /\ i < rd + n THEN s[at + 1 + i - rd]
                       ELSE b[i]) \in Byte
    BY DEF Fill
  <1>1. i \in Int /\ rd \in Int
    BY SizeAssumption DEF Index
  <1>2. CASE i >= rd /\ i < rd + n
    <2>1. at + 1 + i - rd \in 1 .. Len(s)
      BY <1>1, <1>2
    <2> QED BY <1>2, <2>1
  <1>3. CASE ~(i >= rd /\ i < rd + n)
    BY <1>3
  <1> QED BY <1>2, <1>3

-----------------------------------------------------------------------------
(* The invariant is inductive.                                              *)

\* A fresh session is consistent.
LEMMA SessionInitHolds == SessionInit => SessionInv
  <1> SUFFICES ASSUME SessionInit PROVE SessionInv
    OBVIOUS
  <1>1. FreshSession \in SessionType /\ 0 \in 0 .. BUFSIZE
    BY SizeAssumption DEF FreshSession, SessionType, Index
  <1>2. FreshBuffer \in [Index -> Byte]
    BY DEF FreshBuffer, Byte
  <1>3. SessionTypeOK
    BY <1>1, <1>2 DEF SessionInit, SessionTypeOK
  <1>4. NetOK
    BY StreamAssumption DEF SessionInit, NetOK
  <1>5. BuffersCircular
    BY SizeAssumption DEF SessionInit, BuffersCircular, Ring, FreshSession
  <1> QED
    BY <1>3, <1>4, <1>5 DEF SessionInit, SessionInv, ScanInside, WriteInside, ReadHasRoom

\* select() promises a read only where there is room.
LEMMA SelectSessionStep ==
  ASSUME SessionInv, NEW r \in SUBSET Selectable, SelectSession(r) PROVE SessionInv'
  BY DEF SessionInv, SelectSession, Selectable, net, SessionTypeOK, NetOK, BuffersCircular, Ring,
         ScanInside, WriteInside, ReadHasRoom, End, Least

\* remove_iacs starts with both pointers at wridx1.
LEMMA ToPtyStep == ASSUME SessionInv, ToPty PROVE SessionInv'
  <1>1. /\ End \in 0 .. BUFSIZE /\ ts.wridx1 <= End
        /\ ts.wridx1 \in 0 .. BUFSIZE /\ End' = End
    BY EndInside DEF SessionInv, ToPty, End, SessionTypeOK, SessionType, Least
  <1>2. ScanInside'
    BY <1>1 DEF ToPty, ScanInside
  <1>3. SessionTypeOK'
    BY <1>1 DEF SessionInv, ToPty, SessionTypeOK
  <1> QED
    BY <1>2, <1>3 DEF SessionInv, ToPty, net, NetOK, BuffersCircular, Ring,
                      WriteInside, ReadHasRoom

\* A round of the loop advances ptr by the bytes it has checked to be there,
\* and totty by no more.
LEMMA RemoveIacStep == ASSUME SessionInv, RemoveIac PROVE SessionInv'
  <1>1. /\ End \in 0 .. BUFSIZE /\ End' = End
        /\ ts' = ts /\ buf2' = buf2 /\ step' = step /\ ready' = ready /\ net' = net
        /\ step = "scan"
    BY EndInside DEF SessionInv, RemoveIac, End
  <1>2. /\ ptr \in 0 .. BUFSIZE /\ totty \in 0 .. BUFSIZE /\ ptr < End
        /\ ts.wridx1 \in 0 .. BUFSIZE
        /\ ts.wridx1 <= totty /\ totty <= ptr
    BY <1>1 DEF SessionInv, RemoveIac, Has, ScanInside, SessionTypeOK, SessionType
  <1>3. ptr \in Index /\ totty \in Index
    BY <1>1, <1>2, SizeAssumption DEF Index
  <1>4. buf1 \in [Index -> Byte]
    BY DEF SessionInv, SessionTypeOK
  <1>5. /\ buf1' \in [Index -> Byte]
        /\ ptr' \in Int /\ totty' \in Int
        /\ totty <= totty' /\ totty' <= ptr' /\ ptr' <= End
    <2>1. CASE PlainByte
      <3>1. buf1' \in [Index -> Byte]
        BY <1>3, <1>4, <2>1 DEF PlainByte
      <3>2. ptr' = ptr + 1 \/ (Has(1) /\ ptr' = ptr + 2)
        BY <2>1 DEF PlainByte, Has
      <3> QED BY <1>1, <1>2, <2>1, <3>1, <3>2 DEF PlainByte, Has
    <2>2. CASE LiteralIac
      <3>1. buf1' \in [Index -> Byte]
        BY <1>3, <1>4, <2>2 DEF LiteralIac, Byte
      <3>2. Has(1)
        BY <2>2 DEF RemoveIac, LiteralIac, Incomplete
      <3> QED BY <1>1, <1>2, <2>2, <3>1, <3>2 DEF LiteralIac, Has
    <2>3. CASE Command
      <3>1. Has(1)
        BY <2>3 DEF RemoveIac, Command, Incomplete
      <3>2. CASE buf1[ptr + 1] = "NOP"
        BY <1>1, <1>2, <1>4, <2>3, <3>1, <3>2 DEF Command, Has
      <3>3. CASE buf1[ptr + 1] = "SB" /\ buf1[ptr + 2] = "NAWS"
        <4>1. Has(2)
          BY <2>3, <3>1, <3>3 DEF RemoveIac, Command, Incomplete
        <4>2. Has(NAWS_LEN - 1)
          BY <2>3, <3>3, <4>1 DEF RemoveIac, Command, Incomplete
        <4>3. ptr' = ptr + NAWS_LEN
          BY <2>3, <3>3 DEF Command
        <4> QED
          BY <1>1, <1>2, <1>4, <2>3, <4>2, <4>3, SizeAssumption
          DEF Command, Has
      <3>4. CASE /\ buf1[ptr + 1] # "NOP"
                 /\ ~(buf1[ptr + 1] = "SB" /\ buf1[ptr + 2] = "NAWS")
        <4>1. Has(2)
          BY <2>3, <3>1, <3>4 DEF RemoveIac, Command, Incomplete
        <4>2. ptr' = ptr + 3
          BY <2>3, <3>4 DEF Command
        <4> QED BY <1>1, <1>2, <1>4, <2>3, <4>1, <4>2 DEF Command, Has
      <3> QED BY <3>2, <3>3, <3>4
    <2> QED BY <2>1, <2>2, <2>3 DEF RemoveIac
  <1>6. ScanInside'
    BY <1>1, <1>2, <1>5 DEF ScanInside
  <1>7. ptr' \in 0 .. BUFSIZE /\ totty' \in 0 .. BUFSIZE
    BY <1>1, <1>2, <1>5, SizeAssumption
  <1>8. SessionTypeOK'
    BY <1>1, <1>5, <1>7 DEF SessionInv, SessionTypeOK
  <1> QED
    BY <1>1, <1>6, <1>8 DEF SessionInv, net, NetOK, BuffersCircular, Ring,
                            WriteInside, ReadHasRoom

\* The removed bytes leave the buffer at its front.
LEMMA RemoveIacsEndsStep == ASSUME SessionInv, RemoveIacsEnds PROVE SessionInv'
  <1> DEFINE d == ptr - totty
  <1>1. /\ ptr \in 0 .. BUFSIZE /\ totty \in 0 .. BUFSIZE
        /\ ts \in SessionType
        /\ ts.wridx1 \in 0 .. BUFSIZE /\ ts.size1 \in 0 .. BUFSIZE
        /\ ts.rdidx1 \in Index
    BY DEF SessionInv, SessionTypeOK, SessionType
  <1>2. /\ ts.wridx1 <= totty /\ totty <= ptr /\ ptr <= End
        /\ End <= BUFSIZE /\ End <= ts.wridx1 + ts.size1 /\ End \in Int
    BY EndInside DEF SessionInv, RemoveIacsEnds, ScanInside
  <1>3. /\ ts.wridx1 + d \in 0 .. BUFSIZE /\ ts.size1 - d \in 0 .. BUFSIZE
        /\ ts.wridx1 + d <= ptr /\ ptr - (ts.wridx1 + d) <= ts.size1 - d
    BY <1>1, <1>2, SizeAssumption
  <1>11. d \in Nat
    BY <1>1, <1>2
  <1> HIDE DEF d
  <1>4. ts' = [ts EXCEPT !.wridx1 = ts.wridx1 + d, !.size1 = ts.size1 - d]
    BY DEF RemoveIacsEnds, d
  <1>5. /\ ts'.wridx1 = ts.wridx1 + d /\ ts'.size1 = ts.size1 - d
        /\ ts'.rdidx1 = ts.rdidx1 /\ ts'.rdidx2 = ts.rdidx2
        /\ ts'.wridx2 = ts.wridx2 /\ ts'.size2 = ts.size2
    BY <1>1, <1>4 DEF SessionType
  <1>6. ts' \in SessionType
    BY <1>1, <1>3, <1>4 DEF SessionType
  <1>7. buf1' \in [Index -> Byte]
    <2> SUFFICES ASSUME NEW i \in Index
                 PROVE  (IF i < ptr /\ i >= ptr - (totty - ts.wridx1)
                         THEN buf1[i - (ptr - totty)] ELSE buf1[i]) \in Byte
      BY DEF RemoveIacsEnds, Packed
    <2>1. i \in Int /\ i >= 0 /\ i < BUFSIZE
      BY SizeAssumption DEF Index
    <2>2. buf1 \in [Index -> Byte]
      BY DEF SessionInv, SessionTypeOK
    <2>3. CASE i < ptr /\ i >= ptr - (totty - ts.wridx1)
      <3>1. i - (ptr - totty) \in Index
        BY <1>1, <1>2, <2>1, <2>3, SizeAssumption DEF Index
      <3> QED BY <2>2, <2>3, <3>1
    <2>4. CASE ~(i < ptr /\ i >= ptr - (totty - ts.wridx1))
      BY <2>2, <2>4
    <2> QED BY <2>3, <2>4
  <1>8. SessionTypeOK'
    BY <1>6, <1>7 DEF SessionInv, SessionTypeOK, RemoveIacsEnds
  <1>9. BuffersCircular'
    <2>1. ts'.wridx1 + ts'.size1 = ts.wridx1 + ts.size1
      BY <1>1, <1>3, <1>5, <1>11
    <2>2. step' = "write"
      BY DEF RemoveIacsEnds
    <2>3. Ring(ts'.rdidx1, ts'.wridx1, ts'.size1)
      BY <1>1, <1>3, <1>5, <1>11, <2>1, SizeAssumption
      DEF SessionInv, BuffersCircular, Ring
    <2> QED BY <1>5, <2>2, <2>3 DEF SessionInv, BuffersCircular, Ring
  <1>10. WriteInside'
    BY <1>3, <1>5 DEF WriteInside, RemoveIacsEnds
  <1>12. ReadHasRoom'
    BY <1>1, <1>5, <1>11, SizeAssumption
    DEF SessionInv, ReadHasRoom, RemoveIacsEnds
  <1> QED
    BY <1>8, <1>9, <1>10, <1>12
    DEF SessionInv, RemoveIacsEnds, ScanInside, NetOK, net

\* The write advances wridx1 over the n bytes the pty took.
LEMMA WritePtyStep ==
  ASSUME SessionInv, NEW n \in 0 .. num_totty, WritePty(n) PROVE SessionInv'
  <1>1. /\ ts \in SessionType /\ ptr \in 0 .. BUFSIZE
        /\ ts.wridx1 \in 0 .. BUFSIZE /\ ts.size1 \in 0 .. BUFSIZE
        /\ ts.rdidx1 \in Index
    BY DEF SessionInv, SessionTypeOK, SessionType
  <1>2. ts.wridx1 <= ptr /\ ptr - ts.wridx1 <= ts.size1
    BY DEF SessionInv, WriteInside, WritePty
  <1>3. /\ n \in Nat /\ n <= ts.size1 /\ ts.wridx1 + n \in 0 .. BUFSIZE
        /\ ts.size1 - n \in 0 .. BUFSIZE /\ ts.wridx1 + n <= BUFSIZE
    BY <1>1, <1>2, SizeAssumption DEF num_totty
  <1>4. Wrap(ts.wridx1 + n) \in Index
    BY <1>3, WrapIndex
  <1>5. ts' = [ts EXCEPT !.size1 = ts.size1 - n,
                         !.wridx1 = Wrap(ts.wridx1 + n)]
    BY DEF WritePty
  <1>6. /\ ts'.wridx1 = Wrap(ts.wridx1 + n) /\ ts'.size1 = ts.size1 - n
        /\ ts'.rdidx1 = ts.rdidx1 /\ ts'.rdidx2 = ts.rdidx2
        /\ ts'.wridx2 = ts.wridx2 /\ ts'.size2 = ts.size2
    BY <1>1, <1>5 DEF SessionType
  <1>7. Wrap(ts.wridx1 + n) \in 0 .. BUFSIZE /\ Wrap(ts.wridx1 + n) # BUFSIZE
    BY <1>4, SizeAssumption DEF Index
  <1>8. ts' \in SessionType
    BY <1>1, <1>3, <1>5, <1>7 DEF SessionType
  <1>9. Ring(ts.rdidx1, Wrap(ts.wridx1 + n), ts.size1 - n)
    BY <1>1, <1>3, RingDrain DEF SessionInv, BuffersCircular
  <1>10. SessionTypeOK'
    BY <1>8 DEF SessionInv, SessionTypeOK, WritePty
  <1>11. BuffersCircular'
    BY <1>6, <1>7, <1>9 DEF SessionInv, BuffersCircular, Ring, WritePty
  <1>12. ReadHasRoom'
    BY <1>1, <1>3, <1>6, SizeAssumption
    DEF SessionInv, ReadHasRoom, WritePty, SessionTypeOK
  <1> QED
    BY <1>10, <1>11, <1>12
    DEF SessionInv, WritePty, ScanInside, WriteInside, NetOK

\* EAGAIN leaves the bytes for the next pass; wridx1 is not at the end, for
\* there is something to write.
LEMMA WritePtyAgainStep == ASSUME SessionInv, WritePtyAgain PROVE SessionInv'
  <1>1. /\ ptr \in 0 .. BUFSIZE /\ ts.wridx1 \in 0 .. BUFSIZE
        /\ ptr - ts.wridx1 > 0
    BY DEF SessionInv, SessionTypeOK, SessionType, WritePtyAgain, num_totty
  <1>2. ts.wridx1 # BUFSIZE
    BY <1>1, SizeAssumption
  <1> QED
    BY <1>2 DEF SessionInv, WritePtyAgain, net, SessionTypeOK, NetOK, BuffersCircular, Ring,
                ScanInside, WriteInside, ReadHasRoom

\* The write to the socket takes k bytes off buffer 2, however they were
\* encoded.
LEMMA SocketStep ==
  ASSUME SessionInv, NEW k \in 1 .. BUFSIZE, NEW half \in BOOLEAN,
         iac_safe_write(k, half)
  PROVE  SessionInv'
  <1>1. /\ ts \in SessionType
        /\ ts.wridx2 \in Index /\ ts.size2 \in 0 .. BUFSIZE
        /\ ts.rdidx2 \in Index /\ ts.wridx2 \in 0 .. BUFSIZE
    BY SizeAssumption DEF SessionInv, SessionTypeOK, SessionType, Index
  <1>2. k \in 1 .. Chunk2
    BY DEF iac_safe_write
  <1>3. /\ k \in Nat /\ k <= ts.size2 /\ ts.wridx2 + k \in 0 .. BUFSIZE
        /\ ts.size2 - k \in 0 .. BUFSIZE /\ ts.wridx2 + k <= BUFSIZE
        /\ ts.size2 - k < BUFSIZE
    BY <1>1, <1>2, SizeAssumption DEF Chunk2, Least
  <1>4. Wrap(ts.wridx2 + k) \in Index
    BY <1>3, WrapIndex
  <1>5. ts' = [ts EXCEPT !.size2 = ts.size2 - k,
                         !.wridx2 = Wrap(ts.wridx2 + k)]
    BY DEF iac_safe_write
  <1>6. /\ ts'.wridx2 = Wrap(ts.wridx2 + k) /\ ts'.size2 = ts.size2 - k
        /\ ts'.rdidx1 = ts.rdidx1 /\ ts'.rdidx2 = ts.rdidx2
        /\ ts'.wridx1 = ts.wridx1 /\ ts'.size1 = ts.size1
    BY <1>1, <1>5 DEF SessionType
  <1>7. ts' \in SessionType
    BY <1>1, <1>3, <1>4, <1>5 DEF SessionType
  <1>8. Ring(ts.rdidx2, Wrap(ts.wridx2 + k), ts.size2 - k)
    BY <1>1, <1>3, RingDrain DEF SessionInv, BuffersCircular
  <1>9. /\ step = "tosock" /\ step' = "fromsock" /\ buf1' = buf1 /\ buf2' = buf2
        /\ ready' = ready /\ ptr' = ptr /\ totty' = totty /\ stream' = stream
        /\ sent' = sent /\ output' = output /\ printed' = printed
    BY DEF iac_safe_write
  <1>10. SessionTypeOK' /\ NetOK'
    BY <1>7, <1>9 DEF SessionInv, SessionTypeOK, NetOK
  <1>11. BuffersCircular'
    BY <1>6, <1>8, <1>9 DEF SessionInv, BuffersCircular, Ring
  <1>12. ReadHasRoom'
    BY <1>3, <1>6, <1>9 DEF SessionInv, ReadHasRoom
  <1> QED
    BY <1>9, <1>10, <1>11, <1>12 DEF SessionInv, ScanInside, WriteInside

\* The bytes read are counted, but for a trailing NUL.
LEMMA FromSocketStep ==
  ASSUME SessionInv, NEW n \in 1 .. BUFSIZE, FromSocket(n) PROVE SessionInv'
  <1> DEFINE t == Reset(ts)
             count == IF stream[sent + n] = "NUL" THEN n - 1 ELSE n
  <1>1. /\ step = "fromsock" /\ step' = "frompty" /\ buf2' = buf2
        /\ ready' = ready /\ ptr' = ptr /\ totty' = totty /\ stream' = stream
        /\ sent' = sent + n /\ output' = output /\ printed' = printed
        /\ buf1' = Fill(buf1, t.rdidx1, stream, sent, n)
        /\ sent + n <= Len(stream)
        /\ n \in 1 .. Least(BUFSIZE - t.rdidx1, BUFSIZE - t.size1)
        /\ ts' = [t EXCEPT !.size1 = t.size1 + count,
                           !.rdidx1 = Wrap(t.rdidx1 + count)]
    BY DEF FromSocket
  <1>2. ts.wridx1 \in Index
    BY <1>1, SizeAssumption
    DEF SessionInv, SessionTypeOK, SessionType, BuffersCircular, Index
  <1>3. /\ t \in SessionType /\ t.wridx1 \in Index
        /\ Ring(t.rdidx1, t.wridx1, t.size1)
        /\ Ring(t.rdidx2, t.wridx2, t.size2)
        /\ t.size2 = ts.size2
    BY <1>2, ResetCircular DEF SessionInv
  <1>4. count \in Nat /\ count <= n
    OBVIOUS
  <1> HIDE DEF t, count
  <1>5. t.rdidx1 \in Index /\ t.size1 \in 0 .. BUFSIZE
    BY <1>3 DEF SessionType
  <1>6. /\ t.rdidx1 + count \in 0 .. BUFSIZE /\ t.rdidx1 + count <= BUFSIZE
        /\ t.size1 + count \in 0 .. BUFSIZE /\ t.size1 + count <= BUFSIZE
    <2>1. n \in 1 .. Least(BUFSIZE - t.rdidx1, BUFSIZE - t.size1)
      BY <1>1
    <2>2. /\ n \in Nat /\ n <= BUFSIZE - t.rdidx1 /\ n <= BUFSIZE - t.size1
          /\ t.rdidx1 \in 0 .. BUFSIZE
      BY <1>5, <2>1, SizeAssumption DEF Index, Least
    <2> QED BY <1>4, <1>5, <2>2, SizeAssumption
  <1>7. Wrap(t.rdidx1 + count) \in Index
    BY <1>6, WrapIndex
  <1>8. /\ ts'.size1 = t.size1 + count /\ ts'.rdidx1 = Wrap(t.rdidx1 + count)
        /\ ts'.wridx1 = t.wridx1 /\ ts'.rdidx2 = t.rdidx2
        /\ ts'.wridx2 = t.wridx2 /\ ts'.size2 = t.size2
    BY <1>1, <1>3 DEF SessionType
  <1>9. ts' \in SessionType
    BY <1>1, <1>3, <1>6, <1>7 DEF SessionType
  <1>10. Ring(Wrap(t.rdidx1 + count), t.wridx1, t.size1 + count)
    BY <1>3, <1>4, <1>5, <1>6, RingFill
  <1>11. t.wridx1 # BUFSIZE
    BY <1>3, SizeAssumption DEF Index
  <1>12. BuffersCircular'
    BY <1>3, <1>8, <1>10, <1>11 DEF BuffersCircular, Ring
  <1>13. buf1' \in [Index -> Byte]
    BY <1>1, <1>5, FillType DEF SessionInv, SessionTypeOK, NetOK
  <1>14. SessionTypeOK' /\ NetOK'
    BY <1>1, <1>9, <1>13 DEF SessionInv, SessionTypeOK, NetOK
  <1>15. ReadHasRoom'
    BY <1>1, <1>3, <1>8 DEF SessionInv, ReadHasRoom
  <1> QED
    BY <1>1, <1>12, <1>14, <1>15 DEF SessionInv, ScanInside, WriteInside

\* Without a read the empty buffers start again all the same.
LEMMA SkipFromSocketStep == ASSUME SessionInv, SkipFromSocket PROVE SessionInv'
  <1>1. /\ step = "fromsock" /\ step' = "frompty" /\ ts' = Reset(ts)
        /\ UNCHANGED <<buf1, buf2, ready, ptr, totty, net>>
    BY DEF SkipFromSocket
  <1>2. ts.wridx1 \in Index
    BY <1>1, SizeAssumption
    DEF SessionInv, SessionTypeOK, SessionType, BuffersCircular, Index
  <1>3. /\ ts' \in SessionType /\ ts'.wridx1 \in Index
        /\ Ring(ts'.rdidx1, ts'.wridx1, ts'.size1)
        /\ Ring(ts'.rdidx2, ts'.wridx2, ts'.size2)
        /\ ts'.size1 = ts.size1 /\ ts'.size2 = ts.size2
    BY <1>1, <1>2, ResetCircular DEF SessionInv
  <1>4. ts'.wridx1 # BUFSIZE
    BY <1>3, SizeAssumption DEF Index
  <1>5. BuffersCircular'
    BY <1>3, <1>4 DEF BuffersCircular, Ring
  <1>6. SessionTypeOK' /\ NetOK'
    BY <1>1, <1>3 DEF SessionInv, SessionTypeOK, NetOK, net
  <1>7. ReadHasRoom'
    BY <1>1, <1>3 DEF SessionInv, ReadHasRoom
  <1> QED
    BY <1>1, <1>5, <1>6, <1>7 DEF SessionInv, ScanInside, WriteInside

\* The shell's output is appended to buffer 2.
LEMMA FromPtyStep ==
  ASSUME SessionInv, NEW n \in 1 .. BUFSIZE, FromPty(n) PROVE SessionInv'
  <1>1. /\ step = "frompty" /\ step' = "select" /\ buf1' = buf1
        /\ ready' = ready /\ ptr' = ptr /\ totty' = totty /\ stream' = stream
        /\ sent' = sent /\ output' = output /\ printed' = printed + n
        /\ buf2' = Fill(buf2, ts.rdidx2, output, printed, n)
        /\ printed + n <= Len(output)
        /\ n \in 1 .. Least(BUFSIZE - ts.rdidx2, BUFSIZE - ts.size2)
        /\ ts' = [ts EXCEPT !.size2 = ts.size2 + n,
                            !.rdidx2 = Wrap(ts.rdidx2 + n)]
    BY DEF FromPty
  <1>2. /\ ts \in SessionType /\ ts.rdidx2 \in Index /\ ts.wridx2 \in Index
        /\ ts.size2 \in 0 .. BUFSIZE /\ Ring(ts.rdidx2, ts.wridx2, ts.size2)
    BY DEF SessionInv, SessionTypeOK, SessionType, BuffersCircular
  <1>3. /\ n \in Nat
        /\ ts.rdidx2 + n \in 0 .. BUFSIZE /\ ts.rdidx2 + n <= BUFSIZE
        /\ ts.size2 + n \in 0 .. BUFSIZE /\ ts.size2 + n <= BUFSIZE
    <2>1. n \in 1 .. Least(BUFSIZE - ts.rdidx2, BUFSIZE - ts.size2)
      BY <1>1
    <2>2. /\ n \in Nat /\ n <= BUFSIZE - ts.rdidx2 /\ n <= BUFSIZE - ts.size2
          /\ ts.rdidx2 \in 0 .. BUFSIZE
      BY <1>2, <2>1, SizeAssumption DEF Index, Least
    <2> QED BY <1>2, <2>2, SizeAssumption
  <1>4. Wrap(ts.rdidx2 + n) \in Index
    BY <1>3, WrapIndex
  <1>5. /\ ts'.size2 = ts.size2 + n /\ ts'.rdidx2 = Wrap(ts.rdidx2 + n)
        /\ ts'.wridx1 = ts.wridx1 /\ ts'.rdidx1 = ts.rdidx1
        /\ ts'.wridx2 = ts.wridx2 /\ ts'.size1 = ts.size1
    BY <1>1, <1>2 DEF SessionType
  <1>6. ts' \in SessionType
    BY <1>1, <1>2, <1>3, <1>4 DEF SessionType
  <1>7. Ring(Wrap(ts.rdidx2 + n), ts.wridx2, ts.size2 + n)
    BY <1>2, <1>3, RingFill
  <1>8. BuffersCircular'
    BY <1>1, <1>5, <1>7 DEF SessionInv, BuffersCircular, Ring
  <1>9. buf2' \in [Index -> Byte]
    BY <1>1, <1>2, <1>3, FillType DEF SessionInv, SessionTypeOK, NetOK
  <1>10. SessionTypeOK' /\ NetOK'
    BY <1>1, <1>3, <1>6, <1>9 DEF SessionInv, SessionTypeOK, NetOK
  <1> QED
    BY <1>1, <1>8, <1>10
    DEF SessionInv, ScanInside, WriteInside, ReadHasRoom

\* Steps of the pass that leave the buffers alone.
LEMMA QuietStep ==
  ASSUME SessionInv, SkipSocket \/ SkipFromPty \/ KillSession PROVE SessionInv'
  <1>1. /\ UNCHANGED <<ts, buf1, buf2, ready, ptr, totty, net>>
        /\ \/ step = "tosock" /\ step' = "fromsock"
           \/ step = "frompty" /\ step' = "select"
           \/ step' = "killed"
    BY DEF SkipSocket, SkipFromPty, KillSession
  <1> QED
    BY <1>1 DEF SessionInv, net, SessionTypeOK, NetOK, BuffersCircular, Ring, ScanInside,
                WriteInside, ReadHasRoom

\* A new session starts from zeroed memory.
LEMMA FreshSessionStep == ASSUME SessionInv, new_session PROVE SessionInv'
  <1>1. FreshSession \in SessionType
    BY SizeAssumption DEF FreshSession, SessionType, Index
  <1>2. FreshBuffer \in [Index -> Byte]
    BY DEF FreshBuffer, Byte
  <1>3. SessionTypeOK' /\ NetOK'
    BY <1>1, <1>2 DEF SessionInv, new_session, SessionTypeOK, NetOK
  <1>4. BuffersCircular'
    BY SizeAssumption DEF new_session, BuffersCircular, Ring, FreshSession
  <1> QED
    BY <1>3, <1>4
    DEF new_session, SessionInv, ScanInside, WriteInside, ReadHasRoom

\* Every step keeps the invariant.
LEMMA SessionNextStep == ASSUME SessionInv, [SessionNext]_session_vars PROVE SessionInv'
  <1>1. CASE UNCHANGED session_vars
    BY <1>1 DEF session_vars, net, SessionInv, SessionTypeOK, NetOK, BuffersCircular, Ring,
                ScanInside, WriteInside, ReadHasRoom, End
  <1>2. CASE SessionNext
    BY <1>2, SelectSessionStep, ToPtyStep, RemoveIacStep, RemoveIacsEndsStep,
       WritePtyStep, WritePtyAgainStep, SocketStep, FromSocketStep,
       SkipFromSocketStep, FromPtyStep, QuietStep, FreshSessionStep
    DEF SessionNext
  <1> QED BY <1>1, <1>2

\* The four properties, for every BUFSIZE and every client.
LEMMA SessionInvariant == SessionSpec => []SessionInv
  BY SessionInitHolds, SessionNextStep, PTL DEF SessionSpec

-----------------------------------------------------------------------------

\* The session's variables are always of the declared kind: no index leaves
\* its buffer.
THEOREM SessionTypeCorrect == SessionSpec => []SessionTypeOK
  BY SessionInvariant, PTL DEF SessionInv

\* The sizes and indices that telnetd_main keeps always describe circular
\* buffers, whatever is read, removed, written in part or reset.
THEOREM StaysCircular == SessionSpec => []BuffersCircular
  BY SessionInvariant, PTL DEF SessionInv

\* remove_iacs never looks at or writes to a byte outside the chunk it was
\* given, whatever telnet commands the client sends.
THEOREM ScanStaysInside == SessionSpec => []ScanInside
  BY SessionInvariant, PTL DEF SessionInv

\* A read of telnetd_main never asks for 0 bytes, which would look like the
\* end of the file and end the session.
THEOREM ReadsHaveRoom == SessionSpec => []ReadHasRoom
  BY SessionInvariant, PTL DEF SessionInv

\* All of it together: telnetd_main stays inside the session's buffers for every
\* BUFSIZE and every client.
THEOREM StaysSafe == SessionSpec => []BuffersSafe
  <1>1. SessionInv => BuffersSafe
    BY DEF SessionInv, BuffersSafe
  <1> QED BY <1>1, SessionInvariant, PTL
=============================================================================
