--------------------------- MODULE LifeTimeProofs ---------------------------
(***************************************************************************)
(* What the operators on timer lists return: where a timer is inserted,    *)
(* which timers are spliced off, which one is removed, and that each of    *)
(* them keeps a list in order with one timer per client.                   *)
(***************************************************************************)
EXTENDS LifeTime, SequenceTheorems, FiniteSetTheorems, WellFoundedInduction, TLAPS

TimersOf(D) == [data : D, tick : Int]

-----------------------------------------------------------------------------
(* A set of numbers has a least one.                                       *)
LEMMA LeastNumber ==
  ASSUME NEW S \in SUBSET Nat, S # {}
  PROVE  Min(S) \in S /\ \A n \in S : Min(S) <= n
<1>. DEFINE starts == {1..n : n \in S}
<1>1. starts \subseteq FiniteSubsetsOf(Nat) /\ starts # {}
  <2>1. ASSUME NEW n \in S
        PROVE  1..n \in SUBSET Nat /\ IsFiniteSet(1..n)
    BY FS_Interval
  <2>. QED  BY <2>1 DEF FiniteSubsetsOf
<1>2. PICK first \in starts :
        \A start \in starts : ~(<<start, first>> \in StrictSubsetOrdering(Nat))
  BY <1>1, FS_StrictSubsetOrderingWellFounded, WFMin
<1>3. PICK k \in S : first = 1..k
  OBVIOUS
<1>4. ASSUME NEW n \in S, ~(k <= n)
      PROVE  FALSE
  <2>1. 1..n \subseteq 1..k /\ 1..n # 1..k /\ 1..n \in starts
    BY <1>4
  <2>2. <<1..n, first>> \in StrictSubsetOrdering(Nat)
    BY <1>3, <2>1 DEF StrictSubsetOrdering
  <2>. QED  BY <1>2, <2>1, <2>2
<1>. QED  BY <1>4 DEF Min

(* A sequence with one element more.                                       *)
LEMMA InsertAtPlace ==
  ASSUME NEW T, NEW q \in Seq(T), NEW t \in T, NEW k \in 1..Len(q)
  PROVE  /\ InsertAt(q, k, t) \in Seq(T)
         /\ Len(InsertAt(q, k, t)) = Len(q) + 1
         /\ \A i \in 1..(k - 1) : InsertAt(q, k, t)[i] = q[i]
         /\ InsertAt(q, k, t)[k] = t
         /\ \A i \in (k + 1)..(Len(q) + 1) : InsertAt(q, k, t)[i] = q[i - 1]
<1>1. Len(q) \in Nat /\ k \in Int /\ \A i \in 1..Len(q) : q[i] \in T
  BY ElementOfSeq
<1>. DEFINE before == SubSeq(q, 1, k - 1)
            after == SubSeq(q, k, Len(q))
            front == before \o <<t>>
            r == front \o after
<1>2. /\ before \in Seq(T) /\ Len(before) = k - 1
      /\ \A i \in 1..(k - 1) : before[i] = q[i]
  BY <1>1, SubSeqProperties
<1>3. /\ after \in Seq(T) /\ Len(after) = Len(q) - k + 1
      /\ \A i \in 1..(Len(q) - k + 1) : after[i] = q[k + i - 1]
  BY <1>1, SubSeqProperties
<1>4. <<t>> \in Seq(T) /\ Len(<<t>>) = 1 /\ <<t>>[1] = t
  OBVIOUS
<1>5. /\ front \in Seq(T) /\ Len(front) = k
      /\ \A i \in 1..k : front[i] = IF i <= k - 1 THEN before[i] ELSE <<t>>[i - (k - 1)]
  <2>. HIDE DEF before
  <2>1. /\ front \in Seq(T) /\ Len(front) = Len(before) + Len(<<t>>)
        /\ \A i \in 1..(Len(before) + Len(<<t>>)) :
             front[i] = IF i <= Len(before) THEN before[i] ELSE <<t>>[i - Len(before)]
    BY <1>2, <1>4, ConcatProperties, Zenon
  <2>. HIDE DEF front
  <2>. QED  BY <1>1, <1>2, <1>4, <2>1
<1>6. /\ r \in Seq(T) /\ Len(r) = Len(q) + 1
      /\ \A i \in 1..(Len(q) + 1) : r[i] = IF i <= k THEN front[i] ELSE after[i - k]
  <2>. HIDE DEF front, after
  <2>1. /\ r \in Seq(T) /\ Len(r) = Len(front) + Len(after)
        /\ \A i \in 1..(Len(front) + Len(after)) :
             r[i] = IF i <= Len(front) THEN front[i] ELSE after[i - Len(front)]
    BY <1>3, <1>5, ConcatProperties, Zenon
  <2>. HIDE DEF r
  <2>. QED  BY <1>1, <1>3, <1>5, <2>1
<1>7. InsertAt(q, k, t) = r
  BY Zenon DEF InsertAt
<1>. HIDE DEF before, after, front, r
<1>8. ASSUME NEW i \in 1..(k - 1)
      PROVE  r[i] = q[i]
  <2>1. i \in 1..k /\ i \in 1..(Len(q) + 1) /\ i <= k /\ i <= k - 1
    BY <1>1
  <2>. QED  BY <1>2, <1>5, <1>6, <2>1
<1>9. r[k] = t
  BY <1>1, <1>4, <1>5, <1>6
<1>10. \A i \in (k + 1)..(Len(q) + 1) : r[i] = q[i - 1]
  BY <1>1, <1>3, <1>6
<1>. QED  BY <1>6, <1>7, <1>8, <1>9, <1>10

(* The timer gets a place of its own, before the first that is not sooner, *)
(* and those that were there keep theirs relative to each other.           *)
LEMMA InsertPlace ==
  ASSUME NEW D, NEW q \in Seq(TimersOf(D)), NEW t \in TimersOf(D)
  PROVE  \E k \in 1..(Len(q) + 1) :
           /\ Insert(q, t) \in Seq(TimersOf(D))
           /\ Len(Insert(q, t)) = Len(q) + 1
           /\ \A i \in 1..(k - 1) : Insert(q, t)[i] = q[i] /\ q[i].tick < t.tick
           /\ Insert(q, t)[k] = t
           /\ \A i \in (k + 1)..(Len(q) + 1) : Insert(q, t)[i] = q[i - 1]
           /\ k <= Len(q) => t.tick <= q[k].tick
<1>. DEFINE places == {i \in 1..Len(q) : t.tick <= q[i].tick}
<1>1. Len(q) \in Nat /\ places \in SUBSET Nat
  OBVIOUS
<1>2. Insert(q, t) = LET k == IF places # {} THEN Min(places) ELSE 0
                     IN  IF k = 0 THEN Append(q, t) ELSE InsertAt(q, k, t)
  BY Zenon DEF Insert, SelectInSeq
<1>3. \A i \in 1..Len(q) : q[i].tick \in Int
  <2>1. \A i \in 1..Len(q) : q[i] \in TimersOf(D)
    BY ElementOfSeq
  <2>. QED  BY <2>1 DEF TimersOf
<1>4. t.tick \in Int
  BY DEF TimersOf
<1>5. CASE places = {}
  <2>1. Insert(q, t) = Append(q, t)
    BY <1>2, <1>5
  <2>2. \A i \in 1..Len(q) : q[i].tick < t.tick
    BY <1>3, <1>4, <1>5
  <2>. HIDE DEF places
  <2>3. Len(q) + 1 \in 1..(Len(q) + 1) /\ (Len(q) + 1) - 1 = Len(q)
    BY <1>1
  <2>4. /\ Append(q, t) \in Seq(TimersOf(D)) /\ Len(Append(q, t)) = Len(q) + 1
        /\ \A i \in 1..Len(q) : Append(q, t)[i] = q[i]
        /\ Append(q, t)[Len(q) + 1] = t
    BY AppendProperties
  <2>. QED  BY <1>1, <2>1, <2>2, <2>3, <2>4
<1>6. \A k \in 1..Len(q) :
        /\ InsertAt(q, k, t) \in Seq(TimersOf(D)) /\ Len(InsertAt(q, k, t)) = Len(q) + 1
        /\ \A i \in 1..(k - 1) : InsertAt(q, k, t)[i] = q[i]
        /\ InsertAt(q, k, t)[k] = t
        /\ \A i \in (k + 1)..(Len(q) + 1) : InsertAt(q, k, t)[i] = q[i - 1]
  BY InsertAtPlace
<1>7. CASE places # {}
  <2>1. PICK k \in places : k = Min(places) /\ \A i \in places : k <= i
    BY <1>1, <1>7, LeastNumber
  <2>2. k \in 1..Len(q) /\ t.tick <= q[k].tick
    BY <2>1
  <2>3. \A i \in 1..(k - 1) : q[i].tick < t.tick
    <3>1. \A i \in 1..(k - 1) : i \notin places /\ i \in 1..Len(q)
      BY <1>1, <2>1, <2>2
    <3>. QED  BY <1>3, <1>4, <3>1
  <2>4. Insert(q, t) = InsertAt(q, k, t)
    BY <1>2, <1>7, <2>1, <2>2
  <2>5. k \in 1..(Len(q) + 1)
    BY <1>1, <2>2
  <2>. HIDE DEF places
  <2>6. /\ Insert(q, t) \in Seq(TimersOf(D)) /\ Len(Insert(q, t)) = Len(q) + 1
        /\ \A i \in 1..(k - 1) : Insert(q, t)[i] = q[i]
        /\ Insert(q, t)[k] = t
        /\ \A i \in (k + 1)..(Len(q) + 1) : Insert(q, t)[i] = q[i - 1]
    <3>1. /\ InsertAt(q, k, t) \in Seq(TimersOf(D)) /\ Len(InsertAt(q, k, t)) = Len(q) + 1
          /\ \A i \in 1..(k - 1) : InsertAt(q, k, t)[i] = q[i]
          /\ InsertAt(q, k, t)[k] = t
          /\ \A i \in (k + 1)..(Len(q) + 1) : InsertAt(q, k, t)[i] = q[i - 1]
      BY <1>6, <2>2
    <3>. QED  BY <2>4, <3>1, Zenon
  <2>. QED  BY <2>2, <2>3, <2>5, <2>6
<1>. QED  BY <1>5, <1>7

LEMMA InsertType ==
  ASSUME NEW D, NEW q \in Seq(TimersOf(D)), NEW t \in TimersOf(D)
  PROVE  Insert(q, t) \in Seq(TimersOf(D)) /\ Len(Insert(q, t)) = Len(q) + 1
BY InsertPlace

LEMMA InsertKeepsOrder ==
  ASSUME NEW D, NEW q \in Seq(TimersOf(D)), NEW t \in TimersOf(D), SoonestFirst(q)
  PROVE  SoonestFirst(Insert(q, t))
<1>. DEFINE r == Insert(q, t)
<1>1. PICK k \in 1..(Len(q) + 1) :
           /\ r \in Seq(TimersOf(D)) /\ Len(r) = Len(q) + 1
           /\ \A i \in 1..(k - 1) : r[i] = q[i] /\ q[i].tick < t.tick
           /\ r[k] = t
           /\ \A i \in (k + 1)..(Len(q) + 1) : r[i] = q[i - 1]
           /\ k <= Len(q) => t.tick <= q[k].tick
  BY InsertPlace
<1>. HIDE DEF r
<1>2. Len(q) \in Nat /\ DOMAIN q = 1..Len(q) /\ DOMAIN r = 1..(Len(q) + 1) /\ t.tick \in Int
  BY <1>1 DEF TimersOf
<1>3. \A i \in 1..Len(q) : q[i].tick \in Int
  <2>1. \A i \in 1..Len(q) : q[i] \in TimersOf(D)
    BY ElementOfSeq
  <2>. QED  BY <2>1 DEF TimersOf
<1>4. \A i, j \in 1..Len(q) : i < j => q[i].tick <= q[j].tick
  BY <1>2 DEF SoonestFirst
<1>5. SUFFICES ASSUME NEW i \in 1..(Len(q) + 1), NEW j \in 1..(Len(q) + 1), i < j
               PROVE  r[i].tick <= r[j].tick
  BY <1>2 DEF SoonestFirst, r
<1>6. CASE j < k
  BY <1>1, <1>2, <1>4, <1>5, <1>6
<1>7. CASE j = k
  BY <1>1, <1>2, <1>3, <1>5, <1>7
<1>8. CASE k < j
  <2>1. j - 1 \in 1..Len(q) /\ r[j] = q[j - 1] /\ k \in 1..Len(q) /\ k <= j - 1
    BY <1>1, <1>2, <1>8
  <2>2. t.tick <= q[j - 1].tick
    <3>1. t.tick <= q[k].tick /\ q[k].tick \in Int /\ q[j - 1].tick \in Int
      BY <1>1, <1>2, <1>3, <2>1
    <3>2. k = j - 1 \/ q[k].tick <= q[j - 1].tick
      BY <1>4, <2>1
    <3>. QED  BY <1>2, <3>1, <3>2
  <2>3. CASE i < k
    BY <1>1, <1>2, <1>3, <1>4, <1>5, <2>1, <2>3
  <2>4. CASE i = k
    BY <1>1, <2>1, <2>2, <2>4
  <2>5. CASE k < i
    <3>1. i - 1 \in 1..Len(q) /\ i - 1 < j - 1 /\ i \in (k + 1)..(Len(q) + 1)
      BY <1>2, <1>5, <2>1, <2>5
    <3>2. r[i] = q[i - 1]
      BY <1>1, <3>1
    <3>. QED  BY <1>4, <2>1, <3>1, <3>2
  <2>. QED  BY <2>3, <2>4, <2>5
<1>. QED  BY <1>6, <1>7, <1>8

(* What is in a list after the insertion, and how often.                   *)
LEMMA InsertElements ==
  ASSUME NEW D, NEW q \in Seq(TimersOf(D)), NEW t \in TimersOf(D)
  PROVE  /\ \A i \in DOMAIN Insert(q, t) :
              Insert(q, t)[i] = t \/ \E j \in DOMAIN q : Insert(q, t)[i] = q[j]
         /\ \E k \in DOMAIN Insert(q, t) : Insert(q, t)[k] = t
         /\ \A j \in DOMAIN q : \E i \in DOMAIN Insert(q, t) : Insert(q, t)[i] = q[j]
<1>. DEFINE r == Insert(q, t)
<1>1. PICK k \in 1..(Len(q) + 1) :
           /\ r \in Seq(TimersOf(D)) /\ Len(r) = Len(q) + 1
           /\ \A i \in 1..(k - 1) : r[i] = q[i] /\ q[i].tick < t.tick
           /\ r[k] = t
           /\ \A i \in (k + 1)..(Len(q) + 1) : r[i] = q[i - 1]
           /\ k <= Len(q) => t.tick <= q[k].tick
  BY InsertPlace
<1>. HIDE DEF r
<1>2. Len(q) \in Nat /\ DOMAIN q = 1..Len(q) /\ DOMAIN r = 1..(Len(q) + 1)
  BY <1>1
<1>3. ASSUME NEW i \in 1..(Len(q) + 1), r[i] # t
      PROVE  \E j \in 1..Len(q) : r[i] = q[j]
  <2>1. CASE i < k
    BY <1>1, <1>2, <2>1
  <2>2. CASE k < i
    BY <1>1, <1>2, <2>2
  <2>. QED  BY <1>1, <1>3, <2>1, <2>2
<1>4. ASSUME NEW j \in 1..Len(q)
      PROVE  \E i \in 1..(Len(q) + 1) : r[i] = q[j]
  <2>1. CASE j < k
    BY <1>1, <1>2, <2>1
  <2>2. CASE k <= j
    <3>1. j + 1 \in (k + 1)..(Len(q) + 1) /\ (j + 1) - 1 = j
      BY <1>2, <2>2
    <3>2. r[j + 1] = q[j] /\ j + 1 \in 1..(Len(q) + 1)
      BY <1>1, <1>2, <3>1
    <3>. QED  BY <3>2
  <2>. QED  BY <2>1, <2>2
<1>. QED  BY <1>1, <1>2, <1>3, <1>4 DEF r

LEMMA InsertKeepsOneEach ==
  ASSUME NEW D, NEW q \in Seq(TimersOf(D)), NEW t \in TimersOf(D), OneTimerEach(q),
         \A i \in DOMAIN q : q[i].data # t.data
  PROVE  OneTimerEach(Insert(q, t))
<1>. DEFINE r == Insert(q, t)
<1>1. PICK k \in 1..(Len(q) + 1) :
           /\ r \in Seq(TimersOf(D)) /\ Len(r) = Len(q) + 1
           /\ \A i \in 1..(k - 1) : r[i] = q[i] /\ q[i].tick < t.tick
           /\ r[k] = t
           /\ \A i \in (k + 1)..(Len(q) + 1) : r[i] = q[i - 1]
           /\ k <= Len(q) => t.tick <= q[k].tick
  BY InsertPlace
<1>. HIDE DEF r
<1>2. Len(q) \in Nat /\ DOMAIN q = 1..Len(q) /\ DOMAIN r = 1..(Len(q) + 1)
  BY <1>1
<1>. DEFINE old(i) == IF i < k THEN i ELSE i - 1
<1>3. \A i \in 1..(Len(q) + 1) : i # k => old(i) \in 1..Len(q) /\ r[i] = q[old(i)]
  BY <1>1, <1>2
<1>4. \A i, j \in 1..(Len(q) + 1) : i # k /\ j # k /\ old(i) = old(j) => i = j
  BY <1>2
<1>. HIDE DEF old
<1>5. \A i \in 1..(Len(q) + 1) : i # k => r[i].data # t.data
  BY <1>2, <1>3
<1>6. ASSUME NEW i \in 1..(Len(q) + 1), NEW j \in 1..(Len(q) + 1), i # k, j # k,
             r[i].data = r[j].data
      PROVE  i = j
  <2>1. q[old(i)].data = q[old(j)].data
    BY <1>3, <1>6
  <2>2. old(i) = old(j)
    BY <1>2, <1>3, <1>6, <2>1 DEF OneTimerEach
  <2>. QED  BY <1>4, <1>6, <2>2
<1>. QED  BY <1>1, <1>2, <1>5, <1>6 DEF OneTimerEach, r

-----------------------------------------------------------------------------
(* What is left of a list when some timers are taken out of it.            *)
LEMMA Subsequence ==
  ASSUME NEW q, NEW r, NEW f \in [DOMAIN r -> DOMAIN q],
         DOMAIN r \subseteq Nat, DOMAIN q \subseteq Nat,
         \A i, j \in DOMAIN r : i < j => f[i] < f[j],
         \A i \in DOMAIN r : r[i] = q[f[i]]
  PROVE  /\ SoonestFirst(q) => SoonestFirst(r)
         /\ OneTimerEach(q) => OneTimerEach(r)
<1>1. \A i, j \in DOMAIN r : f[i] = f[j] => i = j
  <2>. SUFFICES ASSUME NEW i \in DOMAIN r, NEW j \in DOMAIN r, f[i] = f[j], i # j
                PROVE  FALSE
    OBVIOUS
  <2>1. i \in Nat /\ j \in Nat /\ f[i] \in Nat /\ f[j] \in Nat
    OBVIOUS
  <2>2. i < j \/ j < i
    BY <2>1
  <2>. QED  BY <2>1, <2>2
<1>2. \A i \in DOMAIN r : f[i] \in DOMAIN q
  OBVIOUS
<1>. QED  BY <1>1, <1>2 DEF SoonestFirst, OneTimerEach

LEMMA SuffixPlace ==
  ASSUME NEW T, NEW q \in Seq(T), NEW n \in 0..Len(q)
  PROVE  /\ SubSeq(q, n + 1, Len(q)) \in Seq(T)
         /\ Len(SubSeq(q, n + 1, Len(q))) = Len(q) - n
         /\ \A i \in 1..(Len(q) - n) : SubSeq(q, n + 1, Len(q))[i] = q[n + i]
<1>1. Len(q) \in Nat /\ n \in Nat /\ n <= Len(q)
  OBVIOUS
<1>2. PICK m \in Int : m = n + 1
  BY <1>1
<1>3. \A i \in m..Len(q) : q[i] \in T
  <2>1. \A i \in 1..Len(q) : q[i] \in T
    BY ElementOfSeq
  <2>. QED  BY <1>1, <1>2, <2>1
<1>. DEFINE r == SubSeq(q, m, Len(q))
<1>4. /\ r \in Seq(T) /\ Len(r) = IF m <= Len(q) THEN Len(q) - m + 1 ELSE 0
      /\ \A i \in 1..(Len(q) - m + 1) : r[i] = q[m + i - 1]
  BY <1>1, <1>3, SubSeqProperties
<1>. HIDE DEF r
<1>5. Len(r) = Len(q) - n
  BY <1>1, <1>2, <1>4
<1>6. ASSUME NEW i \in 1..(Len(q) - n)
      PROVE  r[i] = q[n + i]
  <2>1. i \in 1..(Len(q) - m + 1) /\ m + i - 1 = n + i
    BY <1>1, <1>2
  <2>. QED  BY <1>4, <2>1
<1>. QED  BY <1>2, <1>4, <1>5, <1>6 DEF r

(* The part that is spliced off is due, the part that is left is not when  *)
(* the list is sorted.                                                     *)
LEMMA DueSplit ==
  ASSUME NEW D, NEW q \in Seq(TimersOf(D))
  PROVE  /\ DueCount(q) \in 0..Len(q)
         /\ \A i \in 1..DueCount(q) : q[i].tick <= 0
         /\ SoonestFirst(q) => \A i \in (DueCount(q) + 1)..Len(q) : q[i].tick > 0
         /\ Due(q) \in Seq(TimersOf(D)) /\ Len(Due(q)) = DueCount(q)
         /\ \A i \in 1..DueCount(q) : Due(q)[i] = q[i]
         /\ NotDue(q) \in Seq(TimersOf(D)) /\ Len(NotDue(q)) = Len(q) - DueCount(q)
         /\ \A i \in 1..(Len(q) - DueCount(q)) : NotDue(q)[i] = q[DueCount(q) + i]
<1>. DEFINE places == {i \in 1..Len(q) : q[i].tick > 0}
            n == DueCount(q)
<1>1. Len(q) \in Nat /\ places \in SUBSET Nat /\ DOMAIN q = 1..Len(q)
  OBVIOUS
<1>2. n = LET k == IF places # {} THEN Min(places) ELSE 0
          IN  IF k = 0 THEN Len(q) ELSE k - 1
  BY Zenon DEF DueCount, SelectInSeq
<1>3. \A i \in 1..Len(q) : q[i] \in TimersOf(D)
  BY ElementOfSeq
<1>4. \A i \in 1..Len(q) : q[i].tick \in Int
  BY <1>3 DEF TimersOf
<1>5. /\ n \in 0..Len(q)
      /\ \A i \in 1..n : q[i].tick <= 0
      /\ n < Len(q) => q[n + 1].tick > 0
  <2>1. CASE places = {}
    BY <1>1, <1>2, <1>4, <2>1
  <2>2. CASE places # {}
    <3>1. PICK k \in places : k = Min(places) /\ \A i \in places : k <= i
      BY <1>1, <2>2, LeastNumber
    <3>2. k \in 1..Len(q) /\ q[k].tick > 0 /\ n = k - 1
      BY <1>2, <2>2, <3>1
    <3>3. \A i \in 1..(k - 1) : i \notin places /\ i \in 1..Len(q)
      BY <1>1, <3>1, <3>2
    <3>. QED  BY <1>1, <1>4, <3>2, <3>3
  <2>. QED  BY <2>1, <2>2
<1>. HIDE DEF places, n
<1>6. ASSUME SoonestFirst(q), NEW i \in (n + 1)..Len(q)
      PROVE  q[i].tick > 0
  <2>1. i \in 1..Len(q) /\ n + 1 \in 1..Len(q) /\ n < Len(q)
    BY <1>1, <1>5
  <2>2. i = n + 1 \/ q[n + 1].tick <= q[i].tick
    BY <1>1, <1>5, <1>6, <2>1 DEF SoonestFirst
  <2>. QED  BY <1>4, <1>5, <2>1, <2>2
<1>7. /\ SubSeq(q, 1, n) \in Seq(TimersOf(D)) /\ Len(SubSeq(q, 1, n)) = n
      /\ \A i \in 1..n : SubSeq(q, 1, n)[i] = q[i]
  BY <1>1, <1>3, <1>5, SubSeqProperties
<1>8. /\ SubSeq(q, n + 1, Len(q)) \in Seq(TimersOf(D))
      /\ Len(SubSeq(q, n + 1, Len(q))) = Len(q) - n
      /\ \A i \in 1..(Len(q) - n) : SubSeq(q, n + 1, Len(q))[i] = q[n + i]
  BY <1>5, SuffixPlace
<1>. QED  BY <1>5, <1>6, <1>7, <1>8 DEF Due, NotDue, n

LEMMA DueKeepsOrder ==
  ASSUME NEW D, NEW q \in Seq(TimersOf(D)), SoonestFirst(q), OneTimerEach(q)
  PROVE  /\ SoonestFirst(Due(q)) /\ SoonestFirst(NotDue(q))
         /\ OneTimerEach(NotDue(q))
         /\ Due(q) \o NotDue(q) = q
<1>. DEFINE n == DueCount(q)
<1>1. /\ Len(q) \in Nat /\ n \in 0..Len(q)
      /\ Due(q) \in Seq(TimersOf(D)) /\ Len(Due(q)) = n
      /\ \A i \in 1..n : Due(q)[i] = q[i]
      /\ NotDue(q) \in Seq(TimersOf(D)) /\ Len(NotDue(q)) = Len(q) - n
      /\ \A i \in 1..(Len(q) - n) : NotDue(q)[i] = q[n + i]
  BY DueSplit
<1>. HIDE DEF n
<1>2. /\ DOMAIN q = 1..Len(q) /\ DOMAIN Due(q) = 1..n
      /\ DOMAIN NotDue(q) = 1..(Len(q) - n)
  BY <1>1
<1>3. SoonestFirst(Due(q))
  <2>1. \A i \in 1..n : i \in DOMAIN q /\ Due(q)[i] = q[i]
    BY <1>1, <1>2
  <2>. QED  BY <1>2, <2>1 DEF SoonestFirst
<1>4. SoonestFirst(NotDue(q)) /\ OneTimerEach(NotDue(q))
  <2>. DEFINE f == [i \in DOMAIN NotDue(q) |-> n + i]
  <2>1. f \in [DOMAIN NotDue(q) -> DOMAIN q]
    BY <1>1, <1>2
  <2>2. DOMAIN NotDue(q) \subseteq Nat /\ DOMAIN q \subseteq Nat
    BY <1>2
  <2>3. \A i, j \in DOMAIN NotDue(q) : i < j => f[i] < f[j]
    BY <1>1, <1>2
  <2>4. \A i \in DOMAIN NotDue(q) : NotDue(q)[i] = q[f[i]]
    BY <1>1, <1>2
  <2>. HIDE DEF f
  <2>. QED  BY <2>1, <2>2, <2>3, <2>4, Subsequence
<1>5. Due(q) \o NotDue(q) = q
  <2>. DEFINE r == Due(q) \o NotDue(q)
  <2>1. /\ r \in Seq(TimersOf(D)) /\ Len(r) = Len(Due(q)) + Len(NotDue(q))
        /\ \A i \in 1..(Len(Due(q)) + Len(NotDue(q))) :
             r[i] = IF i <= Len(Due(q)) THEN Due(q)[i] ELSE NotDue(q)[i - Len(Due(q))]
    BY <1>1, ConcatProperties, Zenon
  <2>. HIDE DEF r
  <2>2. Len(r) = Len(q)
    BY <1>1, <2>1
  <2>3. ASSUME NEW i \in 1..Len(r)
        PROVE  r[i] = q[i]
    <3>1. CASE i <= n
      BY <1>1, <2>1, <2>2, <3>1
    <3>2. CASE ~(i <= n)
      <4>1. i - n \in 1..(Len(q) - n) /\ n + (i - n) = i
        BY <1>1, <2>2, <3>2
      <4>2. r[i] = NotDue(q)[i - n]
        BY <1>1, <2>1, <2>2, <3>2
      <4>3. NotDue(q)[i - n] = q[n + (i - n)]
        BY <1>1, <4>1
      <4>. QED  BY <4>1, <4>2, <4>3
    <3>. QED  BY <3>1, <3>2
  <2>4. r = q
    BY <2>1, <2>2, <2>3, SeqEqual
  <2>. QED  BY <2>4 DEF r
<1>. QED  BY <1>3, <1>4, <1>5

(* Without the first element.                                              *)
LEMMA TailKeepsOrder ==
  ASSUME NEW D, NEW q \in Seq(TimersOf(D)), q # <<>>
  PROVE  /\ SoonestFirst(q) => SoonestFirst(Tail(q))
         /\ OneTimerEach(q) => OneTimerEach(Tail(q))
<1>1. /\ Len(q) \in Nat \ {0} /\ DOMAIN q = 1..Len(q)
      /\ Tail(q) \in Seq(TimersOf(D)) /\ DOMAIN Tail(q) = 1..(Len(q) - 1)
      /\ \A i \in 1..(Len(q) - 1) : Tail(q)[i] = q[i + 1]
  BY HeadTailProperties, EmptySeq
<1>. DEFINE f == [i \in DOMAIN Tail(q) |-> i + 1]
<1>2. /\ f \in [DOMAIN Tail(q) -> DOMAIN q]
      /\ DOMAIN Tail(q) \subseteq Nat /\ DOMAIN q \subseteq Nat
      /\ \A i, j \in DOMAIN Tail(q) : i < j => f[i] < f[j]
      /\ \A i \in DOMAIN Tail(q) : Tail(q)[i] = q[f[i]]
  BY <1>1
<1>. HIDE DEF f
<1>. QED  BY <1>2, Subsequence

-----------------------------------------------------------------------------
(* The first timer of data is unlinked, if there is one.                   *)
LEMMA RemovePlace ==
  ASSUME NEW D, NEW q \in Seq(TimersOf(D)), NEW data
  PROVE  \/ RemoveData(q, data) = q /\ \A i \in 1..Len(q) : q[i].data # data
         \/ \E k \in 1..Len(q) :
              /\ q[k].data = data
              /\ RemoveData(q, data) \in Seq(TimersOf(D))
              /\ Len(RemoveData(q, data)) = Len(q) - 1
              /\ \A i \in 1..(Len(q) - 1) :
                   RemoveData(q, data)[i] = q[IF i < k THEN i ELSE i + 1]
<1>. DEFINE places == {i \in 1..Len(q) : q[i].data = data}
<1>1. Len(q) \in Nat /\ places \in SUBSET Nat /\ \A i \in 1..Len(q) : q[i] \in TimersOf(D)
  BY ElementOfSeq
<1>2. RemoveData(q, data) =
        IF \E i \in 1..Len(q) : q[i].data = data
        THEN RemoveAt(q, IF places # {} THEN Min(places) ELSE 0) ELSE q
  BY Zenon DEF RemoveData, RemoveFirstMatch, SelectInSeq
<1>3. CASE places = {}
  BY <1>2, <1>3
<1>4. CASE places # {}
  <2>1. PICK k \in places : k = Min(places)
    BY <1>1, <1>4, LeastNumber
  <2>2. k \in 1..Len(q) /\ q[k].data = data
    BY <2>1
  <2>. DEFINE before == SubSeq(q, 1, k - 1)
              after == SubSeq(q, k + 1, Len(q))
              r == before \o after
  <2>3. RemoveData(q, data) = r
    <3>1. RemoveData(q, data) = RemoveAt(q, k)
      BY <1>2, <1>4, <2>1, <2>2
    <3>. QED  BY <3>1, Zenon DEF RemoveAt
  <2>. HIDE DEF places
  <2>4. /\ before \in Seq(TimersOf(D)) /\ Len(before) = k - 1
        /\ \A i \in 1..(k - 1) : before[i] = q[i]
    BY <1>1, <2>2, SubSeqProperties
  <2>5. /\ after \in Seq(TimersOf(D)) /\ Len(after) = Len(q) - k
        /\ \A i \in 1..(Len(q) - k) : after[i] = q[k + i]
    BY <1>1, <2>2, SubSeqProperties
  <2>. HIDE DEF before, after
  <2>6. /\ r \in Seq(TimersOf(D)) /\ Len(r) = Len(before) + Len(after)
        /\ \A i \in 1..(Len(before) + Len(after)) :
             r[i] = IF i <= Len(before) THEN before[i] ELSE after[i - Len(before)]
    BY <2>4, <2>5, ConcatProperties, Zenon
  <2>. HIDE DEF r
  <2>7. Len(r) = Len(q) - 1
    BY <1>1, <2>2, <2>4, <2>5, <2>6
  <2>8. \A i \in 1..(Len(q) - 1) : r[i] = IF i <= k - 1 THEN before[i] ELSE after[i - (k - 1)]
    BY <1>1, <2>2, <2>4, <2>5, <2>6
  <2>9. ASSUME NEW i \in 1..(Len(q) - 1)
        PROVE  r[i] = q[IF i < k THEN i ELSE i + 1]
    <3>1. CASE i < k
      BY <1>1, <2>2, <2>4, <2>8, <3>1
    <3>2. CASE ~(i < k)
      <4>1. i - (k - 1) \in 1..(Len(q) - k) /\ k + (i - (k - 1)) = i + 1 /\ ~(i <= k - 1)
        BY <1>1, <2>2, <3>2
      <4>2. r[i] = after[i - (k - 1)]
        BY <2>8, <4>1
      <4>. QED  BY <2>5, <3>2, <4>1, <4>2
    <3>. QED  BY <3>1, <3>2
  <2>. QED  BY <2>2, <2>3, <2>6, <2>7, <2>9
<1>. QED  BY <1>3, <1>4

LEMMA RemoveKeepsOrder ==
  ASSUME NEW D, NEW q \in Seq(TimersOf(D)), NEW data
  PROVE  /\ RemoveData(q, data) \in Seq(TimersOf(D))
         /\ SoonestFirst(q) => SoonestFirst(RemoveData(q, data))
         /\ OneTimerEach(q) => OneTimerEach(RemoveData(q, data))
<1>. DEFINE r == RemoveData(q, data)
<1>1. CASE r = q
  BY <1>1
<1>2. ASSUME NEW k \in 1..Len(q),
             r \in Seq(TimersOf(D)), Len(r) = Len(q) - 1,
             \A i \in 1..(Len(q) - 1) : r[i] = q[IF i < k THEN i ELSE i + 1]
      PROVE  /\ SoonestFirst(q) => SoonestFirst(r)
             /\ OneTimerEach(q) => OneTimerEach(r)
  <2>. HIDE DEF r
  <2>1. Len(q) \in Nat /\ DOMAIN q = 1..Len(q) /\ DOMAIN r = 1..(Len(q) - 1)
    BY <1>2
  <2>. DEFINE f == [i \in DOMAIN r |-> IF i < k THEN i ELSE i + 1]
  <2>2. /\ f \in [DOMAIN r -> DOMAIN q]
        /\ DOMAIN r \subseteq Nat /\ DOMAIN q \subseteq Nat
        /\ \A i, j \in DOMAIN r : i < j => f[i] < f[j]
        /\ \A i \in DOMAIN r : r[i] = q[f[i]]
    BY <1>2, <2>1
  <2>. HIDE DEF f
  <2>. QED  BY <2>2, Subsequence
<1>. QED  BY <1>1, <1>2, RemovePlace

(* With one timer per client, what is removed is the timer of data.        *)
LEMMA RemoveElements ==
  ASSUME NEW D, NEW q \in Seq(TimersOf(D)), NEW data, OneTimerEach(q)
  PROVE  /\ \A i \in DOMAIN RemoveData(q, data) : \E j \in DOMAIN q :
              RemoveData(q, data)[i] = q[j] /\ q[j].data # data
         /\ \A j \in DOMAIN q : q[j].data # data =>
              \E i \in DOMAIN RemoveData(q, data) : RemoveData(q, data)[i] = q[j]
<1>. DEFINE r == RemoveData(q, data)
<1>1. CASE r = q /\ \A i \in 1..Len(q) : q[i].data # data
  BY <1>1
<1>2. ASSUME NEW k \in 1..Len(q), q[k].data = data,
             r \in Seq(TimersOf(D)), Len(r) = Len(q) - 1,
             \A i \in 1..(Len(q) - 1) : r[i] = q[IF i < k THEN i ELSE i + 1]
      PROVE  /\ \A i \in DOMAIN r : \E j \in DOMAIN q : r[i] = q[j] /\ q[j].data # data
             /\ \A j \in DOMAIN q : q[j].data # data => \E i \in DOMAIN r : r[i] = q[j]
  <2>. HIDE DEF r
  <2>1. Len(q) \in Nat /\ DOMAIN q = 1..Len(q) /\ DOMAIN r = 1..(Len(q) - 1)
    BY <1>2
  <2>2. \A i \in 1..Len(q) : q[i].data = data => i = k
    BY <1>2, <2>1 DEF OneTimerEach
  <2>3. ASSUME NEW i \in 1..(Len(q) - 1)
        PROVE  \E j \in 1..Len(q) : r[i] = q[j] /\ q[j].data # data
    <3>1. /\ (IF i < k THEN i ELSE i + 1) \in 1..Len(q)
          /\ (IF i < k THEN i ELSE i + 1) # k
      BY <2>1
    <3>. QED  BY <1>2, <2>2, <3>1
  <2>4. ASSUME NEW j \in 1..Len(q), q[j].data # data
        PROVE  \E i \in 1..(Len(q) - 1) : r[i] = q[j]
    <3>1. CASE j < k
      <4>1. j \in 1..(Len(q) - 1) /\ r[j] = q[j]
        BY <1>2, <2>1, <3>1
      <4>. QED  BY <4>1
    <3>2. CASE k < j
      <4>1. j - 1 \in 1..(Len(q) - 1) /\ ~(j - 1 < k) /\ (j - 1) + 1 = j
        BY <2>1, <3>2
      <4>2. r[j - 1] = q[j]
        BY <1>2, <4>1
      <4>. QED  BY <4>1, <4>2
    <3>3. j # k
      BY <1>2, <2>4
    <3>. QED  BY <2>1, <3>1, <3>2, <3>3
  <2>. QED  BY <2>1, <2>3, <2>4
<1>. QED  BY <1>1, <1>2, RemovePlace

-----------------------------------------------------------------------------
(* A second goes by for every timer of the list.                           *)
LEMMA AgedTimers ==
  ASSUME NEW D, NEW q \in Seq(TimersOf(D))
  PROVE  /\ Aged(q) \in Seq(TimersOf(D)) /\ Len(Aged(q)) = Len(q)
         /\ DOMAIN Aged(q) = DOMAIN q
         /\ \A i \in DOMAIN q : /\ Aged(q)[i] = [q[i] EXCEPT !.tick = @ - 1]
                                /\ Aged(q)[i].data = q[i].data
                                /\ Aged(q)[i].tick = q[i].tick - 1
         /\ SoonestFirst(q) => SoonestFirst(Aged(q))
         /\ OneTimerEach(q) => OneTimerEach(Aged(q))
<1>1. Len(q) \in Nat /\ DOMAIN q = 1..Len(q) /\ \A i \in DOMAIN q : q[i] \in TimersOf(D)
  BY ElementOfSeq
<1>2. /\ DOMAIN Aged(q) = DOMAIN q
      /\ \A i \in DOMAIN q : Aged(q)[i] = [q[i] EXCEPT !.tick = @ - 1]
  BY DEF Aged
<1>3. \A i \in DOMAIN q : /\ Aged(q)[i] \in TimersOf(D)
                          /\ Aged(q)[i].data = q[i].data
                          /\ Aged(q)[i].tick = q[i].tick - 1
                          /\ q[i].tick \in Int
  BY <1>1, <1>2 DEF TimersOf
<1>4. Aged(q) \in [1..Len(q) -> TimersOf(D)]
  BY <1>1, <1>2, <1>3 DEF Aged
<1>5. Aged(q) \in Seq(TimersOf(D)) /\ Len(Aged(q)) = Len(q)
  BY <1>1, <1>4
<1>6. SoonestFirst(q) => SoonestFirst(Aged(q))
  BY <1>2, <1>3 DEF SoonestFirst
<1>7. OneTimerEach(q) => OneTimerEach(Aged(q))
  BY <1>2, <1>3 DEF OneTimerEach
<1>. QED  BY <1>2, <1>3, <1>5, <1>6, <1>7

LEMMA AgedConcat ==
  ASSUME NEW D, NEW q \in Seq(TimersOf(D)), NEW r \in Seq(TimersOf(D))
  PROVE  Aged(q \o r) = Aged(q) \o Aged(r)
<1>. DEFINE both == q \o r
            aged == Aged(q) \o Aged(r)
<1>1. /\ both \in Seq(TimersOf(D)) /\ Len(both) = Len(q) + Len(r)
      /\ \A i \in 1..(Len(q) + Len(r)) : both[i] = IF i <= Len(q) THEN q[i] ELSE r[i - Len(q)]
  BY ConcatProperties
<1>2. /\ Aged(q) \in Seq(TimersOf(D)) /\ Len(Aged(q)) = Len(q)
      /\ Aged(r) \in Seq(TimersOf(D)) /\ Len(Aged(r)) = Len(r)
  BY AgedTimers
<1>3. /\ aged \in Seq(TimersOf(D)) /\ Len(aged) = Len(Aged(q)) + Len(Aged(r))
      /\ \A i \in 1..(Len(Aged(q)) + Len(Aged(r))) :
           aged[i] = IF i <= Len(Aged(q)) THEN Aged(q)[i] ELSE Aged(r)[i - Len(Aged(q))]
  BY <1>2, ConcatProperties, Zenon
<1>4. Len(q) \in Nat /\ Len(r) \in Nat /\ DOMAIN q = 1..Len(q) /\ DOMAIN r = 1..Len(r)
  OBVIOUS
<1>. HIDE DEF both, aged
<1>5. Aged(both) \in Seq(TimersOf(D)) /\ Len(Aged(both)) = Len(q) + Len(r)
  BY <1>1, AgedTimers
<1>6. \A i \in 1..Len(q) : Aged(q)[i] = [q[i] EXCEPT !.tick = @ - 1]
  BY <1>4 DEF Aged
<1>7. \A i \in 1..Len(r) : Aged(r)[i] = [r[i] EXCEPT !.tick = @ - 1]
  BY <1>4 DEF Aged
<1>8. \A i \in 1..(Len(q) + Len(r)) : Aged(both)[i] = [both[i] EXCEPT !.tick = @ - 1]
  BY <1>1, <1>4 DEF Aged
<1>9. ASSUME NEW i \in 1..(Len(q) + Len(r))
      PROVE  Aged(both)[i] = aged[i]
  <2>1. CASE i <= Len(q)
    <3>1. both[i] = q[i] /\ aged[i] = Aged(q)[i] /\ i \in 1..Len(q)
      BY <1>1, <1>2, <1>3, <1>4, <2>1
    <3>. QED  BY <1>6, <1>8, <3>1
  <2>2. CASE ~(i <= Len(q))
    <3>1. i - Len(q) \in 1..Len(r)
      BY <1>4, <2>2
    <3>2. both[i] = r[i - Len(q)] /\ aged[i] = Aged(r)[i - Len(q)]
      BY <1>1, <1>2, <1>3, <2>2
    <3>. QED  BY <1>7, <1>8, <3>1, <3>2
  <2>. QED  BY <2>1, <2>2
<1>10. Aged(both) = aged
  BY <1>2, <1>3, <1>5, <1>9, SeqEqual
<1>. QED  BY <1>10 DEF both, aged
=============================================================================
