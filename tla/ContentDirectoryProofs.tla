----------------------- MODULE ContentDirectoryProofs -----------------------
(***************************************************************************)
(* Theorems about the lists of the guide, and about a Browse that walks    *)
(* them while other threads and the clock change them: what an insertion   *)
(* or a walk leaves of a list (Kept, insert_sorted, insert_sorted_epg,     *)
(* Sweep, firstEpgDay); the order of the lists; that only what is over is  *)
(* erased; types; that an undisturbed Browse reads nothing that is gone;   *)
(* that no page shows an entry twice; and that the page of an undisturbed  *)
(* Browse is exactly the one that was asked for.                           *)
(***************************************************************************)
EXTENDS ContentDirectory, FiniteSetTheorems, SequenceTheorems, WellFoundedInduction, TLAPS

-----------------------------------------------------------------------------
(* The operators of the lists.                                             *)

LEMMA LeastElement ==
  ASSUME NEW T, T \subseteq Nat, T # {}
  PROVE  \E x \in T : \A y \in T : x <= y
<1>. DEFINE R == OpToRel(<, Nat)
<1>1. IsWellFoundedOn(R, Nat)
  BY NatLessThanWellFounded, Zenon
<1>2. \A x, y \in Nat : y < x => <<y, x>> \in R
  BY DEF OpToRel
<1>. HIDE DEF R
<1>3. \E x \in T : \A y \in T : ~(<<y, x>> \in R)
  BY <1>1, WFMin, Zenon
<1>4. \A x, y \in T : ~(<<y, x>> \in R) => x <= y
  <2>1. \A x, y \in Nat : x <= y \/ y < x
    OBVIOUS
  <2>. QED  BY <1>2, <2>1
<1>. QED  BY <1>3, <1>4

(* What SelectInSeq and SelectInSubSeq select: the first position, or 0.   *)
First(I) == IF I # {} THEN Min(I) ELSE 0

LEMMA FirstFacts ==
  ASSUME NEW I, I \subseteq Nat \ {0}
  PROVE  \/ First(I) = 0 /\ I = {}
         \/ First(I) \in I /\ First(I) # 0 /\ \A i \in I : First(I) <= i
<1>1. CASE I = {}
  BY <1>1 DEF First
<1>2. CASE I # {}
  <2>1. \E x \in I : \A y \in I : x <= y
    BY <1>2, LeastElement
  <2>2. First(I) \in I /\ \A y \in I : First(I) <= y
    BY <1>2, <2>1 DEF First, Min
  <2>. QED  BY <2>2
<1>. QED  BY <1>1, <1>2

(* A subset of an interval is counted in order: Turn is the number of its  *)
(* elements up to one of them.                                             *)
Turn(I, i) == Cardinality({j \in I : j <= i})

LEMMA Turns ==
  ASSUME NEW L \in Nat, NEW I \in SUBSET (1..L)
  PROVE  /\ Cardinality(I) \in Nat /\ Cardinality(I) <= L
         /\ \A i \in I : Turn(I, i) \in 1..Cardinality(I)
         /\ \A i, j \in I : i < j => Turn(I, i) < Turn(I, j)
         /\ \A n \in 1..Cardinality(I) : \E i \in I : Turn(I, i) = n
<1>1. IsFiniteSet(I) /\ Cardinality(I) \in Nat /\ Cardinality(I) <= L
  <2>1. IsFiniteSet(1..L) /\ Cardinality(1..L) = L
    BY FS_Interval
  <2>. QED  BY <2>1, FS_Subset, FS_CardinalityType
<1>2. ASSUME NEW i \in I
      PROVE  Turn(I, i) \in 1..Cardinality(I)
  <2>. DEFINE T == {j \in I : j <= i}
  <2>1. T \in SUBSET I /\ i \in T
    OBVIOUS
  <2>. HIDE DEF T
  <2>2. IsFiniteSet(T) /\ Cardinality(T) <= Cardinality(I) /\ Cardinality(T) \in Nat
    BY <1>1, <2>1, FS_Subset, FS_CardinalityType
  <2>3. Cardinality(T) # 0
    BY <2>1, <2>2, FS_EmptySet
  <2>4. Cardinality(T) \in 1..Cardinality(I)
    BY <1>1, <2>2, <2>3
  <2>. QED  BY <2>4 DEF Turn, T
<1>3. ASSUME NEW i \in I, NEW j \in I, i < j
      PROVE  Turn(I, i) < Turn(I, j)
  <2>. DEFINE S == {k \in I : k <= i}
              U == {k \in I : k <= j}
  <2>0. \A k \in I : k \in Int
    OBVIOUS
  <2>a. i \in Int /\ j \in Int /\ j <= j /\ ~(j <= i)
    BY <1>3, <2>0
  <2>b. \A k \in I : k <= i => k <= j
    BY <1>3, <2>0, <2>a
  <2>1. S \in SUBSET U /\ j \in U /\ j \notin S /\ U \in SUBSET I
    BY <2>a, <2>b
  <2>. HIDE DEF S, U
  <2>2. IsFiniteSet(U)
    BY <1>1, <2>1, FS_Subset
  <2>3. /\ Cardinality(S) \in Nat /\ Cardinality(U) \in Nat
        /\ Cardinality(S) <= Cardinality(U)
        /\ Cardinality(S) = Cardinality(U) => S = U
    BY <2>1, <2>2, FS_Subset, FS_CardinalityType
  <2>4. Cardinality(S) < Cardinality(U)
    BY <2>1, <2>3
  <2>. QED  BY <2>4 DEF Turn, S, U
<1>4. \A n \in 1..Cardinality(I) : \E i \in I : Turn(I, i) = n
  <2>. DEFINE places == 1..Cardinality(I)
              f == [i \in I |-> Turn(I, i)]
  <2>0. \A i, j \in I : Turn(I, i) = Turn(I, j) => i = j
    <3>1. \A i, j \in I : i = j \/ i < j \/ j < i
      OBVIOUS
    <3>2. \A i \in I : Turn(I, i) \in Nat
      BY <1>1, <1>2
    <3>. QED  BY <1>3, <3>1, <3>2
  <2>1. f \in Injection(I, places)
    BY <1>2, <2>0 DEF Injection, IsInjective
  <2>2. IsFiniteSet(places) /\ Cardinality(places) = Cardinality(I)
    BY <1>1, FS_Interval
  <2>. HIDE DEF f
  <2>3. f \in Surjection(I, places)
    BY <1>1, <2>1, <2>2, FS_Injection
  <2>. QED  BY <2>3 DEF Surjection, f
<1>. QED  BY <1>1, <1>2, <1>3, <1>4

(* rest is list without some of its elements, the others in their order.   *)
Thinned(list, rest, f) ==
  /\ f \in [DOMAIN rest -> DOMAIN list]
  /\ \A n, m \in DOMAIN rest : n < m => f[n] < f[m]
  /\ \A n \in DOMAIN rest : rest[n] = list[f[n]]

LEMMA KeptFacts ==
  ASSUME NEW S, NEW list \in Seq(S), NEW I \in SUBSET (DOMAIN list)
  PROVE  /\ Kept(list, I) \in Seq(S)
         /\ Len(Kept(list, I)) = Cardinality(I) /\ Cardinality(I) <= Len(list)
         /\ \E f : /\ Thinned(list, Kept(list, I), f)
                   /\ \A i : i \in I <=> \E n \in DOMAIN Kept(list, I) : f[n] = i
<1>. DEFINE L == Len(list)
            N == Cardinality(I)
            f == [n \in 1..N |-> CHOOSE i \in I : Turn(I, i) = n]
            K == Kept(list, I)
<1>0. L \in Nat /\ I \in SUBSET (1..L) /\ DOMAIN list = 1..L /\ \A i \in 1..L : list[i] \in S
  BY ElementOfSeq
<1>1. /\ N \in Nat /\ N <= L
      /\ \A i \in I : Turn(I, i) \in 1..N
      /\ \A i, j \in I : i < j => Turn(I, i) < Turn(I, j)
      /\ \A n \in 1..N : \E i \in I : Turn(I, i) = n
  BY <1>0, Turns, Zenon
<1>2. K = [n \in 1..N |-> list[f[n]]]
  BY DEF Kept, Turn
<1>3. \A n \in 1..N : f[n] \in I /\ Turn(I, f[n]) = n
  BY <1>1
<1>. HIDE DEF f, K, N, L
<1>4. \A n \in 1..N : f[n] \in 1..L /\ list[f[n]] \in S
  BY <1>0, <1>3
<1>5. K \in Seq(S) /\ Len(K) = N /\ DOMAIN K = 1..N
  BY <1>1, <1>2, <1>4
<1>6. ASSUME NEW n \in 1..N, NEW m \in 1..N, n < m
      PROVE  f[n] < f[m]
  <2>1. f[n] \in Nat /\ f[m] \in Nat /\ f[n] \in I /\ f[m] \in I
    BY <1>0, <1>3, <1>4
  <2>2. f[n] = f[m] \/ f[n] < f[m] \/ f[m] < f[n]
    BY <2>1
  <2>3. f[m] < f[n] => m < n
    BY <1>1, <1>3, <2>1, Zenon
  <2>4. f[n] = f[m] => n = m
    BY <1>3
  <2>. QED  BY <1>6, <2>2, <2>3, <2>4, <1>1
<1>7. \A i : i \in I <=> \E n \in 1..N : f[n] = i
  <2>1. ASSUME NEW i \in I
        PROVE  f[Turn(I, i)] = i
    <3>. DEFINE j == f[Turn(I, i)]
    <3>1. j \in I /\ Turn(I, j) = Turn(I, i) /\ i \in 1..L /\ j \in 1..L
      BY <1>0, <1>1, <1>3
    <3>. HIDE DEF j
    <3>2. i = j \/ i < j \/ j < i
      BY <3>1, <1>0
    <3>3. Turn(I, i) \in Nat /\ Turn(I, j) \in Nat
      BY <1>1, <3>1
    <3>. QED  BY <1>1, <3>1, <3>2, <3>3 DEF j
  <2>. QED  BY <1>1, <1>3, <2>1
<1>8. Thinned(list, K, f)
  <2>1. f = [n \in 1..N |-> f[n]]
    BY DEF f
  <2>2. f \in [DOMAIN K -> DOMAIN list]
    BY <1>0, <1>4, <1>5, <2>1
  <2>. QED  BY <1>2, <1>5, <1>6, <2>2 DEF Thinned
<1>. QED  BY <1>1, <1>5, <1>7, <1>8 DEF K, N, L

(* A loop as a function: where it stops it returns out, elsewhere what it  *)
(* returns from the next state.                                            *)
Loops(f, X, stop, out, next) == f = [x \in X |-> IF x \in stop THEN out[x] ELSE f[next[x]]]

LEMMA LoopFunction ==
  ASSUME NEW X, NEW stop \in SUBSET X, NEW out, NEW next,
         \A x \in X \ stop : next[x] \in X
  PROVE  \E f : Loops(f, X, stop, out, next)
<1>. DEFINE Closed(D) == \A x \in D \ stop : next[x] \in D
            R(x) == {y \in stop : \A D \in SUBSET X : x \in D /\ Closed(D) => y \in D}
            f == [x \in X |-> out[CHOOSE y : y \in R(x)]]
<1>1. ASSUME NEW x \in stop
      PROVE  R(x) = {x}
  <2>1. {x} \in SUBSET X /\ Closed({x})
    OBVIOUS
  <2>2. \A y \in R(x) : y \in {x}
    BY <2>1
  <2>3. x \in R(x)
    OBVIOUS
  <2>. HIDE DEF R
  <2>. QED  BY <2>2, <2>3
<1>2. ASSUME NEW x \in X, x \notin stop
      PROVE  R(x) = R(next[x])
  <2>0. next[x] \in X
    BY <1>2
  <2>1. ASSUME NEW y \in R(next[x])
        PROVE  y \in R(x)
    <3>1. ASSUME NEW D \in SUBSET X, x \in D, Closed(D)
          PROVE  y \in D
      <4>1. next[x] \in D
        BY <1>2, <3>1
      <4>. QED  BY <3>1, <4>1
    <3>. QED  BY <3>1
  <2>2. ASSUME NEW y \in R(x)
        PROVE  y \in R(next[x])
    <3>1. ASSUME NEW D \in SUBSET X, next[x] \in D, Closed(D)
          PROVE  y \in D
      <4>1. D \cup {x} \in SUBSET X /\ Closed(D \cup {x})
        BY <3>1
      <4>2. y \in D \cup {x}
        BY <4>1
      <4>. QED  BY <1>2, <4>2
    <3>. QED  BY <3>1
  <2>. HIDE DEF R
  <2>. QED  BY <2>1, <2>2
<1>. HIDE DEF R
<1>3. ASSUME NEW x \in X
      PROVE  f[x] = IF x \in stop THEN out[x] ELSE f[next[x]]
  <2>1. CASE x \in stop
    <3>1. R(x) = {x}
      BY <1>1, <2>1
    <3>2. (CHOOSE y : y \in R(x)) = x
      BY <3>1
    <3>3. f[x] = out[CHOOSE y : y \in R(x)]
      OBVIOUS
    <3>4. f[x] = out[x]
      BY <3>2, <3>3, Zenon
    <3>. QED  BY <2>1, <3>4, Zenon
  <2>2. CASE x \notin stop
    <3>1. R(x) = R(next[x]) /\ next[x] \in X
      BY <1>2, <2>2
    <3>. QED  BY <2>2, <3>1
  <2>. QED  BY <2>1, <2>2
<1>4. f = [x \in X |-> IF x \in stop THEN out[x] ELSE f[next[x]]]
  BY <1>3
<1>5. Loops(f, X, stop, out, next)
  BY <1>4 DEF Loops
<1>. HIDE DEF f
<1>. QED  BY <1>5

(* A loop that a measure bounds: what holds where it stops and is carried  *)
(* from the next state to a state holds everywhere.                        *)
Bounded(X, stop, next, measure) ==
  /\ measure \in [X -> Nat]
  /\ \A x \in X \ stop : next[x] \in X /\ measure[next[x]] < measure[x]

Carried(X, stop, next, Good) == \A x \in X \ stop : next[x] \in Good => x \in Good

LEMMA LoopInduction ==
  ASSUME NEW X, NEW stop, NEW next, NEW measure, NEW Good,
         Bounded(X, stop, next, measure), stop \subseteq Good, Carried(X, stop, next, Good)
  PROVE  X \subseteq Good
<1>. USE DEF Bounded, Carried
<1>. DEFINE T == {measure[x] : x \in X \ Good}
<1>1. SUFFICES ASSUME X \ Good # {}
               PROVE  FALSE
  OBVIOUS
<1>2. T \subseteq Nat /\ T # {}
  BY <1>1
<1>3. \E n \in T : \A k \in T : n <= k
  BY <1>2, LeastElement
<1>4. PICK x \in X \ Good : \A y \in X \ Good : measure[x] <= measure[y]
  BY <1>3
<1>5. /\ x \notin stop /\ next[x] \in X \ Good /\ measure[next[x]] < measure[x]
      /\ measure[x] \in Nat /\ measure[next[x]] \in Nat
  BY <1>4
<1>. QED  BY <1>4, <1>5

-----------------------------------------------------------------------------
(* The walks of the guide.                                                 *)

(* What a walk leaves of a list: some of the programmes that are over are  *)
(* gone.                                                                   *)
Left(list, rest, t) ==
  /\ rest \in Seq(Events)
  /\ \E f : /\ Thinned(list, rest, f)
            /\ \A i \in DOMAIN list : ~Over(list[i], t) => \E n \in DOMAIN rest : f[n] = i

(* What a walk finds: nothing or a programme that is not over.             *)
Finds(list, from, t, sought, e) ==
  \/ e = NoEvent
  \/ /\ e \in Events /\ e \in sought /\ ~Over(e, t)
     /\ \E k \in DOMAIN list : k >= from /\ list[k] = e

Holds(list, e) == \E i \in DOMAIN list : list[i] = e

OwnChannel(list, c) == \A i \in DOMAIN list : Programme[list[i]].channel = c

StartsInOrder(list) ==
  \A i, j \in DOMAIN list : i < j => Programme[list[i]].start < Programme[list[j]].start

LEMMA LeftSame ==
  ASSUME NEW list \in Seq(Events), NEW t
  PROVE  Left(list, list, t)
<1>. DEFINE f == [n \in DOMAIN list |-> n]
<1>1. Thinned(list, list, f) /\ \A i \in DOMAIN list : f[i] = i
  BY DEF Thinned
<1>. HIDE DEF f
<1>. QED  BY <1>1 DEF Left

LEMMA LeftOfLeft ==
  ASSUME NEW list, NEW rest, NEW less, NEW t, Left(list, rest, t), Left(rest, less, t)
  PROVE  Left(list, less, t)
<1>1. PICK f : /\ Thinned(list, rest, f)
               /\ \A i \in DOMAIN list : ~Over(list[i], t) => \E n \in DOMAIN rest : f[n] = i
  BY DEF Left
<1>2. PICK g : /\ Thinned(rest, less, g)
               /\ \A i \in DOMAIN rest : ~Over(rest[i], t) => \E n \in DOMAIN less : g[n] = i
  BY DEF Left
<1>. DEFINE h == [n \in DOMAIN less |-> f[g[n]]]
<1>3. /\ \A n \in DOMAIN less : g[n] \in DOMAIN rest /\ less[n] = rest[g[n]]
      /\ \A n, m \in DOMAIN less : n < m => g[n] < g[m]
      /\ \A n \in DOMAIN rest : f[n] \in DOMAIN list /\ rest[n] = list[f[n]]
      /\ \A n, m \in DOMAIN rest : n < m => f[n] < f[m]
  BY <1>1, <1>2 DEF Thinned
<1>4. Thinned(list, less, h)
  <2>1. h \in [DOMAIN less -> DOMAIN list]
    BY <1>3
  <2>2. \A n \in DOMAIN less : less[n] = list[h[n]]
    BY <1>3
  <2>3. \A n, m \in DOMAIN less : n < m => h[n] < h[m]
    BY <1>3
  <2>. QED  BY <2>1, <2>2, <2>3 DEF Thinned
<1>5. ASSUME NEW i \in DOMAIN list, ~Over(list[i], t)
      PROVE  \E n \in DOMAIN less : h[n] = i
  <2>1. PICK n \in DOMAIN rest : f[n] = i
    BY <1>1, <1>5
  <2>2. PICK k \in DOMAIN less : g[k] = n
    BY <1>2, <1>3, <1>5, <2>1
  <2>. QED  BY <2>1, <2>2
<1>. HIDE DEF h
<1>6. less \in Seq(Events)
  BY DEF Left
<1>. QED  BY <1>4, <1>5, <1>6 DEF Left

LEMMA LeftFacts ==
  ASSUME NEW list \in Seq(Events), NEW rest, NEW t, Left(list, rest, t)
  PROVE  /\ rest \in Seq(Events)
         /\ \A e : Holds(rest, e) => Holds(list, e)
         /\ \A e : Holds(list, e) /\ ~Over(e, t) => Holds(rest, e)
         /\ StartsInOrder(list) => StartsInOrder(rest)
         /\ \A c : OwnChannel(list, c) => OwnChannel(rest, c)
<1>1. PICK f : /\ Thinned(list, rest, f)
               /\ \A i \in DOMAIN list : ~Over(list[i], t) => \E n \in DOMAIN rest : f[n] = i
  BY DEF Left
<1>2. /\ \A n \in DOMAIN rest : f[n] \in DOMAIN list /\ rest[n] = list[f[n]]
      /\ \A n, m \in DOMAIN rest : n < m => f[n] < f[m]
  BY <1>1 DEF Thinned
<1>3. \A e : Holds(rest, e) => Holds(list, e)
  BY <1>2 DEF Holds
<1>4. \A e : Holds(list, e) /\ ~Over(e, t) => Holds(rest, e)
  BY <1>1, <1>2 DEF Holds
<1>5. StartsInOrder(list) => StartsInOrder(rest)
  BY <1>2 DEF StartsInOrder
<1>6. \A c : OwnChannel(list, c) => OwnChannel(rest, c)
  BY <1>2 DEF OwnChannel
<1>7. rest \in Seq(Events)
  BY DEF Left
<1>. QED  BY <1>3, <1>4, <1>5, <1>6, <1>7

(* Keeping at least what is not over.                                      *)
LEMMA KeptLeft ==
  ASSUME NEW list \in Seq(Events), NEW t, NEW I \in SUBSET (DOMAIN list),
         \A i \in DOMAIN list : ~Over(list[i], t) => i \in I
  PROVE  Left(list, Kept(list, I), t)
<1>1. /\ Kept(list, I) \in Seq(Events)
      /\ \E f : /\ Thinned(list, Kept(list, I), f)
                /\ \A i : i \in I <=> \E n \in DOMAIN Kept(list, I) : f[n] = i
  BY KeptFacts, Zenon
<1>. QED  BY <1>1 DEF Left

LEMMA SweepFacts ==
  ASSUME NEW list \in Seq(Events), NEW from \in Nat \ {0}, NEW t \in Nat, NEW sought
  PROVE  LET r == Sweep(list, from, t, sought) IN
         Left(list, r.list, t) /\ Finds(list, from, t, sought, r.at)
<1>. DEFINE H == {i \in from..Len(list) : ~Over(list[i], t) /\ list[i] \in sought}
            hit == First(H)
            last == IF hit = 0 THEN Len(list) ELSE hit - 1
            I == {i \in DOMAIN list : Over(list[i], t) => i \notin from..last}
            r == Sweep(list, from, t, sought)
<1>1. r = [list |-> Kept(list, I), at |-> IF hit = 0 THEN NoEvent ELSE list[hit]]
  BY DEF Sweep, SelectInSubSeq, First
<1>2. Len(list) \in Nat /\ DOMAIN list = 1..Len(list) /\ \A i \in DOMAIN list : list[i] \in Events
  BY ElementOfSeq
<1>3. H \subseteq Nat \ {0}
  BY <1>2
<1>4. I \in SUBSET (DOMAIN list) /\ \A i \in DOMAIN list : ~Over(list[i], t) => i \in I
  OBVIOUS
<1>. HIDE DEF I
<1>5. Left(list, Kept(list, I), t)
  BY <1>4, KeptLeft, Zenon
<1>6. hit # 0 => hit \in H
  BY <1>3, FirstFacts
<1>7. hit # 0 => /\ hit \in DOMAIN list /\ hit >= from
                 /\ ~Over(list[hit], t) /\ list[hit] \in sought
  BY <1>2, <1>6
<1>. HIDE DEF H, r, hit
<1>8. Finds(list, from, t, sought, IF hit = 0 THEN NoEvent ELSE list[hit])
  BY <1>2, <1>7 DEF Finds
<1>. QED  BY <1>1, <1>5, <1>8 DEF r

(* firstEpgDay: a step of its loop, erasing or not, makes it shorter.      *)
Stops == {w \in DayWalks : w.i > Len(w.list) \/ OnNow(w)}
Rounds(w) ==
  IF w.i > Len(w.list) THEN 0 ELSE Len(w.list) * (Len(w.list) + 2) + (Len(w.list) + 1 - w.i)

LEMMA FewerRounds ==
  ASSUME NEW L \in Nat, NEW i \in 1..L
  PROVE  /\ L * (L + 2) + (L + 1 - i) \in Nat \ {0}
         /\ L * (L + 2) + (L + 1 - (i + 1)) < L * (L + 2) + (L + 1 - i)
         /\ \A j \in 1..L : (L - 1) * ((L - 1) + 2) + ((L - 1) + 1 - j)
                              < L * (L + 2) + (L + 1 - i)
<1>1. L * (L + 2) \in Nat
  OBVIOUS
<1>2. (L - 1) * ((L - 1) + 2) = L * L - 1
  OBVIOUS
<1>3. L * (L + 2) = L * L + 2 * L /\ L * L \in Int
  OBVIOUS
<1>. DEFINE q == L * L
<1>4. q \in Int /\ L * (L + 2) = q + 2 * L /\ (L - 1) * ((L - 1) + 2) = q - 1
  BY <1>2, <1>3
<1>. HIDE DEF q
<1>. QED  BY <1>1, <1>4

LEMMA StepOverFacts ==
  ASSUME NEW w \in DayWalks, w \notin Stops
  PROVE  /\ StepOver(w) \in DayWalks /\ StepOver(w).t = w.t
         /\ Left(w.list, StepOver(w).list, w.t)
         /\ Rounds(StepOver(w)) \in Nat /\ Rounds(StepOver(w)) < Rounds(w)
<1>. DEFINE L == Len(w.list)
            over == Over(w.list[w.i], w.t)
            I == DOMAIN w.list \ {w.i}
            rest == IF over THEN Kept(w.list, I) ELSE w.list
            i == IF w.i = L /\ over THEN 1 ELSE w.i + 1
<1>0. /\ w.list \in Seq(Events) /\ w.i \in 1..L /\ w.t \in Nat
      /\ L \in Nat /\ DOMAIN w.list = 1..L /\ \A j \in 1..L : w.list[j] \in Events
  BY ElementOfSeq DEF DayWalks, Stops
<1>1. StepOver(w) = [list |-> rest, i |-> i, t |-> w.t]
  BY DEF StepOver
<1>2. CASE over
  <2>0. I \in SUBSET (DOMAIN w.list)
    OBVIOUS
  <2>1. \A j \in DOMAIN w.list : ~Over(w.list[j], w.t) => j \in I
    BY <1>2
  <2>2. Left(w.list, Kept(w.list, I), w.t)
    BY <1>0, <2>0, <2>1, KeptLeft
  <2>3. Kept(w.list, I) \in Seq(Events) /\ Len(Kept(w.list, I)) = Cardinality(I)
    BY <1>0, <2>0, KeptFacts
  <2>4. Cardinality(I) = L - 1
    <3>1. IsFiniteSet(1..L) /\ Cardinality(1..L) = L
      BY <1>0, FS_Interval
    <3>2. I = (1..L) \ {w.i}
      BY <1>0
    <3>3. Cardinality((1..L) \ {w.i}) = Cardinality(1..L) - 1
      BY <1>0, <3>1, FS_RemoveElement, Zenon
    <3>. QED  BY <3>1, <3>2, <3>3
  <2>5. i \in 1..L /\ L - 1 \in Nat
    BY <1>0, <1>2
  <2>. DEFINE K == Kept(w.list, I)
  <2>6. StepOver(w) = [list |-> K, i |-> i, t |-> w.t]
    BY <1>1, <1>2
  <2>. HIDE DEF K, i, I, L, over
  <2>7. StepOver(w) \in DayWalks /\ StepOver(w).t = w.t /\ StepOver(w).list = K
          /\ StepOver(w).i = i
    BY <1>0, <2>3, <2>5, <2>6 DEF DayWalks, K
  <2>8. Rounds(w) = L * (L + 2) + (L + 1 - w.i) /\ Rounds(w) \in Nat \ {0}
    BY <1>0, FewerRounds DEF Rounds, L
  <2>9. Rounds(StepOver(w)) \in Nat /\ Rounds(StepOver(w)) < Rounds(w)
    <3>1. Len(K) = L - 1
      BY <2>3, <2>4 DEF K
    <3>2. CASE i > L - 1
      BY <2>7, <2>8, <3>1, <3>2 DEF Rounds
    <3>3. CASE ~(i > L - 1)
      <4>1. i \in 1..(L - 1)
        BY <2>5, <3>3
      <4>2. Rounds(StepOver(w)) = (L - 1) * ((L - 1) + 2) + ((L - 1) + 1 - i)
        BY <2>7, <3>1, <3>3 DEF Rounds
      <4>3. Rounds(StepOver(w)) \in Nat
        BY <2>5, <4>1, <4>2, FewerRounds
      <4>. QED  BY <1>0, <2>5, <2>8, <4>2, <4>3, FewerRounds
    <3>. QED  BY <3>2, <3>3
  <2>. QED  BY <2>2, <2>7, <2>9 DEF K
<1>3. CASE ~over
  <2>1. StepOver(w) = [list |-> w.list, i |-> w.i + 1, t |-> w.t]
    BY <1>1, <1>3
  <2>2. Left(w.list, w.list, w.t)
    BY <1>0, LeftSame
  <2>. HIDE DEF L, over
  <2>3. StepOver(w) \in DayWalks /\ StepOver(w).t = w.t /\ StepOver(w).list = w.list
          /\ StepOver(w).i = w.i + 1
    BY <1>0, <2>1 DEF DayWalks
  <2>4. Rounds(w) = L * (L + 2) + (L + 1 - w.i) /\ Rounds(w) \in Nat \ {0}
    BY <1>0, FewerRounds DEF Rounds, L
  <2>5. Rounds(StepOver(w)) \in Nat /\ Rounds(StepOver(w)) < Rounds(w)
    <3>1. CASE w.i + 1 > L
      BY <2>3, <2>4, <3>1 DEF Rounds, L
    <3>2. CASE ~(w.i + 1 > L)
      <4>1. w.i + 1 \in 1..L
        BY <1>0, <3>2
      <4>2. Rounds(StepOver(w)) = L * (L + 2) + (L + 1 - (w.i + 1))
        BY <2>3, <3>2 DEF Rounds, L
      <4>3. Rounds(StepOver(w)) \in Nat
        BY <1>0, <4>1, <4>2, FewerRounds
      <4>. QED  BY <1>0, <2>4, <4>2, <4>3, FewerRounds
    <3>. QED  BY <3>1, <3>2
  <2>. QED  BY <2>2, <2>3, <2>5
<1>. QED  BY <1>2, <1>3

LEMMA FirstDayUnfolds ==
  ASSUME NEW w \in DayWalks
  PROVE  FirstDayFrom[w] =
           IF w.i > Len(w.list) THEN [list |-> w.list, at |-> NoEvent]
           ELSE IF OnNow(w) THEN [list |-> w.list, at |-> w.list[w.i]]
           ELSE FirstDayFrom[StepOver(w)]
<1>. DEFINE out == [v \in DayWalks |-> IF v.i > Len(v.list)
                                       THEN [list |-> v.list, at |-> NoEvent]
                                       ELSE [list |-> v.list, at |-> v.list[v.i]]]
            next == [v \in DayWalks |-> StepOver(v)]
            Unfolded(f) == [v \in DayWalks |->
                              IF v.i > Len(v.list) THEN [list |-> v.list, at |-> NoEvent]
                              ELSE IF OnNow(v) THEN [list |-> v.list, at |-> v.list[v.i]]
                              ELSE f[StepOver(v)]]
<1>1. \A v \in DayWalks \ Stops : next[v] \in DayWalks
  BY StepOverFacts
<1>2. Stops \in SUBSET DayWalks
  BY DEF Stops
<1>. HIDE DEF next, out
<1>3. \E f : Loops(f, DayWalks, Stops, out, next)
  BY <1>1, <1>2, LoopFunction, Zenon
<1>4. PICK f : f = [v \in DayWalks |-> IF v \in Stops THEN out[v] ELSE f[next[v]]]
  BY <1>3 DEF Loops
<1>5. ASSUME NEW v \in DayWalks
      PROVE  (IF v \in Stops THEN out[v] ELSE f[next[v]]) = Unfolded(f)[v]
  <2>1. next[v] = StepOver(v)
    BY DEF next
  <2>2. v \in Stops <=> v.i > Len(v.list) \/ OnNow(v)
    BY DEF Stops
  <2>3. v.i > Len(v.list) => out[v] = [list |-> v.list, at |-> NoEvent]
    BY DEF out
  <2>4. ~(v.i > Len(v.list)) => out[v] = [list |-> v.list, at |-> v.list[v.i]]
    BY DEF out
  <2>. QED  BY <2>1, <2>2, <2>3, <2>4
<1>6. f = Unfolded(f)
  <2>1. f = [v \in DayWalks |-> Unfolded(f)[v]]
    BY <1>4, <1>5
  <2>. QED  BY <2>1
<1>7. FirstDayFrom = Unfolded(FirstDayFrom)
  BY <1>6 DEF FirstDayFrom
<1>. QED  BY <1>7

LEMMA FirstDayFacts ==
  ASSUME NEW list \in Seq(Events), NEW t \in Nat
  PROVE  LET r == firstEpgDay(list, t) IN
         /\ Left(list, r.list, t) /\ Finds(list, 1, t, Events, r.at)
         /\ r.at # NoEvent => Programme[r.at].start <= t
<1>. DEFINE next == [v \in DayWalks |-> StepOver(v)]
            rounds == [v \in DayWalks |-> Rounds(v)]
            Fits(v, r) == /\ Left(v.list, r.list, v.t) /\ Finds(v.list, 1, v.t, Events, r.at)
                          /\ r.at # NoEvent => Programme[r.at].start <= v.t
            Good == {v \in DayWalks : Fits(v, FirstDayFrom[v])}
<1>1. Stops \in SUBSET DayWalks
  BY DEF Stops
<1>2. \A v \in DayWalks \ Stops :
        next[v] \in DayWalks /\ rounds[next[v]] < rounds[v] /\ next[v] = StepOver(v)
  BY StepOverFacts
<1>3. rounds \in [DayWalks -> Nat]
  <2>1. ASSUME NEW v \in DayWalks
        PROVE  Rounds(v) \in Nat
    <3>1. Len(v.list) \in Nat /\ v.i \in Nat \ {0}
      BY DEF DayWalks
    <3>2. CASE v.i > Len(v.list)
      BY <3>2 DEF Rounds
    <3>3. CASE ~(v.i > Len(v.list))
      <4>1. v.i \in 1..Len(v.list)
        BY <3>1, <3>3
      <4>. QED  BY <3>1, <3>3, <4>1, FewerRounds DEF Rounds
    <3>. QED  BY <3>2, <3>3
  <2>. QED  BY <2>1
<1>4. Stops \subseteq Good
  <2>1. ASSUME NEW v \in Stops
        PROVE  Fits(v, FirstDayFrom[v])
    <3>1. /\ v \in DayWalks /\ v.list \in Seq(Events) /\ v.i \in Nat \ {0} /\ v.t \in Nat
          /\ Len(v.list) \in Nat /\ DOMAIN v.list = 1..Len(v.list)
          /\ \A j \in 1..Len(v.list) : v.list[j] \in Events
      BY <1>1, ElementOfSeq DEF DayWalks
    <3>2. Left(v.list, v.list, v.t)
      BY <3>1, LeftSame
    <3>3. CASE v.i > Len(v.list)
      <4>1. FirstDayFrom[v] = [list |-> v.list, at |-> NoEvent]
        BY <3>1, <3>3, FirstDayUnfolds
      <4>. QED  BY <3>2, <4>1 DEF Finds
    <3>4. CASE ~(v.i > Len(v.list)) /\ OnNow(v)
      <4>1. FirstDayFrom[v] = [list |-> v.list, at |-> v.list[v.i]]
        BY <3>1, <3>4, FirstDayUnfolds
      <4>2. v.i \in 1..Len(v.list) /\ v.i >= 1
        BY <3>1, <3>4
      <4>3. Finds(v.list, 1, v.t, Events, v.list[v.i]) /\ Programme[v.list[v.i]].start <= v.t
        BY <3>1, <3>4, <4>2 DEF Finds, OnNow
      <4>. QED  BY <3>2, <4>1, <4>3
    <3>. QED  BY <3>3, <3>4 DEF Stops
  <2>. QED  BY <1>1, <2>1
<1>5. ASSUME NEW v \in DayWalks, v \notin Stops, StepOver(v) \in Good
      PROVE  v \in Good
  <2>. DEFINE u == StepOver(v)
              r == FirstDayFrom[u]
  <2>1. /\ Left(v.list, u.list, v.t) /\ u.t = v.t
        /\ Left(u.list, r.list, v.t) /\ Finds(u.list, 1, v.t, Events, r.at)
        /\ r.at # NoEvent => Programme[r.at].start <= v.t
    BY <1>5, StepOverFacts
  <2>2. FirstDayFrom[v] = r
    BY <1>5, FirstDayUnfolds DEF Stops
  <2>3. v.list \in Seq(Events) /\ DOMAIN v.list = 1..Len(v.list)
    BY DEF DayWalks
  <2>. HIDE DEF u, r
  <2>4. Left(v.list, r.list, v.t)
    BY <2>1, LeftOfLeft
  <2>5. Finds(v.list, 1, v.t, Events, r.at)
    <3>1. \A e : Holds(u.list, e) => Holds(v.list, e)
      BY <2>1, <2>3, LeftFacts
    <3>2. CASE r.at = NoEvent
      BY <3>2 DEF Finds
    <3>3. CASE r.at # NoEvent
      <4>1. r.at \in Events /\ ~Over(r.at, v.t) /\ Holds(u.list, r.at)
        BY <2>1, <3>3 DEF Finds, Holds
      <4>2. PICK k \in DOMAIN v.list : v.list[k] = r.at
        BY <3>1, <4>1 DEF Holds
      <4>3. k >= 1
        BY <2>3
      <4>. QED  BY <4>1, <4>2, <4>3 DEF Finds
    <3>. QED  BY <3>2, <3>3
  <2>. QED  BY <2>1, <2>2, <2>4, <2>5
<1>6. \A v \in DayWalks \ Stops : next[v] \in Good => v \in Good
  BY <1>2, <1>5
<1>. DEFINE w == [list |-> list, i |-> 1, t |-> t]
<1>7. w \in DayWalks
  BY DEF DayWalks
<1>. HIDE DEF next, rounds, Good
<1>8. Bounded(DayWalks, Stops, next, rounds) /\ Carried(DayWalks, Stops, next, Good)
  BY <1>2, <1>3, <1>6 DEF Bounded, Carried
<1>9. DayWalks \subseteq Good
  BY <1>4, <1>8, LoopInduction, Zenon
<1>. QED  BY <1>7, <1>9 DEF Good, firstEpgDay

-----------------------------------------------------------------------------
(* The insertions of the tuner thread.                                     *)

LEMMA Starts ==
  ASSUME NEW e \in Events
  PROVE  /\ Programme[e].start \in Nat /\ Programme[e].length \in Nat
         /\ Programme[e].channel \in Channels /\ Programme[e].id \in Nat
BY GuideAssumption DEF Fields

LEMMA InsertSortedEpgFacts ==
  ASSUME NEW list \in Seq(Events), NEW e \in Events, NEW t, StartsInOrder(list)
  PROVE  LET new == insert_sorted_epg(list, e, t) IN
         /\ new \in Seq(Events) /\ StartsInOrder(new) /\ Holds(new, e)
         /\ \A c : OwnChannel(list, c) /\ Programme[e].channel = c => OwnChannel(new, c)
         /\ \A q : Holds(list, q) /\ ~Over(q, t) /\ Programme[q].start # Programme[e].start
                     => Holds(new, q)
<1>. DEFINE L == Len(list)
            begins(i) == Programme[list[i]].start
            H == {i \in 1..L : ~Over(list[i], t) /\ begins(i) > Programme[e].start}
            stop == First(H)
            last == IF stop = 0 THEN L ELSE stop - 1
            I == {i \in 1..last : ~Over(list[i], t) /\ begins(i) # Programme[e].start}
            K == Kept(list, I)
            N == Len(K)
            new == insert_sorted_epg(list, e, t)
<1>1. new = K \o <<e>> \o SubSeq(list, last + 1, L)
  BY DEF insert_sorted_epg, SelectInSeq, First
<1>2. L \in Nat /\ DOMAIN list = 1..L /\ \A i \in 1..L : list[i] \in Events
  BY ElementOfSeq
<1>3. /\ \A i \in 1..L : begins(i) \in Nat
      /\ Programme[e].start \in Nat
      /\ \A i, j \in 1..L : i < j => begins(i) < begins(j)
  BY <1>2, Starts DEF StartsInOrder
<1>. HIDE DEF begins
<1>4. \/ stop = 0 /\ H = {}
      \/ stop \in H /\ stop # 0 /\ \A i \in H : stop <= i
  <2>1. H \subseteq Nat \ {0}
    BY <1>2
  <2>. HIDE DEF H
  <2>. QED  BY <2>1, FirstFacts
<1>5. last \in 0..L /\ \A i \in 1..last : i \notin H
  <2>1. CASE stop = 0
    BY <1>2, <1>4, <2>1
  <2>2. CASE stop # 0
    <3>1. stop \in 1..L /\ (\A i \in H : stop <= i) /\ last = stop - 1
      BY <1>4, <2>2
    <3>. HIDE DEF H, stop, last
    <3>2. \A i \in 1..last : ~(stop <= i)
      BY <1>2, <3>1
    <3>. QED  BY <1>2, <3>1, <3>2
  <2>. QED  BY <2>1, <2>2
<1>6. \A i \in (last + 1)..L : begins(i) > Programme[e].start
  <2>1. CASE stop = 0
    BY <1>2, <2>1
  <2>2. CASE stop # 0
    <3>1. stop \in 1..L /\ begins(stop) > Programme[e].start /\ last = stop - 1
      BY <1>4, <2>2
    <3>. HIDE DEF stop, last
    <3>2. ASSUME NEW i \in (last + 1)..L
          PROVE  begins(i) > Programme[e].start
      <4>1. i \in 1..L /\ (i = stop \/ stop < i)
        BY <1>2, <3>1
      <4>2. begins(stop) \in Nat /\ begins(i) \in Nat /\ Programme[e].start \in Nat
        BY <1>3, <3>1, <4>1
      <4>3. stop < i => begins(stop) < begins(i)
        BY <1>3, <3>1, <4>1
      <4>. QED  BY <3>1, <4>1, <4>2, <4>3
    <3>. QED  BY <3>2
  <2>. QED  BY <2>1, <2>2
<1>7. \A i \in I : i \in 1..last /\ i \in 1..L /\ begins(i) < Programme[e].start
  <2>1. ASSUME NEW i \in I
        PROVE  i \in 1..last /\ i \in 1..L /\ begins(i) < Programme[e].start
    <3>1. i \in 1..last /\ i \in 1..L
      BY <1>2, <1>5
    <3>2. ~Over(list[i], t) /\ begins(i) # Programme[e].start /\ i \notin H
      BY <1>5
    <3>3. ~(begins(i) > Programme[e].start)
      BY <3>1, <3>2
    <3>. QED  BY <1>3, <3>1, <3>2, <3>3
  <2>. QED  BY <2>1
<1>8. \A i \in 1..last : ~Over(list[i], t) /\ begins(i) # Programme[e].start => i \in I
  OBVIOUS
<1>. HIDE DEF H, stop, last, I
<1>9. /\ K \in Seq(Events) /\ N \in Nat /\ DOMAIN K = 1..N
      /\ \E f : Thinned(list, K, f) /\ \A i : i \in I <=> \E n \in DOMAIN K : f[n] = i
  <2>1. I \in SUBSET (DOMAIN list)
    BY <1>2, <1>7
  <2>2. /\ K \in Seq(Events)
        /\ \E f : Thinned(list, K, f) /\ \A i : i \in I <=> \E n \in DOMAIN K : f[n] = i
    BY <2>1, KeptFacts, Zenon
  <2>3. N \in Nat /\ DOMAIN K = 1..N
    BY <2>2
  <2>. QED  BY <2>2, <2>3
<1>. HIDE DEF K
<1>p. PICK f : Thinned(list, K, f) /\ \A i : i \in I <=> \E n \in DOMAIN K : f[n] = i
  BY <1>9
<1>10. /\ \A n \in 1..N : f[n] \in I /\ K[n] = list[f[n]]
       /\ \A n, m \in 1..N : n < m => f[n] < f[m]
       /\ \A i \in I : \E n \in 1..N : f[n] = i
  BY <1>9, <1>p DEF Thinned
<1>11. /\ new \in Seq(Events) /\ Len(new) = N + 1 + (L - last)
       /\ \A i \in 1..N : new[i] = K[i]
       /\ new[N + 1] = e
       /\ \A i \in (N + 2)..(N + 1 + (L - last)) : new[i] = list[last + (i - (N + 1))]
  <2>. DEFINE tail == SubSeq(list, last + 1, L)
  <2>1. /\ tail \in Seq(Events) /\ Len(tail) = L - last
        /\ \A i \in 1..(L - last) : tail[i] = list[last + i]
    <3>1. last + 1 \in 1..(L + 1) /\ L \in Nat /\ \A i \in (last + 1)..L : i \in 1..L
      BY <1>2, <1>5
    <3>2. \A i \in (last + 1)..L : list[i] \in Events
      BY <1>2, <3>1
    <3>3. /\ tail \in Seq(Events)
          /\ Len(tail) = IF last + 1 <= L THEN L - (last + 1) + 1 ELSE 0
          /\ \A i \in 1..(L - (last + 1) + 1) : tail[i] = list[(last + 1) + i - 1]
      BY <3>1, <3>2, SubSeqProperties
    <3>4. L - (last + 1) + 1 = L - last /\ L - last \in Nat
      BY <1>2, <1>5
    <3>5. \A i \in 1..(L - last) : (last + 1) + i - 1 = last + i
      BY <1>2, <1>5
    <3>6. ~(last + 1 <= L) => L - last = 0
      <4>1. last \in Int /\ L \in Int /\ last <= L
        BY <1>2, <1>5
      <4>2. \A x, y \in Int : x <= y /\ ~(x + 1 <= y) => y - x = 0
        OBVIOUS
      <4>. QED  BY <4>1, <4>2, Zenon
    <3>. QED  BY <3>3, <3>4, <3>5, <3>6
  <2>. HIDE DEF tail
  <2>2. /\ K \o <<e>> \in Seq(Events) /\ Len(K \o <<e>>) = N + 1
        /\ \A i \in 1..N : (K \o <<e>>)[i] = K[i]
        /\ (K \o <<e>>)[N + 1] = e
    BY <1>9
  <2>. DEFINE head == K \o <<e>>
  <2>3. /\ head \in Seq(Events) /\ Len(head) = N + 1
        /\ \A i \in 1..N : head[i] = K[i]
        /\ head[N + 1] = e
    BY <2>2
  <2>4. new = head \o tail
    BY <1>1 DEF tail
  <2>. HIDE DEF head, new
  <2>5. new \in Seq(Events) /\ Len(new) = N + 1 + (L - last)
    <3>1. head \o tail \in Seq(Events) /\ Len(head \o tail) = Len(head) + Len(tail)
      BY <2>1, <2>3, ConcatProperties, Zenon
    <3>. QED  BY <2>1, <2>3, <2>4, <3>1
  <2>6. ASSUME NEW i \in 1..(N + 1 + (L - last))
        PROVE  new[i] = IF i <= N + 1 THEN head[i] ELSE tail[i - (N + 1)]
    BY <1>2, <1>5, <1>9, <2>1, <2>3, <2>4
  <2>7. \A i \in (N + 2)..(N + 1 + (L - last)) :
          /\ i \in 1..(N + 1 + (L - last)) /\ ~(i <= N + 1)
          /\ i - (N + 1) \in 1..(L - last)
    BY <1>2, <1>5, <1>9
  <2>8. \A i \in 1..(N + 1) : i \in 1..(N + 1 + (L - last)) /\ i <= N + 1
    BY <1>2, <1>5, <1>9
  <2>9. \A i \in 1..N : i \in 1..(N + 1)
    BY <1>9
  <2>10. \A i \in 1..N : new[i] = K[i]
    BY <2>3, <2>6, <2>8, <2>9
  <2>11. new[N + 1] = e
    BY <2>3, <2>6, <2>8, <1>9
  <2>12. \A i \in (N + 2)..(N + 1 + (L - last)) : new[i] = list[last + (i - (N + 1))]
    BY <2>1, <2>6, <2>7
  <2>. QED  BY <2>5, <2>10, <2>11, <2>12
<1>12. /\ \A i \in 1..N : f[i] \in 1..L /\ f[i] \in I /\ new[i] = list[f[i]]
       /\ \A i \in (N + 2)..(N + 1 + (L - last)) :
            last + (i - (N + 1)) \in (last + 1)..L /\ last + (i - (N + 1)) \in 1..L
  BY <1>2, <1>5, <1>7, <1>9, <1>10, <1>11
<1>. HIDE DEF K, N, L, new
<1>13. ASSUME NEW i \in 1..(N + 1 + (L - last))
       PROVE  i \in 1..N \/ i = N + 1 \/ i \in (N + 2)..(N + 1 + (L - last))
  BY <1>2, <1>5, <1>9
<1>14. DOMAIN new = 1..(N + 1 + (L - last))
  BY <1>11
<1>15. /\ \A i \in 1..N : new[i] = list[f[i]] /\ Programme[new[i]].start < Programme[e].start
       /\ \A i \in (N + 2)..(N + 1 + (L - last)) :
            /\ new[i] = list[last + (i - (N + 1))]
            /\ Programme[new[i]].start > Programme[e].start
  BY <1>6, <1>7, <1>11, <1>12 DEF begins
<1>16. StartsInOrder(new)
  <2>1. ASSUME NEW i \in DOMAIN new, NEW j \in DOMAIN new, i < j
        PROVE  Programme[new[i]].start < Programme[new[j]].start
    <3>1. \A k \in DOMAIN new : Programme[new[k]].start \in Nat
      BY <1>11, <1>14, Starts, ElementOfSeq
    <3>2. i \in 1..(N + 1 + (L - last)) /\ j \in 1..(N + 1 + (L - last)) /\ N \in Nat
      BY <1>9, <1>14
    <3>3. CASE i \in 1..N /\ j \in 1..N
      <4>1. f[i] < f[j] /\ f[i] \in 1..L /\ f[j] \in 1..L
        BY <1>10, <1>12, <2>1, <3>3
      <4>2. begins(f[i]) < begins(f[j])
        BY <1>3, <4>1
      <4>. QED  BY <1>15, <3>3, <4>2 DEF begins
    <3>4. CASE i \in (N + 2)..(N + 1 + (L - last)) /\ j \in (N + 2)..(N + 1 + (L - last))
      <4>1. last + (i - (N + 1)) < last + (j - (N + 1))
        BY <1>2, <1>5, <1>9, <2>1, <3>2
      <4>2. begins(last + (i - (N + 1))) < begins(last + (j - (N + 1)))
        BY <1>3, <1>12, <3>4, <4>1
      <4>. QED  BY <1>15, <3>4, <4>2 DEF begins
    <3>5. CASE i \in 1..N /\ j = N + 1
      BY <1>11, <1>15, <3>5
    <3>6. CASE i = N + 1 /\ j \in (N + 2)..(N + 1 + (L - last))
      <4>1. Programme[new[j]].start > Programme[e].start
        BY <1>15, <3>6
      <4>. QED  BY <1>3, <1>11, <3>1, <3>6, <4>1
    <3>7. CASE i \in 1..N /\ j \in (N + 2)..(N + 1 + (L - last))
      <4>1. /\ Programme[new[i]].start < Programme[e].start
            /\ Programme[new[j]].start > Programme[e].start
        BY <1>15, <3>7
      <4>. QED  BY <1>3, <3>1, <4>1
    <3>8. ~(j \in 1..N /\ ~(i \in 1..N)) /\ ~(j = N + 1 /\ ~(i \in 1..N))
      BY <2>1, <3>2
    <3>. QED  BY <1>13, <3>2, <3>3, <3>4, <3>5, <3>6, <3>7, <3>8
  <2>. QED  BY <2>1 DEF StartsInOrder
<1>17. Holds(new, e)
  <2>1. N + 1 \in DOMAIN new
    BY <1>2, <1>5, <1>9, <1>14
  <2>. QED  BY <1>11, <2>1 DEF Holds
<1>18. ASSUME NEW c, OwnChannel(list, c), Programme[e].channel = c
       PROVE  OwnChannel(new, c)
  <2>1. ASSUME NEW i \in DOMAIN new
        PROVE  Programme[new[i]].channel = c
    <3>1. \A k \in 1..L : Programme[list[k]].channel = c
      BY <1>2, <1>18 DEF OwnChannel
    <3>2. CASE i \in 1..N
      BY <1>12, <3>1, <3>2
    <3>3. CASE i = N + 1
      BY <1>11, <1>18, <3>3
    <3>4. CASE i \in (N + 2)..(N + 1 + (L - last))
      BY <1>12, <1>15, <3>1, <3>4
    <3>. QED  BY <1>13, <1>14, <3>2, <3>3, <3>4
  <2>. QED  BY <2>1 DEF OwnChannel
<1>19. ASSUME NEW q, Holds(list, q), ~Over(q, t), Programme[q].start # Programme[e].start
       PROVE  Holds(new, q)
  <2>1. PICK i \in 1..L : list[i] = q
    BY <1>2, <1>19 DEF Holds
  <2>2. CASE i \in 1..last
    <3>1. i \in I
      BY <1>8, <1>19, <2>1, <2>2 DEF begins
    <3>2. PICK n \in 1..N : f[n] = i
      BY <1>10, <3>1
    <3>3. n \in DOMAIN new
      BY <1>2, <1>5, <1>9, <1>14
    <3>. QED  BY <1>12, <2>1, <3>2, <3>3 DEF Holds
  <2>3. CASE i \in (last + 1)..L
    <3>. DEFINE n == N + 1 + (i - last)
    <3>1. /\ n \in (N + 2)..(N + 1 + (L - last)) /\ n \in 1..(N + 1 + (L - last))
          /\ last + (n - (N + 1)) = i
      BY <1>2, <1>5, <1>9, <2>3
    <3>2. new[n] = q
      BY <1>15, <2>1, <3>1
    <3>. QED  BY <1>14, <3>1, <3>2 DEF Holds
  <2>4. i \in 1..last \/ i \in (last + 1)..L
    BY <1>2, <1>5
  <2>. QED  BY <2>2, <2>3, <2>4
<1>. QED  BY <1>11, <1>16, <1>17, <1>18, <1>19 DEF new

ChannelsInOrder(list) ==
  \A i, j \in DOMAIN list :
    i < j => Number[list[i]] <= Number[list[j]] /\ list[i] # list[j]

Before(list, c, d) == \E i, j \in DOMAIN list : i < j /\ list[i] = c /\ list[j] = d

(* insert_sorted, by what it does at the position it finds.                *)
LEMMA InsertSortedShape ==
  ASSUME NEW list \in Seq(Channels), NEW c \in Channels, ChannelsInOrder(list)
  PROVE  LET new == insert_sorted(list, c) IN
         /\ new \in Seq(Channels) /\ Len(new) = Len(list) + 1
         /\ \E k \in 1..(Len(list) + 1) :
              /\ \A i \in 1..(k - 1) : new[i] = list[i] /\ Number[list[i]] <= Number[c]
              /\ new[k] = c
              /\ \A i \in k..Len(list) : new[i + 1] = list[i] /\ Number[list[i]] > Number[c]
<1>. DEFINE L == Len(list)
            rank(i) == Number[list[i]]
            H == {i \in 1..L : rank(i) > Number[c]}
            after == First(H)
            new == insert_sorted(list, c)
<1>1. new = IF after = 0 THEN Append(list, c)
            ELSE SubSeq(list, 1, after - 1) \o <<c>> \o SubSeq(list, after, L)
  BY DEF insert_sorted, SelectInSeq, First, InsertAt
<1>2. L \in Nat /\ DOMAIN list = 1..L /\ \A i \in 1..L : list[i] \in Channels
  BY ElementOfSeq
<1>3. /\ \A i \in 1..L : rank(i) \in Nat
      /\ Number[c] \in Nat
      /\ \A i, j \in 1..L : i < j => rank(i) <= rank(j)
  BY <1>2, GuideAssumption DEF ChannelsInOrder
<1>. HIDE DEF rank
<1>4. \/ after = 0 /\ H = {}
      \/ after \in H /\ after # 0 /\ \A i \in H : after <= i
  <2>1. H \subseteq Nat \ {0}
    BY <1>2
  <2>. HIDE DEF H
  <2>. QED  BY <2>1, FirstFacts
<1>5. CASE after = 0
  <2>1. \A i \in 1..L : rank(i) <= Number[c]
    BY <1>3, <1>4, <1>5
  <2>2. new = Append(list, c)
    BY <1>1, <1>5
  <2>3. /\ new \in Seq(Channels) /\ Len(new) = L + 1 /\ new[L + 1] = c
        /\ \A i \in 1..L : new[i] = list[i]
    BY <2>2, AppendProperties
  <2>4. L + 1 \in 1..(L + 1) /\ (L + 1) - 1 = L /\ \A i : ~(i \in (L + 1)..L)
    BY <1>2
  <2>. HIDE DEF L, new
  <2>5. \E k \in 1..(L + 1) :
          /\ \A i \in 1..(k - 1) : new[i] = list[i] /\ rank(i) <= Number[c]
          /\ new[k] = c
          /\ \A i \in k..L : new[i + 1] = list[i] /\ rank(i) > Number[c]
    BY <2>1, <2>3, <2>4
  <2>. QED  BY <2>3, <2>5 DEF L, new, rank
<1>6. CASE after # 0
  <2>. DEFINE k == after
  <2>1. k \in 1..L /\ rank(k) > Number[c] /\ \A i \in H : k <= i
    BY <1>4, <1>6
  <2>. HIDE DEF after, k
  <2>2. \A i \in k..L : rank(i) > Number[c]
    <3>1. ASSUME NEW i \in k..L
          PROVE  rank(i) > Number[c]
      <4>1. i \in 1..L /\ (i = k \/ k < i)
        BY <1>2, <2>1
      <4>. QED  BY <1>3, <2>1, <4>1
    <3>. QED  BY <3>1
  <2>3. \A i \in 1..(k - 1) : i \in 1..L /\ rank(i) <= Number[c]
    <3>1. ASSUME NEW i \in 1..(k - 1)
          PROVE  i \in 1..L /\ rank(i) <= Number[c]
      <4>1. i \in 1..L /\ ~(k <= i)
        BY <1>2, <2>1
      <4>2. i \notin H
        BY <2>1, <4>1
      <4>. QED  BY <1>3, <4>1, <4>2
    <3>. QED  BY <3>1
  <2>. HIDE DEF H
  <2>. DEFINE p == SubSeq(list, 1, k - 1)
              q == SubSeq(list, k, L)
              h == p \o <<c>>
  <2>4. new = h \o q
    BY <1>1, <1>6 DEF k
  <2>. HIDE DEF new
  <2>5. /\ p \in Seq(Channels) /\ Len(p) = k - 1
        /\ \A i \in 1..(k - 1) : p[i] = list[i]
    <3>1. 1 \in 1..(L + 1) /\ k - 1 \in 0..L /\ \A i \in 1..(k - 1) : list[i] \in Channels
      BY <1>2, <2>1, <2>3
    <3>2. /\ p \in Seq(Channels)
          /\ Len(p) = IF 1 <= k - 1 THEN (k - 1) - 1 + 1 ELSE 0
          /\ \A i \in 1..((k - 1) - 1 + 1) : p[i] = list[1 + i - 1]
      BY <3>1, SubSeqProperties
    <3>3. /\ (k - 1) - 1 + 1 = k - 1 /\ (~(1 <= k - 1) => k - 1 = 0)
          /\ \A i \in 1..(k - 1) : 1 + i - 1 = i
      BY <1>2, <2>1
    <3>. QED  BY <3>2, <3>3
  <2>6. /\ q \in Seq(Channels) /\ Len(q) = L - k + 1
        /\ \A i \in 1..(L - k + 1) : q[i] = list[k + i - 1]
    <3>1. k \in 1..(L + 1) /\ L \in 0..L /\ \A i \in k..L : list[i] \in Channels
      BY <1>2, <2>1
    <3>2. /\ q \in Seq(Channels)
          /\ Len(q) = IF k <= L THEN L - k + 1 ELSE 0
          /\ \A i \in 1..(L - k + 1) : q[i] = list[k + i - 1]
      BY <3>1, SubSeqProperties
    <3>3. k <= L
      BY <2>1
    <3>. QED  BY <3>2, <3>3
  <2>. HIDE DEF p, q
  <2>7. /\ h \in Seq(Channels) /\ Len(h) = k
        /\ \A i \in 1..(k - 1) : h[i] = list[i]
        /\ h[k] = c
    <3>1. k - 1 \in Nat /\ (k - 1) + 1 = k
      BY <1>2, <2>1
    <3>2. h = Append(p, c)
      BY <2>5
    <3>. HIDE DEF h
    <3>. QED  BY <2>5, <3>1, <3>2, AppendProperties
  <2>. HIDE DEF h
  <2>8. /\ h \o q \in Seq(Channels) /\ Len(h \o q) = Len(h) + Len(q)
        /\ \A i \in 1..(Len(h) + Len(q)) :
             (h \o q)[i] = IF i <= Len(h) THEN h[i] ELSE q[i - Len(h)]
    BY <2>6, <2>7, ConcatProperties, Zenon
  <2>9. /\ new \in Seq(Channels) /\ Len(new) = k + (L - k + 1)
        /\ \A i \in 1..(k + (L - k + 1)) : new[i] = IF i <= k THEN h[i] ELSE q[i - k]
    BY <2>4, <2>6, <2>7, <2>8
  <2>10. /\ k + (L - k + 1) = L + 1 /\ k \in 1..(L + 1)
         /\ \A i \in 1..(k - 1) : i \in 1..(L + 1) /\ i <= k
         /\ \A i \in k..L : /\ i + 1 \in 1..(L + 1) /\ ~(i + 1 <= k)
                           /\ (i + 1) - k \in 1..(L - k + 1) /\ k + ((i + 1) - k) - 1 = i
    BY <1>2, <2>1
  <2>. HIDE DEF L
  <2>11. \A i \in 1..(k - 1) : new[i] = list[i]
    BY <2>7, <2>9, <2>10
  <2>12. new[k] = c
    BY <1>2, <2>1, <2>7, <2>9, <2>10
  <2>13. \A i \in k..L : new[i + 1] = list[i]
    BY <2>6, <2>9, <2>10
  <2>. QED  BY <2>2, <2>3, <2>9, <2>10, <2>11, <2>12, <2>13 DEF L, new, rank
<1>. QED  BY <1>5, <1>6

LEMMA InsertSortedFacts ==
  ASSUME NEW list \in Seq(Channels), NEW c \in Channels, ChannelsInOrder(list), ~Holds(list, c)
  PROVE  LET new == insert_sorted(list, c) IN
         /\ new \in Seq(Channels) /\ ChannelsInOrder(new)
         /\ \A d : Holds(new, d) <=> Holds(list, d) \/ d = c
         /\ \A d, e : Before(list, d, e) => Before(new, d, e)
<1>. DEFINE L == Len(list)
            new == insert_sorted(list, c)
<1>1. new \in Seq(Channels) /\ Len(new) = L + 1
  BY InsertSortedShape, Zenon
<1>2. PICK k \in 1..(L + 1) :
              /\ \A i \in 1..(k - 1) : new[i] = list[i] /\ Number[list[i]] <= Number[c]
              /\ new[k] = c
              /\ \A i \in k..L : new[i + 1] = list[i] /\ Number[list[i]] > Number[c]
  BY InsertSortedShape, Zenon
<1>3. /\ L \in Nat /\ DOMAIN list = 1..L /\ DOMAIN new = 1..(L + 1)
      /\ \A i \in 1..L : list[i] \in Channels /\ list[i] # c /\ Number[list[i]] \in Nat
      /\ Number[c] \in Nat
  BY <1>1, ElementOfSeq, GuideAssumption DEF Holds
<1>. HIDE DEF new, L
<1>. DEFINE old(i) == IF i < k THEN i ELSE i - 1
            place(i) == IF i < k THEN i ELSE i + 1
<1>4. \A i \in 1..(L + 1) : i # k => old(i) \in 1..L /\ new[i] = list[old(i)]
  <2>1. ASSUME NEW i \in 1..(L + 1), i # k
        PROVE  old(i) \in 1..L /\ new[i] = list[old(i)]
    <3>1. CASE i < k
      BY <1>2, <1>3, <2>1, <3>1
    <3>2. CASE ~(i < k)
      <4>1. i - 1 \in k..L /\ (i - 1) + 1 = i /\ i - 1 \in 1..L
        BY <1>2, <1>3, <2>1, <3>2
      <4>. QED  BY <1>2, <3>2, <4>1
    <3>. QED  BY <3>1, <3>2
  <2>. QED  BY <2>1
<1>5. \A i \in 1..L : place(i) \in 1..(L + 1) /\ new[place(i)] = list[i]
  <2>1. ASSUME NEW i \in 1..L
        PROVE  place(i) \in 1..(L + 1) /\ new[place(i)] = list[i]
    <3>1. CASE i < k
      BY <1>2, <1>3, <2>1, <3>1
    <3>2. CASE ~(i < k)
      <4>1. i \in k..L /\ i + 1 \in 1..(L + 1)
        BY <1>2, <1>3, <2>1, <3>2
      <4>. QED  BY <1>2, <3>2, <4>1
    <3>. QED  BY <3>1, <3>2
  <2>. QED  BY <2>1
<1>6. /\ \A i, j \in 1..(L + 1) : i < j /\ i # k /\ j # k => old(i) < old(j)
      /\ \A i, j \in 1..L : i < j => place(i) < place(j)
  BY <1>3
<1>7. ChannelsInOrder(new)
  <2>1. ASSUME NEW i \in 1..(L + 1), NEW j \in 1..(L + 1), i < j
        PROVE  Number[new[i]] <= Number[new[j]] /\ new[i] # new[j]
    <3>1. CASE i # k /\ j # k
      <4>1. /\ old(i) \in DOMAIN list /\ old(j) \in DOMAIN list /\ old(i) < old(j)
            /\ new[i] = list[old(i)] /\ new[j] = list[old(j)]
        BY <1>3, <1>4, <1>6, <2>1, <3>1
      <4>. HIDE DEF old
      <4>. QED  BY <4>1 DEF ChannelsInOrder
    <3>2. CASE i = k
      <4>1. j - 1 \in k..L /\ (j - 1) + 1 = j /\ j - 1 \in 1..L
        BY <1>3, <2>1, <3>2
      <4>2. new[i] = c /\ new[j] = list[j - 1] /\ Number[list[j - 1]] > Number[c]
        BY <1>2, <3>2, <4>1
      <4>. QED  BY <1>3, <4>1, <4>2
    <3>3. CASE j = k
      <4>1. i \in 1..(k - 1) /\ i \in 1..L
        BY <1>3, <2>1, <3>3
      <4>2. new[j] = c /\ new[i] = list[i] /\ Number[list[i]] <= Number[c]
        BY <1>2, <3>3, <4>1
      <4>. QED  BY <1>3, <4>1, <4>2
    <3>. QED  BY <3>1, <3>2, <3>3
  <2>. QED  BY <1>3, <2>1 DEF ChannelsInOrder
<1>8. \A d : Holds(new, d) <=> Holds(list, d) \/ d = c
  <2>1. ASSUME NEW d, Holds(new, d)
        PROVE  Holds(list, d) \/ d = c
    BY <1>2, <1>3, <1>4, <2>1 DEF Holds
  <2>2. ASSUME NEW d, Holds(list, d)
        PROVE  Holds(new, d)
    BY <1>3, <1>5, <2>2 DEF Holds
  <2>3. Holds(new, c)
    BY <1>2, <1>3 DEF Holds
  <2>. QED  BY <2>1, <2>2, <2>3
<1>9. \A d, e : Before(list, d, e) => Before(new, d, e)
  <2>1. ASSUME NEW d, NEW e, Before(list, d, e)
        PROVE  Before(new, d, e)
    <3>1. PICK i \in 1..L, j \in 1..L : i < j /\ list[i] = d /\ list[j] = e
      BY <1>3, <2>1 DEF Before
    <3>2. /\ place(i) \in DOMAIN new /\ place(j) \in DOMAIN new /\ place(i) < place(j)
          /\ new[place(i)] = d /\ new[place(j)] = e
      BY <1>3, <1>5, <1>6, <3>1
    <3>. HIDE DEF place
    <3>. QED  BY <3>2 DEF Before
  <2>. QED  BY <2>1
<1>. QED  BY <1>1, <1>7, <1>8, <1>9 DEF new

-----------------------------------------------------------------------------
(* The calls on the directory.                                             *)

Lists == [channels : Seq(Channels), programs : [Channels -> Seq(Events)]]

(* A call leaves the channels, and of every programme list what is not     *)
(* over.                                                                   *)
Swept(d, e, t) ==
  /\ e \in Lists /\ e.channels = d.channels
  /\ \A c \in Channels : Left(d.programs[c], e.programs[c], t)

LEMMA SweptSame ==
  ASSUME NEW d \in Lists, NEW t
  PROVE  Swept(d, d, t)
<1>1. \A c \in Channels : d.programs[c] \in Seq(Events)
  BY DEF Lists
<1>2. \A c \in Channels : Left(d.programs[c], d.programs[c], t)
  BY <1>1, LeftSame
<1>. QED  BY <1>2 DEF Swept

LEMMA OneSwept ==
  ASSUME NEW d \in Lists, NEW c \in Channels, NEW rest, NEW t, Left(d.programs[c], rest, t)
  PROVE  Swept(d, [d EXCEPT !.programs[c] = rest], t)
<1>. DEFINE e == [d EXCEPT !.programs[c] = rest]
<1>1. d.programs \in [Channels -> Seq(Events)] /\ d.channels \in Seq(Channels)
  BY DEF Lists
<1>2. rest \in Seq(Events)
  BY DEF Left
<1>3. \A p \in [Channels -> Seq(Events)] :
        /\ [d EXCEPT !.programs = p] \in Lists /\ [d EXCEPT !.programs = p].programs = p
        /\ [d EXCEPT !.programs = p].channels = d.channels
  BY DEF Lists
<1>4. e = [d EXCEPT !.programs = [d.programs EXCEPT ![c] = rest]]
  OBVIOUS
<1>. HIDE DEF e
<1>5. /\ e \in Lists /\ e.programs = [d.programs EXCEPT ![c] = rest]
      /\ e.channels = d.channels
  BY <1>1, <1>2, <1>3, <1>4
<1>6. \A a \in Channels : Left(d.programs[a], e.programs[a], t)
  BY <1>1, <1>5, LeftSame
<1>. QED  BY <1>5, <1>6 DEF Swept, e

LEMMA Listed ==
  ASSUME NEW d \in Lists, NEW c
  PROVE  /\ ischannel(d, c) <=> Holds(d.channels, c)
         /\ ischannel(d, c) => c \in Channels /\ d.programs[c] \in Seq(Events)
<1>1. d.channels \in Seq(Channels) /\ \A a \in Channels : d.programs[a] \in Seq(Events)
  BY DEF Lists
<1>2. \A i \in DOMAIN d.channels : d.channels[i] \in Channels
  BY <1>1, ElementOfSeq
<1>. QED  BY <1>1, <1>2 DEF ischannel, Holds

LEMMA PositionFacts ==
  ASSUME NEW S, NEW list \in Seq(S), NEW e
  PROVE  /\ Position(list, e) \in Nat
         /\ Position(list, e) = 0 <=> ~Holds(list, e)
         /\ Position(list, e) # 0 => /\ Position(list, e) \in DOMAIN list
                                     /\ list[Position(list, e)] = e
<1>. DEFINE H == {i \in 1..Len(list) : list[i] = e}
<1>1. Position(list, e) = First(H)
  BY DEF Position, SelectInSeq, First
<1>2. Len(list) \in Nat /\ DOMAIN list = 1..Len(list)
  OBVIOUS
<1>3. H \subseteq Nat \ {0}
  BY <1>2
<1>4. \A i : i \in H <=> i \in 1..Len(list) /\ list[i] = e
  OBVIOUS
<1>. HIDE DEF H
<1>5. \/ First(H) = 0 /\ H = {}
      \/ First(H) \in H /\ First(H) # 0
  BY <1>3, FirstFacts
<1>6. CASE First(H) = 0 /\ H = {}
  BY <1>1, <1>2, <1>4, <1>6 DEF Holds
<1>7. CASE First(H) \in H /\ First(H) # 0
  BY <1>1, <1>2, <1>4, <1>7 DEF Holds
<1>. QED  BY <1>5, <1>6, <1>7

(* The walk stands at an entry of the directory.                           *)
Stands(d, dir, t, w) ==
  \/ dir.shape = "root" /\ \E k \in 1..Len(rootDirs) : w = RootWalk(k)
  \/ /\ dir.shape \in {"Channels", "EPG"}
     /\ \E k \in DOMAIN d.channels :
          w = ChannelWalk(d.channels, k, IF dir.shape = "EPG" THEN "guide" ELSE "channel")
  \/ /\ dir.shape \in {"guide", "day"} /\ ischannel(d, dir.channel)
     /\ w.next \in Events /\ Holds(d.programs[dir.channel], w.next) /\ ~Over(w.next, t)
     /\ w = [entry |-> IF dir.shape = "guide" THEN DayEntry(dir.channel, w.next)
                       ELSE EventEntry(dir, w.next),
             next |-> w.next]

LEMMA EpgWalkFacts ==
  ASSUME NEW d \in Lists, NEW dir, dir.shape \in {"guide", "day"}, ischannel(d, dir.channel),
         NEW t, NEW from, NEW sought, NEW found,
         Left(d.programs[dir.channel], found.list, t),
         Finds(d.programs[dir.channel], from, t, sought, found.at)
  PROVE  LET r == EpgWalk(d, dir, found) IN
         /\ Swept(d, r.db, t)
         /\ r.walk # NoWalk => /\ Stands(d, dir, t, r.walk) /\ r.walk.next = found.at
                               /\ found.at # NoEvent
<1>. DEFINE c == dir.channel
            r == EpgWalk(d, dir, found)
            w == [entry |-> IF dir.shape = "guide" THEN DayEntry(c, found.at)
                            ELSE EventEntry(dir, found.at),
                  next |-> found.at]
<1>1. c \in Channels
  BY Listed
<1>2. /\ r.db = [d EXCEPT !.programs[c] = found.list]
      /\ r.walk = IF found.at = NoEvent THEN NoWalk ELSE w
  BY DEF EpgWalk, WithLists
<1>3. Swept(d, r.db, t)
  BY <1>1, <1>2, OneSwept
<1>4. ASSUME found.at # NoEvent
      PROVE  Stands(d, dir, t, w) /\ w.next = found.at
  <2>1. /\ found.at \in Events /\ ~Over(found.at, t) /\ Holds(d.programs[c], found.at)
    BY <1>4 DEF Finds, Holds
  <2>2. w.next = found.at
    OBVIOUS
  <2>3. w = [entry |-> IF dir.shape = "guide" THEN DayEntry(c, w.next) ELSE EventEntry(dir, w.next),
             next |-> w.next]
    BY <2>2
  <2>. HIDE DEF w
  <2>. QED  BY <2>1, <2>2, <2>3 DEF Stands
<1>. QED  BY <1>2, <1>3, <1>4

(* PCGetDirFirstFile sweeps one list and stands at an entry, or there is   *)
(* none.                                                                   *)
LEMMA FirstFileFacts ==
  ASSUME NEW d \in Lists, NEW dir, NEW delimited \in BOOLEAN, NEW t \in Nat
  PROVE  LET r == PCGetDirFirstFile(d, dir, delimited, t) IN
         /\ Swept(d, r.db, t)
         /\ r.walk # NoWalk =>
              /\ Stands(d, dir, t, r.walk)
              /\ dir.shape = "day" => DayOf(r.walk.next) = dir.day
              /\ dir.shape = "root" => r.walk = RootWalk(1)
              /\ dir.shape \in {"Channels", "EPG"} =>
                   r.walk = ChannelWalk(d.channels, 1,
                                        IF dir.shape = "EPG" THEN "guide" ELSE "channel")
<1>. DEFINE c == dir.channel
            r == PCGetDirFirstFile(d, dir, delimited, t)
<1>0. Swept(d, d, t)
  BY SweptSame
<1>1. CASE dir.shape = "root"
  <2>1. r = [db |-> d, walk |-> RootWalk(1)]
    BY <1>1 DEF PCGetDirFirstFile, WithLists
  <2>2. 1 \in 1..Len(rootDirs)
    BY DEF rootDirs
  <2>3. Stands(d, dir, t, RootWalk(1))
    BY <1>1, <2>2 DEF Stands
  <2>. HIDE DEF r
  <2>. QED  BY <1>0, <1>1, <2>1, <2>3 DEF r
<1>2. ASSUME NEW shape \in {"channel", "guide"},
             dir.shape = IF shape = "guide" THEN "EPG" ELSE "Channels",
             r = [db |-> d, walk |-> ChannelWalk(d.channels, 1, shape)]
      PROVE  /\ Swept(d, r.db, t)
             /\ r.walk # NoWalk =>
                  /\ Stands(d, dir, t, r.walk)
                  /\ r.walk = ChannelWalk(d.channels, 1,
                                          IF dir.shape = "EPG" THEN "guide" ELSE "channel")
  <2>1. Len(d.channels) \in Nat /\ DOMAIN d.channels = 1..Len(d.channels)
    BY DEF Lists
  <2>2. r.walk # NoWalk => 1 \in DOMAIN d.channels
    BY <1>2, <2>1 DEF ChannelWalk
  <2>3. shape = IF dir.shape = "EPG" THEN "guide" ELSE "channel"
    BY <1>2
  <2>4. dir.shape \in {"Channels", "EPG"} /\ r.db = d /\ r.walk = ChannelWalk(d.channels, 1, shape)
    BY <1>2
  <2>. HIDE DEF r
  <2>5. r.walk # NoWalk => Stands(d, dir, t, r.walk)
    BY <2>2, <2>3, <2>4 DEF Stands
  <2>. QED  BY <1>0, <2>3, <2>4, <2>5
<1>3. CASE dir.shape = "Channels"
  <2>1. r = [db |-> d, walk |-> ChannelWalk(d.channels, 1, "channel")]
    BY <1>3 DEF PCGetDirFirstFile, WithLists
  <2>. HIDE DEF r
  <2>. QED  BY <1>2, <1>3, <2>1 DEF r
<1>4. CASE dir.shape = "EPG" /\ delimited
  <2>1. r = [db |-> d, walk |-> ChannelWalk(d.channels, 1, "guide")]
    BY <1>4 DEF PCGetDirFirstFile, WithLists
  <2>. HIDE DEF r
  <2>. QED  BY <1>2, <1>4, <2>1 DEF r
<1>5. CASE dir.shape = "guide" /\ ischannel(d, c)
  <2>. DEFINE found == firstEpgDay(d.programs[c], t)
  <2>1. r = EpgWalk(d, dir, found)
    BY <1>5 DEF PCGetDirFirstFile
  <2>2. d.programs[c] \in Seq(Events)
    BY <1>5, Listed
  <2>3. Left(d.programs[c], found.list, t) /\ Finds(d.programs[c], 1, t, Events, found.at)
    BY <2>2, FirstDayFacts, Zenon
  <2>. HIDE DEF found, r
  <2>4. /\ Swept(d, r.db, t)
        /\ r.walk # NoWalk => Stands(d, dir, t, r.walk)
    BY <1>5, <2>1, <2>3, EpgWalkFacts
  <2>. QED  BY <1>5, <2>4 DEF r
<1>6. CASE dir.shape = "day" /\ ischannel(d, c)
  <2>. DEFINE sought == {q \in Events : DayOf(q) = dir.day}
              found == firstEpgEvent(d.programs[c], dir.day, t)
  <2>1. r = EpgWalk(d, dir, found)
    BY <1>6 DEF PCGetDirFirstFile
  <2>2. d.programs[c] \in Seq(Events)
    BY <1>6, Listed
  <2>3. Left(d.programs[c], found.list, t) /\ Finds(d.programs[c], 1, t, sought, found.at)
    <3>1. found = Sweep(d.programs[c], 1, t, sought)
      BY DEF firstEpgEvent
    <3>. HIDE DEF found, sought
    <3>. QED  BY <2>2, <3>1, SweepFacts
  <2>4. found.at # NoEvent => DayOf(found.at) = dir.day
    BY <2>3 DEF Finds
  <2>. HIDE DEF found, r, sought
  <2>5. /\ Swept(d, r.db, t)
        /\ r.walk # NoWalk => Stands(d, dir, t, r.walk) /\ r.walk.next = found.at
                                /\ found.at # NoEvent
    BY <1>6, <2>1, <2>3, EpgWalkFacts
  <2>. QED  BY <1>6, <2>4, <2>5 DEF r
<1>7. CASE /\ dir.shape # "root" /\ dir.shape # "Channels"
           /\ ~(dir.shape = "EPG" /\ delimited)
           /\ ~(dir.shape = "guide" /\ ischannel(d, c))
           /\ ~(dir.shape = "day" /\ ischannel(d, c))
  <2>1. r = [db |-> d, walk |-> NoWalk]
    BY <1>7, Zenon DEF PCGetDirFirstFile, WithLists
  <2>. HIDE DEF r
  <2>. QED  BY <1>0, <2>1 DEF r
<1>. QED  BY <1>1, <1>3, <1>4, <1>5, <1>6, <1>7

(* PCGetDirNextFile only goes forward.                                     *)
LEMMA NextFileFacts ==
  ASSUME NEW d \in Lists, NEW dir, NEW walk, NEW t \in Nat
  PROVE  LET r == PCGetDirNextFile(d, dir, walk, t)
             at == Position(d.programs[dir.channel], walk.next) IN
         /\ Swept(d, r.db, t)
         /\ r.walk # NoWalk /\ ~Dangling(d, dir, walk) =>
              /\ dir.shape # "root" => Stands(d, dir, t, r.walk)
              /\ dir.shape = "root" => r.walk = RootWalk(walk.next)
              /\ dir.shape \in {"Channels", "EPG"} =>
                   /\ walk.next # End
                   /\ r.walk = ChannelWalk(d.channels, Position(d.channels, walk.next),
                                           IF dir.shape = "EPG" THEN "guide" ELSE "channel")
              /\ dir.shape = "guide" => DayOf(r.walk.next) > DayOf(walk.next)
              /\ dir.shape = "day" =>
                   /\ DayOf(r.walk.next) <= dir.day
                   /\ \E k \in DOMAIN d.programs[dir.channel] :
                        k > at /\ d.programs[dir.channel][k] = r.walk.next
<1>. DEFINE c == dir.channel
            r == PCGetDirNextFile(d, dir, walk, t)
            at == Position(d.programs[c], walk.next)
<1>0. Swept(d, d, t)
  BY SweptSame
<1>1. CASE dir.shape = "root"
  <2>1. r = [db |-> d, walk |-> RootWalk(walk.next)]
    BY <1>1 DEF PCGetDirNextFile, WithLists
  <2>. HIDE DEF r
  <2>. QED  BY <1>0, <1>1, <2>1 DEF r
<1>2. ASSUME NEW shape \in {"channel", "guide"},
             dir.shape = IF shape = "guide" THEN "EPG" ELSE "Channels",
             r = [db |-> d,
                  walk |-> IF walk.next = End THEN NoWalk
                           ELSE ChannelWalk(d.channels, Position(d.channels, walk.next), shape)]
      PROVE  /\ Swept(d, r.db, t)
             /\ r.walk # NoWalk /\ ~Dangling(d, dir, walk) =>
                  /\ Stands(d, dir, t, r.walk) /\ walk.next # End
                  /\ r.walk = ChannelWalk(d.channels, Position(d.channels, walk.next),
                                          IF dir.shape = "EPG" THEN "guide" ELSE "channel")
  <2>. DEFINE k == Position(d.channels, walk.next)
  <2>1. r.walk # NoWalk =>
          walk.next # End /\ r.walk = ChannelWalk(d.channels, k, shape)
    BY <1>2
  <2>2. ~Dangling(d, dir, walk) /\ walk.next # End => k \in DOMAIN d.channels
    <3>1. ~Dangling(d, dir, walk) /\ walk.next # End => Holds(d.channels, walk.next)
      BY <1>2, Listed DEF Dangling
    <3>2. d.channels \in Seq(Channels)
      BY DEF Lists
    <3>. QED  BY <3>1, <3>2, PositionFacts
  <2>3. shape = IF dir.shape = "EPG" THEN "guide" ELSE "channel"
    BY <1>2
  <2>4. dir.shape \in {"Channels", "EPG"} /\ r.db = d
    BY <1>2
  <2>. HIDE DEF r, k
  <2>5. r.walk # NoWalk /\ ~Dangling(d, dir, walk) => Stands(d, dir, t, r.walk)
    BY <2>1, <2>2, <2>3, <2>4 DEF Stands
  <2>. QED  BY <1>0, <2>1, <2>3, <2>4, <2>5 DEF k
<1>3. CASE dir.shape = "Channels"
  <2>1. r = [db |-> d,
             walk |-> IF walk.next = End THEN NoWalk
                      ELSE ChannelWalk(d.channels, Position(d.channels, walk.next), "channel")]
    BY <1>3 DEF PCGetDirNextFile, WithLists
  <2>. HIDE DEF r
  <2>. QED  BY <1>2, <1>3, <2>1 DEF r
<1>4. CASE dir.shape = "EPG"
  <2>1. r = [db |-> d,
             walk |-> IF walk.next = End THEN NoWalk
                      ELSE ChannelWalk(d.channels, Position(d.channels, walk.next), "guide")]
    BY <1>4 DEF PCGetDirNextFile, WithLists
  <2>. HIDE DEF r
  <2>. QED  BY <1>2, <1>4, <2>1 DEF r
<1>p. ASSUME ischannel(d, c)
      PROVE  d.programs[c] \in Seq(Events) /\ at \in Nat /\ at + 1 \in Nat \ {0}
  <2>1. d.programs[c] \in Seq(Events)
    BY <1>p, Listed
  <2>2. at \in Nat
    BY <2>1, PositionFacts
  <2>. QED  BY <2>1, <2>2
<1>5. CASE dir.shape = "guide" /\ ischannel(d, c)
  <2>. DEFINE sought == {q \in Events : DayOf(q) > DayOf(walk.next)}
              found == nextEpgDay(d.programs[c], walk.next, t)
  <2>1. r = EpgWalk(d, dir, found)
    BY <1>5 DEF PCGetDirNextFile
  <2>3. Left(d.programs[c], found.list, t) /\ Finds(d.programs[c], at + 1, t, sought, found.at)
    <3>1. found = Sweep(d.programs[c], at + 1, t, sought)
      BY DEF nextEpgDay
    <3>. HIDE DEF found, sought, at
    <3>. QED  BY <1>5, <1>p, <3>1, SweepFacts
  <2>4. found.at # NoEvent => DayOf(found.at) > DayOf(walk.next)
    BY <2>3 DEF Finds
  <2>. HIDE DEF found, r, sought
  <2>5. /\ Swept(d, r.db, t)
        /\ r.walk # NoWalk => Stands(d, dir, t, r.walk) /\ r.walk.next = found.at
                                /\ found.at # NoEvent
    BY <1>5, <2>1, <2>3, EpgWalkFacts
  <2>. QED  BY <1>5, <2>4, <2>5 DEF r
<1>6. CASE dir.shape = "day" /\ ischannel(d, c)
  <2>. DEFINE next == Sweep(d.programs[c], at + 1, t, Events)
              found == nextEpgEvent(d.programs[c], walk.next, dir.day, t)
  <2>1. r = EpgWalk(d, dir, found)
    BY <1>6 DEF PCGetDirNextFile
  <2>2. Left(d.programs[c], next.list, t) /\ Finds(d.programs[c], at + 1, t, Events, next.at)
    <3>. HIDE DEF at
    <3>. QED  BY <1>6, <1>p, SweepFacts
  <2>3. /\ found.list = next.list
        /\ found.at = IF next.at # NoEvent /\ DayOf(next.at) <= dir.day THEN next.at ELSE NoEvent
    <3>1. next = [list |-> next.list, at |-> next.at]
      BY DEF Sweep
    <3>2. found = IF next.at # NoEvent /\ DayOf(next.at) <= dir.day THEN next
                  ELSE [next EXCEPT !.at = NoEvent]
      BY DEF nextEpgEvent
    <3>. HIDE DEF next, found
    <3>3. [next EXCEPT !.at = NoEvent].list = next.list /\ [next EXCEPT !.at = NoEvent].at = NoEvent
      BY <3>1
    <3>. QED  BY <3>2, <3>3
  <2>. HIDE DEF found, next, r, at
  <2>4. Left(d.programs[c], found.list, t) /\ Finds(d.programs[c], at + 1, t, Events, found.at)
    BY <2>2, <2>3 DEF Finds
  <2>5. found.at # NoEvent => /\ DayOf(found.at) <= dir.day
                              /\ \E k \in DOMAIN d.programs[c] :
                                   k > at /\ d.programs[c][k] = found.at
    <3>1. ASSUME found.at # NoEvent
          PROVE  \E k \in DOMAIN d.programs[c] : k > at /\ d.programs[c][k] = found.at
      <4>1. PICK k \in DOMAIN d.programs[c] : k >= at + 1 /\ d.programs[c][k] = found.at
        BY <2>4, <3>1 DEF Finds
      <4>2. k \in Nat /\ at \in Nat
        BY <1>6, <1>p
      <4>. QED  BY <4>1, <4>2
    <3>. QED  BY <2>3, <3>1
  <2>6. /\ Swept(d, r.db, t)
        /\ r.walk # NoWalk => Stands(d, dir, t, r.walk) /\ r.walk.next = found.at
                                /\ found.at # NoEvent
    BY <1>6, <2>1, <2>4, EpgWalkFacts
  <2>. QED  BY <1>6, <2>5, <2>6 DEF r, at
<1>7. CASE ~(\/ dir.shape \in {"root", "Channels", "EPG"}
             \/ dir.shape \in {"guide", "day"} /\ ischannel(d, c))
  <2>1. r = [db |-> d, walk |-> NoWalk]
    BY <1>7 DEF PCGetDirNextFile, WithLists
  <2>. HIDE DEF r
  <2>. QED  BY <1>0, <2>1 DEF r
<1>. QED  BY <1>1, <1>2, <1>3, <1>4, <1>5, <1>6, <1>7

(* GetMetaData sweeps one list.                                            *)
LEMMA MetaDataFacts ==
  ASSUME NEW d \in Lists, NEW o, NEW t \in Nat
  PROVE  LET r == GetMetaData(d, o, t) IN
         Swept(d, r.db, t) /\ r.at \in Events \cup {NoEvent}
<1>. DEFINE c == o.channel
            r == GetMetaData(d, o, t)
            sought == IF o.shape = "channel" THEN Events
                      ELSE {q \in Events : Programme[q].id = o.id}
            found == Sweep(d.programs[c], 1, t, sought)
<1>1. CASE ~ischannel(d, c) \/ o.shape \notin {"channel", "event"}
  <2>1. r = [db |-> d, at |-> NoEvent]
    BY <1>1 DEF GetMetaData
  <2>. QED  BY <2>1, SweptSame
<1>2. CASE ischannel(d, c) /\ o.shape \in {"channel", "event"}
  <2>1. r = [db |-> [d EXCEPT !.programs[c] = found.list], at |-> found.at]
    BY <1>2 DEF GetMetaData, EpgDataNow, EpgData
  <2>2. c \in Channels /\ d.programs[c] \in Seq(Events)
    BY <1>2, Listed
  <2>3. Left(d.programs[c], found.list, t) /\ Finds(d.programs[c], 1, t, sought, found.at)
    <3>. HIDE DEF sought
    <3>. QED  BY <2>2, SweepFacts
  <2>. HIDE DEF r, found, sought
  <2>4. Swept(d, [d EXCEPT !.programs[c] = found.list], t)
    BY <2>2, <2>3, OneSwept
  <2>5. found.at \in Events \cup {NoEvent}
    BY <2>3 DEF Finds
  <2>. QED  BY <2>1, <2>4, <2>5 DEF r
<1>. QED  BY <1>1, <1>2

-----------------------------------------------------------------------------
(* The lists stay in order, whatever is under way.                         *)

ListsType ==
  /\ db \in Lists /\ now \in 0..MaxTime /\ stopped \in BOOLEAN
  /\ dumped \subseteq Channels /\ reported \subseteq Events

Sorted(d) ==
  /\ ChannelsInOrder(d.channels)
  /\ \A c \in Channels : StartsInOrder(d.programs[c]) /\ OwnChannel(d.programs[c], c)

Guided ==
  /\ ListsType /\ Sorted(db)
  /\ \A c \in Channels : ischannel(db, c) => c \in dumped

Empty == [channels |-> <<>>, programs |-> [c \in Channels |-> <<>>]]

LEMMA EmptySorted == Empty \in Lists /\ Sorted(Empty) /\ \A c : ~ischannel(Empty, c)
<1>1. Empty.channels = <<>> /\ \A c \in Channels : Empty.programs[c] = <<>>
  BY DEF Empty
<1>2. Empty \in Lists
  BY DEF Empty, Lists
<1>3. Sorted(Empty)
  BY <1>1 DEF Sorted, ChannelsInOrder, StartsInOrder, OwnChannel
<1>4. \A c : ~ischannel(Empty, c)
  BY <1>1 DEF ischannel
<1>. QED  BY <1>2, <1>3, <1>4

(* Every call of a Browse sweeps at most.                                  *)
LEMMA BrowseSweeps ==
  ASSUME ListsType, BrowseStep
  PROVE  Swept(db, db', now) /\ UNCHANGED <<now, dumped, reported, stopped>>
<1>0. db \in Lists /\ now \in Nat
  BY ContentDirectoryAssumption DEF ListsType
<1>1. Swept(db, db, now)
  BY <1>0, SweptSame
<1>2. ASSUME OpenDir
      PROVE  Swept(db, db', now)
  <2>. DEFINE r == PCGetDirFirstFile(db, b.dir, TRUE, now)
  <2>1. db' = r.db
    BY <1>2 DEF OpenDir
  <2>. HIDE DEF r
  <2>. QED  BY <1>0, <2>1, FirstFileFacts DEF r
<1>3. ASSUME NextEntry
      PROVE  Swept(db, db', now)
  <2>. DEFINE r == PCGetDirNextFile(db, b.dir, b.walk, now)
  <2>1. db' = r.db \/ db' = db
    BY <1>3 DEF NextEntry
  <2>. HIDE DEF r
  <2>2. Swept(db, r.db, now)
    BY <1>0, NextFileFacts DEF r
  <2>. QED  BY <1>1, <2>1, <2>2
<1>4. ASSUME CountFirst
      PROVE  Swept(db, db', now)
  <2>. DEFINE r == PCGetDirFirstFile(db, b.entry, b.entry = Root, now)
  <2>1. db' = r.db
    BY <1>4 DEF CountFirst
  <2>2. (b.entry = Root) \in BOOLEAN
    OBVIOUS
  <2>. HIDE DEF r
  <2>. QED  BY <1>0, <2>1, <2>2, FirstFileFacts DEF r
<1>5. ASSUME CountNext
      PROVE  Swept(db, db', now)
  <2>. DEFINE r == PCGetDirNextFile(db, b.entry, b.inner, now)
  <2>1. db' = r.db \/ db' = db
    BY <1>5 DEF CountNext
  <2>. HIDE DEF r
  <2>2. Swept(db, r.db, now)
    BY <1>0, NextFileFacts DEF r
  <2>. QED  BY <1>1, <2>1, <2>2
<1>6. ASSUME Describe
      PROVE  Swept(db, db', now)
  <2>. DEFINE r == GetMetaData(db, b.entry, now)
  <2>1. db' = r.db \/ db' = db
    BY <1>6 DEF Describe
  <2>. HIDE DEF r
  <2>2. Swept(db, r.db, now)
    BY <1>0, MetaDataFacts DEF r
  <2>. QED  BY <1>1, <2>1, <2>2
<1>7. Entry \/ Skipped \/ Answer => Swept(db, db', now)
  BY <1>1 DEF Entry, Skipped, Answer, lists
<1>8. UNCHANGED <<now, dumped, reported, stopped>>
  BY DEF BrowseStep, OpenDir, Entry, NextEntry, Skipped, CountFirst, CountNext, Describe,
         Answer, lists
<1>. QED  BY <1>2, <1>3, <1>4, <1>5, <1>6, <1>7, <1>8 DEF BrowseStep

LEMMA SweptSorted ==
  ASSUME NEW d \in Lists, NEW e, NEW t, Swept(d, e, t), Sorted(d)
  PROVE  /\ e \in Lists /\ Sorted(e)
         /\ \A c : ischannel(e, c) <=> ischannel(d, c)
<1>1. e \in Lists /\ e.channels = d.channels
  BY DEF Swept
<1>2. ASSUME NEW c \in Channels
      PROVE  StartsInOrder(e.programs[c]) /\ OwnChannel(e.programs[c], c)
  <2>1. /\ d.programs[c] \in Seq(Events) /\ Left(d.programs[c], e.programs[c], t)
        /\ StartsInOrder(d.programs[c]) /\ OwnChannel(d.programs[c], c)
    BY DEF Swept, Sorted, Lists
  <2>. QED  BY <2>1, LeftFacts
<1>. QED  BY <1>1, <1>2 DEF Sorted, ischannel

(* The steps of the tuner thread.                                          *)
LEMMA Dumped ==
  ASSUME Guided, NEW c \in Channels, chandump(c)
  PROVE  /\ db' \in Lists /\ Sorted(db') /\ db'.programs = db.programs
         /\ \A a : ischannel(db', a) <=> ischannel(db, a) \/ a = c
         /\ \A a, e : Before(db.channels, a, e) => Before(db'.channels, a, e)
<1>. DEFINE new == insert_sorted(db.channels, c)
<1>1. /\ db \in Lists /\ db.channels \in Seq(Channels) /\ db.programs \in [Channels -> Seq(Events)]
      /\ Sorted(db) /\ ChannelsInOrder(db.channels)
      /\ \A a \in Channels : ischannel(db, a) => a \in dumped
  BY DEF Guided, ListsType, Sorted, Lists
<1>2. db' = [db EXCEPT !.channels = new] /\ c \notin dumped
  BY DEF chandump
<1>3. ~Holds(db.channels, c)
  BY <1>1, <1>2, Listed
<1>4. /\ new \in Seq(Channels) /\ ChannelsInOrder(new)
      /\ \A a : Holds(new, a) <=> Holds(db.channels, a) \/ a = c
      /\ \A a, e : Before(db.channels, a, e) => Before(new, a, e)
  BY <1>1, <1>3, InsertSortedFacts
<1>. HIDE DEF new
<1>5. db' \in Lists /\ db'.channels = new /\ db'.programs = db.programs
  <2>1. \A q \in Seq(Channels) :
          /\ [db EXCEPT !.channels = q] \in Lists
          /\ [db EXCEPT !.channels = q].channels = q
          /\ [db EXCEPT !.channels = q].programs = db.programs
    BY <1>1 DEF Lists
  <2>. QED  BY <1>2, <1>4, <2>1
<1>6. Sorted(db')
  BY <1>1, <1>4, <1>5 DEF Sorted
<1>7. \A a : ischannel(db', a) <=> ischannel(db, a) \/ a = c
  BY <1>4, <1>5 DEF ischannel, Holds
<1>. QED  BY <1>4, <1>5, <1>6, <1>7

LEMMA Reported ==
  ASSUME Guided, NEW e \in Events, epg_event(e)
  PROVE  /\ db' \in Lists /\ Sorted(db') /\ db'.channels = db.channels
         /\ \A c \in Channels : \A q : Holds(db.programs[c], q) =>
              \/ Holds(db'.programs[c], q) \/ Over(q, now)
              \/ /\ Programme[q].start = Programme[e].start /\ Programme[e].channel = c
                 /\ Holds(db'.programs[c], e)
<1>. DEFINE c == Programme[e].channel
            new == insert_sorted_epg(db.programs[c], e, now)
<1>1. /\ db \in Lists /\ db.programs \in [Channels -> Seq(Events)]
      /\ Sorted(db) /\ c \in Channels /\ db.programs[c] \in Seq(Events)
      /\ StartsInOrder(db.programs[c]) /\ OwnChannel(db.programs[c], c)
  BY Starts DEF Guided, ListsType, Sorted, Lists
<1>2. db' = IF ischannel(db, c) THEN [db EXCEPT !.programs[c] = new] ELSE db
  BY DEF epg_event
<1>3. CASE ~ischannel(db, c)
  <2>1. db' = db
    BY <1>2, <1>3
  <2>. QED  BY <1>1, <2>1
<1>4. CASE ischannel(db, c)
  <2>1. /\ new \in Seq(Events) /\ StartsInOrder(new) /\ Holds(new, e) /\ OwnChannel(new, c)
        /\ \A q : Holds(db.programs[c], q) /\ ~Over(q, now)
                    /\ Programme[q].start # Programme[e].start => Holds(new, q)
    <3>1. /\ new \in Seq(Events) /\ StartsInOrder(new) /\ Holds(new, e)
          /\ \A a : OwnChannel(db.programs[c], a) /\ Programme[e].channel = a => OwnChannel(new, a)
          /\ \A q : Holds(db.programs[c], q) /\ ~Over(q, now)
                      /\ Programme[q].start # Programme[e].start => Holds(new, q)
      BY <1>1, InsertSortedEpgFacts
    <3>. HIDE DEF new
    <3>. QED  BY <1>1, <3>1
  <2>. HIDE DEF new
  <2>2. /\ db' \in Lists /\ db'.channels = db.channels
        /\ db'.programs = [db.programs EXCEPT ![c] = new]
    <3>1. \A p \in [Channels -> Seq(Events)] :
            /\ [db EXCEPT !.programs = p] \in Lists
            /\ [db EXCEPT !.programs = p].programs = p
            /\ [db EXCEPT !.programs = p].channels = db.channels
      BY <1>1 DEF Lists
    <3>2. [db.programs EXCEPT ![c] = new] \in [Channels -> Seq(Events)]
      BY <1>1, <2>1
    <3>3. db' = [db EXCEPT !.programs = [db.programs EXCEPT ![c] = new]]
      BY <1>2, <1>4
    <3>. QED  BY <3>1, <3>2, <3>3
  <2>. HIDE DEF c
  <2>3. /\ db'.programs[c] = new
        /\ \A a \in Channels : a # c => db'.programs[a] = db.programs[a]
    BY <1>1, <2>2
  <2>4. Sorted(db')
    BY <1>1, <2>1, <2>2, <2>3 DEF Sorted
  <2>5. ASSUME NEW a \in Channels, NEW q, Holds(db.programs[a], q), ~Holds(db'.programs[a], q),
               ~Over(q, now)
        PROVE  /\ Programme[q].start = Programme[e].start /\ c = a
               /\ Holds(db'.programs[a], e)
    BY <2>1, <2>3, <2>5
  <2>. QED  BY <2>2, <2>4, <2>5 DEF c
<1>. QED  BY <1>3, <1>4

LEMMA GuidedStart == Init => Guided
<1>1. Init => db = Empty /\ now = 0 /\ dumped = {} /\ reported = {} /\ stopped = FALSE
  BY DEF Init, Empty
<1>2. 0 \in 0..MaxTime
  BY ContentDirectoryAssumption
<1>. QED  BY <1>1, <1>2, EmptySorted DEF Guided, ListsType

LEMMA GuidedStep ==
  ASSUME Guided, [Next]_vars
  PROVE  Guided'
<1>0. /\ db \in Lists /\ now \in 0..MaxTime /\ stopped \in BOOLEAN /\ Sorted(db)
      /\ dumped \subseteq Channels /\ reported \subseteq Events
      /\ \A c \in Channels : ischannel(db, c) => c \in dumped
  BY DEF Guided, ListsType
<1>1. ASSUME NEW c \in Channels, chandump(c)
      PROVE  Guided'
  <2>1. /\ db' \in Lists /\ Sorted(db')
        /\ \A a : ischannel(db', a) <=> ischannel(db, a) \/ a = c
    BY <1>1, Dumped
  <2>2. dumped' = dumped \cup {c} /\ now' = now /\ reported' = reported /\ stopped' = stopped
    BY <1>1 DEF chandump
  <2>. QED  BY <1>0, <2>1, <2>2 DEF Guided, ListsType, ischannel, Sorted
<1>2. ASSUME NEW e \in Events, epg_event(e)
      PROVE  Guided'
  <2>1. db' \in Lists /\ Sorted(db') /\ db'.channels = db.channels
    BY <1>2, Reported
  <2>2. dumped' = dumped /\ now' = now /\ reported' = reported \cup {e} /\ stopped' = stopped
    BY <1>2 DEF epg_event
  <2>3. \A c : ischannel(db', c) <=> ischannel(db, c)
    BY <2>1 DEF ischannel
  <2>. QED  BY <1>0, <2>1, <2>2, <2>3 DEF Guided, ListsType, ischannel, Sorted
<1>3. CASE Tick
  <2>1. now' \in 0..MaxTime
    BY <1>0, <1>3, ContentDirectoryAssumption DEF Tick
  <2>. QED  BY <1>0, <1>3, <2>1 DEF Tick, lists, Guided, ListsType, ischannel, Sorted
<1>4. CASE destroy_lists
  <2>1. db' = Empty /\ dumped' = dumped /\ now' = now /\ reported' = reported /\ stopped' = TRUE
    BY <1>4 DEF destroy_lists, Empty
  <2>2. db' \in Lists /\ Sorted(db') /\ \A c : ~ischannel(db', c)
    BY <2>1, EmptySorted
  <2>. QED  BY <1>0, <2>1, <2>2 DEF Guided, ListsType, ischannel, Sorted
<1>5. CASE UNCHANGED <<lists, now>>
  BY <1>0, <1>5 DEF lists, Guided, ListsType, ischannel, Sorted
<1>6. CASE BrowseStep
  <2>1. Swept(db, db', now) /\ UNCHANGED <<now, dumped, reported, stopped>>
    BY <1>0, <1>6, BrowseSweeps DEF ListsType
  <2>2. db' \in Lists /\ Sorted(db') /\ \A c : ischannel(db', c) <=> ischannel(db, c)
    BY <1>0, <2>1, SweptSorted
  <2>. QED  BY <1>0, <2>1, <2>2 DEF Guided, ListsType, ischannel, Sorted
<1>7. ASSUME NEW o \in Requested, NEW meta \in BOOLEAN, NEW w \in Windows,
             CdsBrowse(cpId(o), meta, w)
      PROVE  UNCHANGED <<lists, now>>
  BY <1>7 DEF CdsBrowse
<1>. QED  BY <1>1, <1>2, <1>3, <1>4, <1>5, <1>6, <1>7 DEF Next, vars, lists

LEMMA AlwaysGuided == Spec => []Guided
BY GuidedStart, GuidedStep, PTL DEF Spec

(* The channels are in the order of their numbers and each channel's       *)
(* programmes start one after the other, whatever the tuner inserts while  *)
(* walks erase (insert_sorted, insert_sorted_epg, the walks of the guide). *)
THEOREM ListsStayInOrder == Spec => []ListsInOrder
<1>1. Guided => ListsInOrder
  BY DEF Guided, Sorted, ListsInOrder, ChannelsInOrder, StartsInOrder
<1>. QED  BY <1>1, AlwaysGuided, PTL

(* No call of a Browse and no insertion loses a programme that is on or to *)
(* come: a programme leaves its list when it is over, for one with the     *)
(* same start, or at the shutdown (erase in dvbteeserver.cpp).             *)
THEOREM NothingLostEarly == Spec => EndedOnlyErased
<1>. DEFINE Keeps ==
       \A c \in Channels : \A i \in DOMAIN db.programs[c] :
         LET e == db.programs[c][i] IN
         \/ \E j \in DOMAIN db'.programs[c] : Programme[db'.programs[c][j]].start
                                                = Programme[e].start
         \/ Over(e, now) \/ stopped'
<1>1. ASSUME Guided, [Next]_vars
      PROVE  [Keeps]_vars
  <2>. SUFFICES ASSUME NEW c \in Channels, NEW i \in DOMAIN db.programs[c], ~UNCHANGED vars,
                       ~Over(db.programs[c][i], now), ~stopped'
                PROVE  \E j \in DOMAIN db'.programs[c] :
                         Programme[db'.programs[c][j]].start = Programme[db.programs[c][i]].start
    OBVIOUS
  <2>. DEFINE e == db.programs[c][i]
  <2>0. /\ db \in Lists /\ Sorted(db) /\ ListsType /\ db.programs[c] \in Seq(Events)
        /\ Holds(db.programs[c], e)
    BY <1>1 DEF Guided, ListsType, Lists, Holds
  <2>h. Holds(db'.programs[c], e) =>
          \E j \in DOMAIN db'.programs[c] : Programme[db'.programs[c][j]].start = Programme[e].start
    BY DEF Holds
  <2>1. ASSUME NEW a \in Channels, chandump(a)
        PROVE  db'.programs = db.programs
    BY <1>1, <2>1, Dumped
  <2>2. ASSUME NEW p \in Events, epg_event(p)
        PROVE  \E j \in DOMAIN db'.programs[c] :
                 Programme[db'.programs[c][j]].start = Programme[e].start
    <3>1. \/ Holds(db'.programs[c], e)
          \/ Programme[e].start = Programme[p].start /\ Holds(db'.programs[c], p)
      BY <1>1, <2>0, <2>2, Reported
    <3>. QED  BY <3>1, <2>h DEF Holds
  <2>3. Tick \/ UNCHANGED <<lists, now>> => db' = db
    BY DEF Tick, lists
  <2>4. ~destroy_lists
    BY DEF destroy_lists
  <2>5. ASSUME BrowseStep
        PROVE  Holds(db'.programs[c], e)
    <3>1. Left(db.programs[c], db'.programs[c], now)
      BY <2>0, <2>5, BrowseSweeps DEF Swept
    <3>. QED  BY <2>0, <3>1, LeftFacts
  <2>7. ASSUME NEW o \in Requested, NEW meta \in BOOLEAN, NEW w \in Windows,
               CdsBrowse(cpId(o), meta, w)
        PROVE  UNCHANGED <<lists, now>>
    BY <2>7 DEF CdsBrowse
  <2>8. db'.programs = db.programs => Holds(db'.programs[c], e)
    BY <2>0
  <2>. QED  BY <1>1, <2>h, <2>1, <2>2, <2>3, <2>4, <2>5, <2>7, <2>8 DEF Next
<1>. QED  BY <1>1, AlwaysGuided, PTL DEF EndedOnlyErased, Spec

-----------------------------------------------------------------------------
(* The Browse in its types.                                                *)

WalkType == [entry : Entries, next : Channels \cup {End} \cup Nat]

Answers ==
  {[id |-> cpId(o), parent |-> parentID(o), children |-> n, airing |-> e] :
     o \in Entries, n \in Nat, e \in Nat}

Phases == {"idle", "open", "entry", "next", "didl", "count", "answer", "undefined"}

BrowseType ==
  [pc : Phases, dir : Entries, meta : BOOLEAN, si : Nat, rc : Nat, nr : Nat, tm : Nat,
   entry : Entries, walk : WalkType, inner : WalkType, count : Nat, shown : Seq(Answers)]

(* An ID leads back to its object.                                         *)
Canonical(o) == o \in Entries /\ PathObject(Path(o)) = o

(* The walk of the requested directory, and of an entry that is counted,   *)
(* is under way.                                                           *)
Walking(r) == r.pc \in {"entry", "next"} \/ (r.pc \in {"didl", "count"} /\ ~r.meta)
Counting(r) == r.pc = "count"

(* What a walk is at, whatever has become of the lists since.              *)
Stood(dir, w) ==
  \/ dir.shape = "root" /\ \E k \in 1..Len(rootDirs) : w = RootWalk(k)
  \/ /\ dir.shape \in {"Channels", "EPG"} /\ w.next \in Channels \cup {End}
     /\ \E c \in Channels :
          w.entry = Object(IF dir.shape = "EPG" THEN "guide" ELSE "channel", c, 0, 0)
  \/ /\ dir.shape \in {"guide", "day"} /\ w.next \in Events
     /\ Programme[w.next].channel = dir.channel
     /\ w.entry = IF dir.shape = "guide" THEN DayEntry(dir.channel, w.next)
                  ELSE EventEntry(dir, w.next)

Browsing ==
  /\ b \in BrowseType /\ quiet \in BOOLEAN
  /\ b.nr = Len(b.shown) /\ b.nr <= b.tm
  /\ Canonical(b.dir) /\ Canonical(b.entry)
  /\ Walking(b) => Stood(b.dir, b.walk)
  /\ Walking(b) /\ b.pc \in {"didl", "count"} => b.entry = b.walk.entry
  /\ Counting(b) => Stood(b.entry, b.inner)

LEMMA Days ==
  ASSUME NEW e \in Events
  PROVE  DayOf(e) \in Nat
<1>1. Programme[e].start \in Nat /\ DayLength \in Nat \ {0}
  BY Starts, GuideAssumption
<1>2. \A x \in Nat : \A y \in Nat \ {0} : x \div y \in Nat
  OBVIOUS
<1>. QED  BY <1>1, <1>2 DEF DayOf

LEMMA CanonicalEntries ==
  /\ Canonical(Root) /\ Root.shape = "root"
  /\ \A k \in 1..3 : Canonical(Top(rootDirs[k]))
  /\ \A c \in Channels : Canonical(ChannelItem(c)) /\ Canonical(GuideOf(c))
  /\ \A c \in Channels \cup {End}, d \in Nat : Canonical(DayOfGuide(c, d))
  /\ \A c \in Channels \cup {End}, d \in Nat, i \in Nat : Canonical(Airing(c, d, i))
<1>. USE DEF Canonical, Entries, Shapes, Object, Top, Root
<1>1. Canonical(Root) /\ Root.shape = "root"
  <2>1. Path(Root) = <<>>
    BY DEF Path
  <2>2. PathObject(<<>>) = Root
    BY DEF PathObject
  <2>. QED  BY <2>1, <2>2
<1>2. ASSUME NEW n \in {"Channels", "EPG", "VOD"}
      PROVE  Canonical(Top(n))
  <2>1. Path(Top(n)) = <<n>>
    BY DEF Path
  <2>2. PathObject(<<n>>) = Top(n)
    BY DEF PathObject
  <2>. QED  BY <2>1, <2>2
<1>3. \A k \in 1..3 : rootDirs[k] \in {"Channels", "EPG", "VOD"}
  BY DEF rootDirs
<1>4. ASSUME NEW c \in Channels
      PROVE  Canonical(ChannelItem(c)) /\ Canonical(GuideOf(c))
  <2>1. Path(ChannelItem(c)) = <<"Channels", c>> /\ Path(GuideOf(c)) = <<"EPG", c>>
    BY DEF Path, ChannelItem, GuideOf
  <2>2. /\ PathObject(<<"Channels", c>>) = ChannelItem(c)
        /\ PathObject(<<"EPG", c>>) = GuideOf(c)
    BY DEF PathObject
  <2>. QED  BY <2>1, <2>2 DEF ChannelItem, GuideOf
<1>5. ASSUME NEW c \in Channels \cup {End}, NEW d \in Nat
      PROVE  Canonical(DayOfGuide(c, d))
  <2>1. Path(DayOfGuide(c, d)) = <<"EPG", c, d>>
    BY DEF Path, DayOfGuide
  <2>2. PathObject(<<"EPG", c, d>>) = DayOfGuide(c, d)
    BY DEF PathObject
  <2>. QED  BY <2>1, <2>2 DEF DayOfGuide
<1>6. ASSUME NEW c \in Channels \cup {End}, NEW d \in Nat, NEW i \in Nat
      PROVE  Canonical(Airing(c, d, i))
  <2>1. Path(Airing(c, d, i)) = <<"EPG", c, d, i>>
    BY DEF Path, Airing
  <2>2. PathObject(<<"EPG", c, d, i>>) = Airing(c, d, i)
    BY DEF PathObject
  <2>. QED  BY <2>1, <2>2 DEF Airing
<1>. QED  BY <1>1, <1>2, <1>3, <1>4, <1>5, <1>6

(* An ID is the path of its object.                                        *)
LEMMA FrontAndLast ==
  ASSUME NEW S, NEW s \in Seq(S), s # <<>>
  PROVE  Front(s) \o <<Last(s)>> = s /\ Front(s) \in Seq(S) /\ Last(s) \in S
<1>. DEFINE n == Len(s)
            p == SubSeq(s, 1, n - 1)
            q == <<s[n]>>
<1>1. n \in Nat \ {0} /\ \A i \in 1..n : s[i] \in S
  BY ElementOfSeq
<1>2. p \in Seq(S) /\ Len(p) = n - 1 /\ \A i \in 1..(n - 1) : p[i] = s[i]
  <2>1. 1 \in 1..(n + 1) /\ n - 1 \in 0..n /\ \A i \in 1..(n - 1) : s[i] \in S
    BY <1>1
  <2>. HIDE DEF n
  <2>2. /\ p \in Seq(S)
        /\ Len(p) = IF 1 <= n - 1 THEN (n - 1) - 1 + 1 ELSE 0
        /\ \A i \in 1..((n - 1) - 1 + 1) : p[i] = s[1 + i - 1]
    BY <2>1, SubSeqProperties
  <2>3. /\ (n - 1) - 1 + 1 = n - 1 /\ (~(1 <= n - 1) => n - 1 = 0)
        /\ \A i \in 1..(n - 1) : 1 + i - 1 = i
    BY <1>1
  <2>. QED  BY <2>2, <2>3
<1>3. q \in Seq(S) /\ Len(q) = 1 /\ q[1] = s[n] /\ s[n] \in S
  BY <1>1
<1>. HIDE DEF p, q, n
<1>4. /\ p \o q \in Seq(S) /\ Len(p \o q) = Len(p) + Len(q)
      /\ \A i \in 1..(Len(p) + Len(q)) :
           (p \o q)[i] = IF i <= Len(p) THEN p[i] ELSE q[i - Len(p)]
  BY <1>2, <1>3, ConcatProperties, Zenon
<1>5. Len(p \o q) = n /\ \A i \in 1..n : (p \o q)[i] = s[i]
  <2>1. (n - 1) + 1 = n
    BY <1>1
  <2>2. ASSUME NEW i \in 1..n
        PROVE  (p \o q)[i] = s[i]
    <3>1. (i \in 1..(n - 1) /\ i <= n - 1) \/ (i = n /\ ~(i <= n - 1) /\ i - (n - 1) = 1)
      BY <1>1
    <3>. QED  BY <1>2, <1>3, <1>4, <2>1, <3>1
  <2>. QED  BY <1>2, <1>3, <1>4, <2>1, <2>2
<1>6. p \o q = s
  BY <1>4, <1>5, SeqEqual DEF n
<1>. QED  BY <1>2, <1>3, <1>6 DEF p, q, n, Front, Last

(* Below the root an ID carries the path of the directory.                 *)
LEMMA TailAfter ==
  ASSUME NEW S, NEW q \in Seq(S)
  PROVE  Tail(<<0>> \o q) = q
<1>. DEFINE R == S \cup {0}
            z == <<0>>
            t == z \o q
<1>0. z \in Seq(R) /\ Len(z) = 1 /\ q \in Seq(R) /\ Len(q) \in Nat
  BY SeqMonotonic
<1>. HIDE DEF z
<1>1. /\ t \in Seq(R) /\ Len(t) = 1 + Len(q)
      /\ \A i \in 1..(1 + Len(q)) : t[i] = IF i <= 1 THEN z[i] ELSE q[i - 1]
  <2>1. /\ z \o q \in Seq(R) /\ Len(z \o q) = Len(z) + Len(q)
        /\ \A i \in 1..(Len(z) + Len(q)) :
             (z \o q)[i] = IF i <= Len(z) THEN z[i] ELSE q[i - Len(z)]
    <3>. HIDE DEF R
    <3>. QED  BY <1>0, ConcatProperties, Zenon
  <2>. QED  BY <1>0, <2>1
<1>. HIDE DEF t, R
<1>2. t # <<>>
  BY <1>0, <1>1
<1>3. /\ Tail(t) \in Seq(R) /\ Len(Tail(t)) = Len(t) - 1
      /\ \A i \in 1..Len(Tail(t)) : Tail(t)[i] = t[i + 1]
  BY <1>1, <1>2, HeadTailProperties, Zenon
<1>4. Len(Tail(t)) = Len(q)
  BY <1>0, <1>1, <1>3
<1>5. \A i \in 1..Len(q) : Tail(t)[i] = q[i]
  <2>1. \A i \in 1..Len(q) : i + 1 \in 1..(1 + Len(q)) /\ ~(i + 1 <= 1) /\ (i + 1) - 1 = i
    BY <1>0
  <2>. QED  BY <1>1, <1>3, <1>4, <2>1
<1>6. Tail(t) = q
  BY <1>0, <1>3, <1>4, <1>5, SeqEqual
<1>. QED  BY <1>6 DEF t, z

LEMMA PathOfID ==
  ASSUME NEW o, Canonical(o)
  PROVE  filepath(cpId(o)) = Path(o)
<1>. DEFINE S == {0, "Channels", "EPG", o.shape, o.channel, o.day, o.id}
            s == Path(o)
<1>1. s \in Seq(S)
  <2>1. \/ s = <<>> \/ s = <<"Channels", o.channel>> \/ s = <<"EPG", o.channel>>
        \/ s = <<"EPG", o.channel, o.day>> \/ s = <<"EPG", o.channel, o.day, o.id>>
        \/ s = <<o.shape>>
    BY DEF Path
  <2>2. {"Channels", "EPG", o.shape, o.channel, o.day, o.id} \subseteq S
    OBVIOUS
  <2>. HIDE DEF s, S
  <2>3. /\ <<>> \in Seq(S) /\ <<"Channels", o.channel>> \in Seq(S) /\ <<o.shape>> \in Seq(S)
        /\ <<"EPG", o.channel>> \in Seq(S) /\ <<"EPG", o.channel, o.day>> \in Seq(S)
        /\ <<"EPG", o.channel, o.day, o.id>> \in Seq(S)
    BY <2>2
  <2>. QED  BY <2>1, <2>3
<1>. HIDE DEF s, S
<1>2. \A q \in Seq(S) : Tail(<<0>> \o q) = q
  BY TailAfter
<1>3. CASE o = Root
  <2>1. s = <<>> /\ cpId(o) = <<0>>
    BY <1>3 DEF s, Path, Root, Top, Object, cpId
  <2>. QED  BY <2>1 DEF filepath, s
<1>4. CASE o # Root
  <2>1. s # <<>>
    <3>1. PathObject(<<>>) = Root
      BY DEF PathObject
    <3>. QED  BY <1>4, <3>1 DEF Canonical, s
  <2>2. Front(s) \o <<Last(s)>> = s /\ Front(s) \in Seq(S) /\ Last(s) \in S
    BY <1>1, <2>1, FrontAndLast, Zenon
  <2>3. cpId(o) = (<<0>> \o Front(s)) \o <<Last(s)>>
    BY <1>4 DEF cpId, parentID, s
  <2>4. (<<0>> \o Front(s)) \o <<Last(s)>> = <<0>> \o (Front(s) \o <<Last(s)>>)
    <3>1. <<0>> \in Seq(S) /\ <<Last(s)>> \in Seq(S)
      BY <2>2 DEF S
    <3>. QED  BY <2>2, <3>1, ConcatAssociative
  <2>5. cpId(o) = <<0>> \o s
    BY <2>2, <2>3, <2>4
  <2>. QED  BY <1>1, <1>2, <2>5 DEF filepath, s
<1>. QED  BY <1>3, <1>4

LEMMA DistinctIDs ==
  ASSUME NEW o, NEW p, Canonical(o), Canonical(p), cpId(o) = cpId(p)
  PROVE  o = p
BY PathOfID DEF Canonical

LEMMA StoodFacts ==
  ASSUME NEW dir, Canonical(dir), NEW w, Stood(dir, w),
         w.next \in Channels \cup {End} \cup Nat, w = [entry |-> w.entry, next |-> w.next]
  PROVE  w \in WalkType /\ Canonical(w.entry)
<1>0. /\ dir.channel \in Channels \cup {End} /\ dir.day \in Nat
  BY DEF Canonical, Entries
<1>1. Canonical(w.entry)
  <2>1. CASE dir.shape = "root" /\ \E k \in 1..Len(rootDirs) : w = RootWalk(k)
    <3>1. PICK k \in 1..3 : w = RootWalk(k)
      BY <2>1 DEF rootDirs
    <3>2. w.entry = Top(rootDirs[k])
      BY <3>1 DEF RootWalk, rootDirs
    <3>. QED  BY <3>2, CanonicalEntries
  <2>2. CASE \E c \in Channels :
               w.entry = Object(IF dir.shape = "EPG" THEN "guide" ELSE "channel", c, 0, 0)
    BY <2>2, CanonicalEntries DEF ChannelItem, GuideOf
  <2>3. CASE /\ w.next \in Events
             /\ w.entry = IF dir.shape = "guide" THEN DayEntry(dir.channel, w.next)
                          ELSE EventEntry(dir, w.next)
    <3>1. DayOf(w.next) \in Nat /\ Programme[w.next].id \in Nat
      BY <2>3, Days, Starts
    <3>. QED  BY <1>0, <2>3, <3>1, CanonicalEntries DEF DayEntry, EventEntry
  <2>. QED  BY <2>1, <2>2, <2>3 DEF Stood
<1>. QED  BY <1>1 DEF WalkType, Canonical

LEMMA RootWalkFacts ==
  ASSUME NEW k \in 1..3
  PROVE  /\ RootWalk(k) = [entry |-> Top(rootDirs[k]), next |-> k + 1]
         /\ RootWalk(k).next = k + 1 /\ RootWalk(k).entry = Top(rootDirs[k])
         /\ k + 1 \in 1..3 \/ RootWalk(k + 1) = NoWalk
<1>1. Len(rootDirs) = 3
  BY DEF rootDirs
<1>. QED  BY <1>1 DEF RootWalk

(* A walk that stands at an entry.                                         *)
LEMMA StandsFacts ==
  ASSUME NEW d \in Lists, Sorted(d), NEW dir, Canonical(dir), NEW t, NEW w, Stands(d, dir, t, w)
  PROVE  Stood(dir, w) /\ w \in WalkType /\ Canonical(w.entry)
<1>1. CASE dir.shape = "root" /\ \E k \in 1..Len(rootDirs) : w = RootWalk(k)
  <2>1. Stood(dir, w)
    BY <1>1 DEF Stood
  <2>2. PICK k \in 1..3 : w = RootWalk(k)
    BY <1>1 DEF rootDirs
  <2>3. w.next \in Nat /\ w = [entry |-> w.entry, next |-> w.next]
    BY <2>2, RootWalkFacts
  <2>. QED  BY <2>1, <2>3, StoodFacts
<1>2. CASE /\ dir.shape \in {"Channels", "EPG"}
           /\ \E k \in DOMAIN d.channels :
                w = ChannelWalk(d.channels, k, IF dir.shape = "EPG" THEN "guide" ELSE "channel")
  <2>. DEFINE shape == IF dir.shape = "EPG" THEN "guide" ELSE "channel"
  <2>1. PICK k \in DOMAIN d.channels : w = ChannelWalk(d.channels, k, shape)
    BY <1>2
  <2>2. /\ Len(d.channels) \in Nat /\ DOMAIN d.channels = 1..Len(d.channels)
        /\ \A i \in 1..Len(d.channels) : d.channels[i] \in Channels
    BY ElementOfSeq DEF Lists
  <2>. HIDE DEF shape
  <2>3. w = [entry |-> Object(shape, d.channels[k], 0, 0),
             next |-> IF k = Len(d.channels) THEN End ELSE d.channels[k + 1]]
    BY <2>1, <2>2 DEF ChannelWalk
  <2>4. d.channels[k] \in Channels /\ (k # Len(d.channels) => d.channels[k + 1] \in Channels)
    BY <2>2
  <2>5. /\ w.next \in Channels \cup {End} /\ w = [entry |-> w.entry, next |-> w.next]
        /\ w.entry = Object(shape, d.channels[k], 0, 0)
    BY <2>3, <2>4
  <2>6. Stood(dir, w)
    BY <1>2, <2>4, <2>5 DEF Stood, shape
  <2>. QED  BY <2>5, <2>6, StoodFacts
<1>3. CASE /\ dir.shape \in {"guide", "day"} /\ ischannel(d, dir.channel)
           /\ w.next \in Events /\ Holds(d.programs[dir.channel], w.next) /\ ~Over(w.next, t)
           /\ w = [entry |-> IF dir.shape = "guide" THEN DayEntry(dir.channel, w.next)
                             ELSE EventEntry(dir, w.next),
                   next |-> w.next]
  <2>1. dir.channel \in Channels /\ OwnChannel(d.programs[dir.channel], dir.channel)
    BY <1>3, Listed DEF Sorted
  <2>2. Programme[w.next].channel = dir.channel
    BY <1>3, <2>1 DEF OwnChannel, Holds
  <2>. DEFINE en == IF dir.shape = "guide" THEN DayEntry(dir.channel, w.next)
                    ELSE EventEntry(dir, w.next)
              nx == w.next
  <2>3. w.entry = en /\ w = [entry |-> w.entry, next |-> w.next]
    <3>1. w = [entry |-> en, next |-> nx]
      BY <1>3
    <3>. HIDE DEF en
    <3>2. w.entry = en
      BY <3>1
    <3>. QED  BY <3>1, <3>2
  <2>4. Stood(dir, w)
    BY <1>3, <2>2, <2>3 DEF Stood
  <2>5. w.next \in Nat
    BY <1>3, GuideAssumption
  <2>. QED  BY <2>3, <2>4, <2>5, StoodFacts
<1>. QED  BY <1>1, <1>2, <1>3 DEF Stands

(* The next entry of a walk.                                               *)
LEMMA NextStood ==
  ASSUME NEW d \in Lists, Sorted(d), NEW dir, Canonical(dir), NEW t \in Nat, NEW w,
         Stood(dir, w), ~Dangling(d, dir, w)
  PROVE  LET r == PCGetDirNextFile(d, dir, w, t) IN
         r.walk # NoWalk => Stood(dir, r.walk) /\ r.walk \in WalkType /\ Canonical(r.walk.entry)
<1>. DEFINE r == PCGetDirNextFile(d, dir, w, t)
<1>1. r.walk # NoWalk /\ dir.shape # "root" => Stands(d, dir, t, r.walk)
  BY NextFileFacts
<1>2. r.walk # NoWalk /\ dir.shape = "root" => r.walk = RootWalk(w.next)
  BY NextFileFacts
<1>. HIDE DEF r
<1>3. CASE dir.shape = "root"
  <2>1. PICK k \in 1..3 : w = RootWalk(k)
    BY <1>3 DEF Stood, rootDirs
  <2>2. w.next = k + 1 /\ (k + 1 \in 1..3 \/ RootWalk(k + 1) = NoWalk)
    BY <2>1, RootWalkFacts
  <2>3. r.walk # NoWalk => k + 1 \in 1..3 /\ r.walk = RootWalk(k + 1)
    BY <1>2, <1>3, <2>2
  <2>4. r.walk # NoWalk => Stands(d, dir, t, r.walk)
    BY <1>3, <2>3 DEF Stands, rootDirs
  <2>. QED  BY <2>4, StandsFacts DEF r
<1>. QED  BY <1>1, <1>3, StandsFacts DEF r

LEMMA BrowseFields ==
  ASSUME NEW r \in BrowseType
  PROVE  /\ r.pc \in Phases /\ r.dir \in Entries /\ r.meta \in BOOLEAN
         /\ r.si \in Nat /\ r.rc \in Nat /\ r.nr \in Nat /\ r.tm \in Nat /\ r.count \in Nat
         /\ r.entry \in Entries /\ r.walk \in WalkType /\ r.inner \in WalkType
         /\ r.shown \in Seq(Answers)
BY DEF BrowseType

LEMMA IdleType == Idle \in BrowseType /\ Canonical(Root)
<1>1. Canonical(Root)
  BY CanonicalEntries
<1>2. NoWalk \in WalkType
  BY DEF NoWalk, WalkType, Entries, Shapes, Top, Object
<1>. QED  BY <1>1, <1>2 DEF Idle, BrowseType, Phases, Canonical

LEMMA EmitFacts ==
  ASSUME b \in BrowseType, b.nr = Len(b.shown), b.nr <= b.tm, NEW n \in Nat, NEW e \in Nat,
         Emit(n, e)
  PROVE  /\ b' \in BrowseType /\ b'.nr = Len(b'.shown) /\ b'.nr <= b'.tm
         /\ b'.pc = AfterEntry /\ b'.dir = b.dir /\ b'.meta = b.meta /\ b'.entry = b.entry
         /\ b'.walk = b.walk
         /\ b'.shown = Append(b.shown, [id |-> cpId(b.entry), parent |-> parentID(b.entry),
                                        children |-> n, airing |-> e])
<1>. DEFINE x == [id |-> cpId(b.entry), parent |-> parentID(b.entry),
                  children |-> n, airing |-> e]
            p == AfterEntry
            q == Append(b.shown, x)
            n1 == b.nr + 1
            m1 == b.tm + 1
<1>1. b.nr \in Nat /\ b.tm \in Nat /\ b.shown \in Seq(Answers) /\ b.entry \in Entries
  BY BrowseFields
<1>2. x \in Answers
  BY <1>1 DEF Answers
<1>3. NoWalk \in WalkType
  BY DEF NoWalk, WalkType, Entries, Shapes, Top, Object
<1>4. p \in Phases
  BY DEF AfterEntry, Phases
<1>5. b' = [b EXCEPT !.shown = q, !.nr = n1, !.tm = m1,
                     !.inner = NoWalk, !.count = 0, !.pc = p]
  BY DEF Emit
<1>. HIDE DEF x, p
<1>6. n1 \in Nat /\ m1 \in Nat /\ q \in Seq(Answers) /\ Len(q) = Len(b.shown) + 1
  BY <1>1, <1>2
<1>7. n1 = b.nr + 1 /\ m1 = b.tm + 1 /\ q = Append(b.shown, x)
  OBVIOUS
<1>. HIDE DEF n1, m1, q
<1>8. /\ b' \in BrowseType /\ b'.pc = p /\ b'.dir = b.dir /\ b'.meta = b.meta
      /\ b'.nr = n1 /\ b'.tm = m1 /\ b'.entry = b.entry /\ b'.walk = b.walk
      /\ b'.shown = q
  BY <1>3, <1>4, <1>5, <1>6 DEF BrowseType
<1>9. b'.nr = Len(b'.shown) /\ b'.nr <= b'.tm
  BY <1>1, <1>6, <1>7, <1>8
<1>. QED  BY <1>7, <1>8, <1>9 DEF x, p

LEMMA BrowsingStart == Init => Browsing
<1>. SUFFICES ASSUME Init
              PROVE  Browsing
  OBVIOUS
<1>1. b = Idle /\ quiet = FALSE
  BY DEF Init
<1>2. /\ Idle.pc = "idle" /\ Idle.nr = 0 /\ Idle.tm = 0 /\ Idle.shown = <<>>
      /\ Idle.dir = Root /\ Idle.entry = Root
  BY DEF Idle
<1>3. ~Walking(b) /\ ~Counting(b) /\ Len(<<>>) = 0
  BY <1>1, <1>2 DEF Walking, Counting
<1>4. quiet \in BOOLEAN
  BY <1>1
<1>5. /\ b \in BrowseType /\ b.nr = Len(b.shown) /\ b.nr <= b.tm
      /\ Canonical(b.dir) /\ Canonical(b.entry)
  BY <1>1, <1>2, <1>3, IdleType
<1>. QED  BY <1>3, <1>4, <1>5 DEF Browsing

(* The walk of the directory goes on, or has come to its end.              *)
LEMMA WalkedOn ==
  ASSUME Browsing, quiet' = quiet, NEW walk,
         walk # NoWalk => Stood(b.dir, walk) /\ walk \in WalkType,
         b' = [b EXCEPT !.walk = walk, !.pc = IF walk = NoWalk THEN "answer" ELSE "entry"]
  PROVE  Browsing'
<1>. DEFINE p == IF walk = NoWalk THEN "answer" ELSE "entry"
<1>1. NoWalk \in WalkType
  BY DEF NoWalk, WalkType, Entries, Shapes, Top, Object
<1>2. p \in Phases /\ (p = "entry" => walk # NoWalk) /\ p \in {"answer", "entry"}
  BY DEF Phases
<1>3. b' = [b EXCEPT !.walk = walk, !.pc = p] /\ b \in BrowseType
  BY DEF Browsing
<1>. HIDE DEF p
<1>5. walk \in WalkType
  BY <1>1
<1>4. /\ b' \in BrowseType /\ b'.pc = p /\ b'.dir = b.dir /\ b'.meta = b.meta
      /\ b'.nr = b.nr /\ b'.tm = b.tm /\ b'.entry = b.entry /\ b'.walk = walk
      /\ b'.inner = b.inner /\ b'.shown = b.shown
  BY <1>2, <1>3, <1>5 DEF BrowseType
<1>. QED  BY <1>2, <1>4 DEF Browsing, Walking, Counting

(* An entry is done, with or without a place in the answer.                *)
LEMMA EntryDone ==
  ASSUME Browsing, b.pc \in {"didl", "count"}, quiet' = quiet,
         b' \in BrowseType, b'.nr = Len(b'.shown), b'.nr <= b'.tm,
         b'.pc = AfterEntry, b'.dir = b.dir, b'.meta = b.meta, b'.entry = b.entry,
         b'.walk = b.walk
  PROVE  Browsing'
<1>1. b'.pc \in {"answer", "next"} /\ (b'.pc = "next" => ~b.meta)
  BY DEF AfterEntry
<1>2. Walking(b') => Walking(b)
  BY <1>1 DEF Walking
<1>. QED  BY <1>1, <1>2 DEF Browsing, Walking, Counting

LEMMA Emitted ==
  ASSUME Browsing, b.pc \in {"didl", "count"}, quiet' = quiet,
         NEW n \in Nat, NEW e \in Nat, Emit(n, e)
  PROVE  Browsing'
<1>1. b \in BrowseType /\ b.nr = Len(b.shown) /\ b.nr <= b.tm
  BY DEF Browsing
<1>2. /\ b' \in BrowseType /\ b'.nr = Len(b'.shown) /\ b'.nr <= b'.tm
      /\ b'.pc = AfterEntry /\ b'.dir = b.dir /\ b'.meta = b.meta /\ b'.entry = b.entry
      /\ b'.walk = b.walk
  BY <1>1, EmitFacts
<1>. QED  BY <1>2, EntryDone

(* The Browse reads an element that is gone.                               *)
LEMMA Broken ==
  ASSUME Browsing, quiet' = quiet, At("undefined")
  PROVE  Browsing' /\ b'.pc = "undefined"
<1>1. b' = [b EXCEPT !.pc = "undefined"] /\ b \in BrowseType /\ "undefined" \in Phases
  BY DEF At, Browsing, Phases
<1>2. /\ b' \in BrowseType /\ b'.pc = "undefined" /\ b'.dir = b.dir /\ b'.meta = b.meta
      /\ b'.nr = b.nr /\ b'.tm = b.tm /\ b'.entry = b.entry /\ b'.walk = b.walk
      /\ b'.inner = b.inner /\ b'.shown = b.shown
  BY <1>1 DEF BrowseType
<1>. QED  BY <1>2 DEF Browsing, Walking, Counting

(* A Browse of an ID is one of the object the ID was made of.              *)
LEMMA Begun ==
  ASSUME NEW o \in Requested, NEW meta \in BOOLEAN, NEW w \in Windows,
         CdsBrowse(cpId(o), meta, w)
  PROVE  /\ b' \in BrowseType /\ Canonical(o) /\ b'.dir = o /\ b'.entry = o /\ b'.meta = meta
         /\ b'.pc = (IF meta THEN "didl" ELSE "open")
         /\ b'.nr = 0 /\ b'.tm = 0 /\ b'.shown = <<>>
         /\ quiet' \in BOOLEAN /\ (quiet' => Settled(o))
         /\ PCGetFileDirType(db, o) # 0
<1>1. Canonical(o)
  BY ContentDirectoryAssumption DEF Canonical
<1>2. PathObject(filepath(cpId(o))) = o
  BY <1>1, PathOfID DEF Canonical
<1>. DEFINE si == IF meta THEN 0 ELSE w[1]
            rc == IF meta THEN 0 ELSE w[2]
            p == IF meta THEN "didl" ELSE "open"
<1>3. si \in Nat /\ rc \in Nat /\ p \in Phases
  BY ContentDirectoryAssumption DEF Phases
<1>4. /\ b' = [Idle EXCEPT !.dir = o, !.entry = o, !.meta = meta, !.si = si, !.rc = rc, !.pc = p]
      /\ quiet' = Settled(o)
      /\ PCGetFileDirType(db, o) # 0
  BY <1>2 DEF CdsBrowse
<1>5. Settled(o) \in BOOLEAN
  BY DEF Settled
<1>6. Idle \in BrowseType /\ Idle.nr = 0 /\ Idle.tm = 0 /\ Idle.shown = <<>> /\ o \in Entries
  BY <1>1, IdleType DEF Idle, Canonical
<1>7. p = IF meta THEN "didl" ELSE "open"
  OBVIOUS
<1>. HIDE DEF si, rc, p
<1>8. /\ b' \in BrowseType /\ b'.dir = o /\ b'.entry = o /\ b'.meta = meta /\ b'.pc = p
      /\ b'.nr = Idle.nr /\ b'.tm = Idle.tm /\ b'.shown = Idle.shown
  BY <1>3, <1>4, <1>6 DEF BrowseType
<1>. QED  BY <1>1, <1>4, <1>5, <1>6, <1>7, <1>8

LEMMA BrowsingStep ==
  ASSUME Guided, Browsing, [Next]_vars
  PROVE  Browsing'
<1>0. /\ db \in Lists /\ Sorted(db) /\ now \in Nat
      /\ b \in BrowseType /\ Canonical(b.dir) /\ Canonical(b.entry)
  BY ContentDirectoryAssumption DEF Guided, ListsType, Browsing
<1>f. /\ b.tm \in Nat /\ b.nr \in Nat /\ b.count \in Nat /\ b.walk \in WalkType
      /\ b.inner \in WalkType /\ b.meta \in BOOLEAN
  BY <1>0, BrowseFields
<1>1. b' = b /\ quiet' \in BOOLEAN => Browsing'
  BY DEF Browsing, Walking, Counting
<1>2. ASSUME \/ \E c \in Channels : chandump(c)
             \/ \E e \in Events : epg_event(e)
             \/ Tick \/ destroy_lists \/ UNCHANGED vars
      PROVE  b' = b /\ quiet' \in BOOLEAN
  BY <1>2 DEF chandump, epg_event, Tick, destroy_lists, vars, Browsing
<1>3. ASSUME NEW o \in Requested, NEW meta \in BOOLEAN, NEW w \in Windows,
             CdsBrowse(cpId(o), meta, w)
      PROVE  Browsing'
  <2>1. /\ b' \in BrowseType /\ Canonical(o) /\ b'.dir = o /\ b'.entry = o /\ b'.meta = meta
        /\ b'.pc = (IF meta THEN "didl" ELSE "open")
        /\ b'.nr = 0 /\ b'.tm = 0 /\ b'.shown = <<>> /\ quiet' \in BOOLEAN
    BY <1>3, Begun
  <2>2. ~Walking(b') /\ ~Counting(b')
    BY <2>1 DEF Walking, Counting
  <2>. QED  BY <2>1, <2>2 DEF Browsing
<1>4. CASE OpenDir
  <2>. DEFINE r == PCGetDirFirstFile(db, b.dir, TRUE, now)
  <2>1. /\ b' = [b EXCEPT !.walk = r.walk,
                          !.pc = IF r.walk = NoWalk THEN "answer" ELSE "entry"]
        /\ quiet' = quiet
    BY <1>4 DEF OpenDir
  <2>. HIDE DEF r
  <2>2. r.walk # NoWalk => Stands(db, b.dir, now, r.walk)
    BY <1>0, FirstFileFacts DEF r
  <2>3. r.walk # NoWalk => Stood(b.dir, r.walk) /\ r.walk \in WalkType
    BY <1>0, <2>2, StandsFacts
  <2>. QED  BY <2>1, <2>3, WalkedOn, Zenon
<1>5. CASE Entry
  <2>1. b.pc = "entry" /\ Stood(b.dir, b.walk) /\ quiet' = quiet
    BY <1>5 DEF Entry, Browsing, Walking
  <2>2. b.walk.next \in Channels \cup {End} \cup Nat /\ b.walk = [entry |-> b.walk.entry, next |-> b.walk.next]
    BY <1>f DEF WalkType
  <2>3. Canonical(b.walk.entry) /\ b.walk.entry \in Entries
    BY <1>0, <2>1, <2>2, StoodFacts DEF Canonical
  <2>4. CASE b' = [b EXCEPT !.entry = b.walk.entry, !.pc = "didl"]
    <3>1. /\ b' \in BrowseType /\ b'.pc = "didl" /\ b'.dir = b.dir /\ b'.meta = b.meta
          /\ b'.nr = b.nr /\ b'.tm = b.tm /\ b'.entry = b.walk.entry /\ b'.walk = b.walk
          /\ b'.inner = b.inner /\ b'.shown = b.shown
      BY <1>0, <2>3, <2>4 DEF BrowseType, Phases
    <3>. QED  BY <2>1, <2>3, <3>1 DEF Browsing, Walking, Counting
  <2>5. CASE b' = [b EXCEPT !.pc = "next"]
    <3>1. "next" \in Phases
      BY DEF Phases
    <3>2. /\ b' \in BrowseType /\ b'.pc = "next" /\ b'.dir = b.dir /\ b'.meta = b.meta
          /\ b'.nr = b.nr /\ b'.tm = b.tm /\ b'.entry = b.entry /\ b'.walk = b.walk
          /\ b'.inner = b.inner /\ b'.shown = b.shown
      BY <1>0, <2>5, <3>1 DEF BrowseType
    <3>. QED  BY <2>1, <3>2 DEF Browsing, Walking, Counting
  <2>. QED  BY <1>5, <2>4, <2>5 DEF Entry
<1>6. CASE NextEntry
  <2>. DEFINE r == PCGetDirNextFile(db, b.dir, b.walk, now)
  <2>1. /\ \/ At("undefined")
           \/ /\ ~Dangling(db, b.dir, b.walk)
              /\ b' = [b EXCEPT !.walk = r.walk,
                                !.pc = IF r.walk = NoWalk THEN "answer" ELSE "entry"]
        /\ quiet' = quiet /\ b.pc = "next"
    BY <1>6 DEF NextEntry
  <2>. HIDE DEF r
  <2>2. CASE At("undefined")
    BY <2>1, <2>2, Broken
  <2>3. CASE ~Dangling(db, b.dir, b.walk)
    <3>1. Stood(b.dir, b.walk)
      BY <2>1 DEF Browsing, Walking
    <3>2. r.walk # NoWalk => Stood(b.dir, r.walk) /\ r.walk \in WalkType
      BY <1>0, <2>3, <3>1, NextStood DEF r
    <3>. QED  BY <2>1, <2>2, <3>2, WalkedOn, Zenon
  <2>. QED  BY <2>1, <2>2, <2>3
<1>7. CASE Skipped
  <2>. DEFINE n == b.tm + 1
              p == AfterEntry
  <2>1. b.pc = "didl" /\ b' = [b EXCEPT !.tm = n, !.pc = p] /\ quiet' = quiet
    BY <1>7 DEF Skipped
  <2>2. n \in Nat /\ p \in Phases /\ b.nr <= n /\ b.nr = Len(b.shown)
    BY <1>f DEF AfterEntry, Phases, Browsing
  <2>3. p = AfterEntry
    OBVIOUS
  <2>. HIDE DEF n, p
  <2>4. /\ b' \in BrowseType /\ b'.pc = p /\ b'.dir = b.dir /\ b'.meta = b.meta
        /\ b'.nr = b.nr /\ b'.tm = n /\ b'.entry = b.entry /\ b'.walk = b.walk
        /\ b'.inner = b.inner /\ b'.shown = b.shown
    BY <1>0, <2>1, <2>2 DEF BrowseType
  <2>. QED  BY <2>1, <2>2, <2>3, <2>4, EntryDone
<1>8. CASE CountFirst
  <2>. DEFINE r == PCGetDirFirstFile(db, b.entry, b.entry = Root, now)
  <2>1. /\ \/ r.walk = NoWalk /\ Emit(0, NoEvent)
           \/ r.walk # NoWalk /\ b' = [b EXCEPT !.inner = r.walk, !.pc = "count"]
        /\ quiet' = quiet /\ b.pc = "didl"
    BY <1>8 DEF CountFirst
  <2>2. (b.entry = Root) \in BOOLEAN
    OBVIOUS
  <2>. HIDE DEF r
  <2>3. CASE Emit(0, NoEvent)
    BY <2>1, <2>3, Emitted DEF NoEvent
  <2>4. CASE r.walk # NoWalk /\ b' = [b EXCEPT !.inner = r.walk, !.pc = "count"]
    <3>1. Stands(db, b.entry, now, r.walk)
      BY <1>0, <2>2, <2>4, FirstFileFacts DEF r
    <3>2. Stood(b.entry, r.walk) /\ r.walk \in WalkType
      BY <1>0, <3>1, StandsFacts
    <3>3. /\ b' \in BrowseType /\ b'.pc = "count" /\ b'.dir = b.dir /\ b'.meta = b.meta
          /\ b'.nr = b.nr /\ b'.tm = b.tm /\ b'.entry = b.entry /\ b'.walk = b.walk
          /\ b'.inner = r.walk /\ b'.shown = b.shown
      BY <1>0, <2>4, <3>2 DEF BrowseType, Phases
    <3>. QED  BY <2>1, <3>2, <3>3 DEF Browsing, Walking, Counting
  <2>. QED  BY <2>1, <2>3, <2>4
<1>9. CASE CountNext
  <2>. DEFINE n == IF ProceedWithDirEntry(db, b.inner.entry) THEN b.count + 1 ELSE b.count
              r == PCGetDirNextFile(db, b.entry, b.inner, now)
  <2>1. /\ \/ At("undefined")
           \/ ~Dangling(db, b.entry, b.inner) /\ r.walk = NoWalk /\ Emit(n, NoEvent)
           \/ /\ ~Dangling(db, b.entry, b.inner) /\ r.walk # NoWalk
              /\ b' = [b EXCEPT !.inner = r.walk, !.count = n]
        /\ quiet' = quiet /\ b.pc = "count"
    BY <1>9 DEF CountNext
  <2>2. n \in Nat /\ NoEvent \in Nat
    BY <1>f DEF NoEvent
  <2>. HIDE DEF n, r
  <2>3. CASE At("undefined")
    BY <2>1, <2>3, Broken
  <2>4. CASE Emit(n, NoEvent)
    BY <2>1, <2>2, <2>4, Emitted
  <2>5. CASE /\ ~Dangling(db, b.entry, b.inner) /\ r.walk # NoWalk
             /\ b' = [b EXCEPT !.inner = r.walk, !.count = n]
    <3>1. Stood(b.entry, b.inner)
      BY <2>1 DEF Browsing, Counting
    <3>2. Stood(b.entry, r.walk) /\ r.walk \in WalkType
      BY <1>0, <2>5, <3>1, NextStood DEF r
    <3>3. /\ b' \in BrowseType /\ b'.pc = b.pc /\ b'.dir = b.dir /\ b'.meta = b.meta
          /\ b'.nr = b.nr /\ b'.tm = b.tm /\ b'.entry = b.entry /\ b'.walk = b.walk
          /\ b'.inner = r.walk /\ b'.shown = b.shown
      BY <1>0, <2>2, <2>5, <3>2 DEF BrowseType
    <3>. QED  BY <2>1, <3>2, <3>3 DEF Browsing, Walking, Counting
  <2>. QED  BY <2>1, <2>3, <2>4, <2>5
<1>10. CASE Describe
  <2>. DEFINE r == GetMetaData(db, b.entry, now)
  <2>1. (At("undefined") \/ Emit(0, r.at)) /\ quiet' = quiet /\ b.pc = "didl"
    BY <1>10 DEF Describe
  <2>. HIDE DEF r
  <2>2. r.at \in Nat
    <3>1. r.at \in Events \cup {NoEvent}
      BY <1>0, MetaDataFacts DEF r
    <3>2. Events \subseteq Nat /\ NoEvent \in Nat
      BY GuideAssumption DEF NoEvent
    <3>. QED  BY <3>1, <3>2
  <2>. QED  BY <2>1, <2>2, Broken, Emitted
<1>11. CASE Answer
  <2>1. b' = Idle /\ quiet' = FALSE
    BY <1>11 DEF Answer
  <2>2. /\ Idle.pc = "idle" /\ Idle.nr = 0 /\ Idle.tm = 0 /\ Idle.shown = <<>>
        /\ Idle.dir = Root /\ Idle.entry = Root
    BY DEF Idle
  <2>3. ~Walking(b') /\ ~Counting(b') /\ Len(<<>>) = 0
    BY <2>1, <2>2 DEF Walking, Counting
  <2>4. quiet' \in BOOLEAN
    BY <2>1
  <2>5. /\ b' \in BrowseType /\ b'.nr = Len(b'.shown) /\ b'.nr <= b'.tm
        /\ Canonical(b'.dir) /\ Canonical(b'.entry)
    BY <2>1, <2>2, <2>3, IdleType
  <2>. QED  BY <2>3, <2>4, <2>5 DEF Browsing
<1>. QED  BY <1>1, <1>2, <1>3, <1>4, <1>5, <1>6, <1>7, <1>8, <1>9, <1>10, <1>11
          DEF Next, BrowseStep

LEMMA AlwaysBrowsing == Spec => []Browsing
BY BrowsingStart, BrowsingStep, GuidedStart, GuidedStep, PTL DEF Spec

(* The lists hold the broadcast's channels and each channel's own          *)
(* programmes, and the Browse that is under way is at an object of the     *)
(* directory with its counters in step with its answer: NumberReturned is  *)
(* the number of entries sent, and never more than TotalMatches (CdsBrowse, *)
(* ProcessDir, DirectoryEntryToDidl).                                      *)
THEOREM DirectoryTypes == Spec => []TypeOK
<1>1. ASSUME Guided, Browsing
      PROVE  TypeOK
  <2>1. /\ db.channels \in Seq(Channels)
        /\ \A c \in Channels : db.programs[c] \in Seq(Events)
        /\ now \in 0..MaxTime /\ dumped \subseteq Channels /\ reported \subseteq Events
        /\ stopped \in BOOLEAN
    BY <1>1 DEF Guided, ListsType, Lists
  <2>2. \A c \in Channels : OwnChannel(db.programs[c], c)
    BY <1>1 DEF Guided, Sorted
  <2>3. /\ b.pc \in Phases /\ b.dir \in Entries /\ b.meta \in BOOLEAN
        /\ b.si \in Nat /\ b.rc \in Nat /\ b.nr \in Nat /\ b.tm \in Nat /\ b.count \in Nat
        /\ b.entry \in Entries /\ b.walk \in WalkType
    BY <1>1, BrowseFields DEF Browsing
  <2>4. b.walk.entry \in Entries
    BY <2>3 DEF WalkType
  <2>5. quiet \in BOOLEAN /\ b.nr = Len(b.shown) /\ b.nr <= b.tm
    BY <1>1 DEF Browsing
  <2>. QED  BY <2>1, <2>2, <2>3, <2>4, <2>5 DEF TypeOK, OwnChannel, Phases
<1>. QED  BY <1>1, AlwaysGuided, AlwaysBrowsing, PTL

-----------------------------------------------------------------------------
(* What the steps of a Browse do to its fields.                            *)

Remains == b'.dir = b.dir /\ b'.meta = b.meta /\ b'.shown = b.shown /\ quiet' = quiet

LEMMA OpenDirMoves ==
  ASSUME b \in BrowseType, OpenDir
  PROVE  /\ b.pc = "open" /\ Remains
         /\ b'.walk = PCGetDirFirstFile(db, b.dir, TRUE, now).walk
         /\ b'.pc = IF b'.walk = NoWalk THEN "answer" ELSE "entry"
<1>. DEFINE w == PCGetDirFirstFile(db, b.dir, TRUE, now).walk
            p == IF w = NoWalk THEN "answer" ELSE "entry"
<1>1. b' = [b EXCEPT !.walk = w, !.pc = p] /\ b.pc = "open" /\ quiet' = quiet
  BY DEF OpenDir
<1>2. p = IF w = NoWalk THEN "answer" ELSE "entry"
  OBVIOUS
<1>. HIDE DEF w, p
<1>3. b'.walk = w /\ b'.pc = p /\ b'.dir = b.dir /\ b'.meta = b.meta /\ b'.shown = b.shown
  BY <1>1 DEF BrowseType
<1>. QED  BY <1>1, <1>2, <1>3 DEF w, Remains

LEMMA EntryMoves ==
  ASSUME b \in BrowseType, Entry
  PROVE  /\ b.pc = "entry" /\ Remains /\ b'.walk = b.walk
         /\ \/ b'.pc = "didl" /\ b'.entry = b.walk.entry
            \/ b'.pc = "next"
<1>1. CASE b' = [b EXCEPT !.entry = b.walk.entry, !.pc = "didl"]
  BY <1>1 DEF Entry, Remains, BrowseType
<1>2. CASE b' = [b EXCEPT !.pc = "next"]
  BY <1>2 DEF Entry, Remains, BrowseType
<1>. QED  BY <1>1, <1>2 DEF Entry

LEMMA NextEntryMoves ==
  ASSUME b \in BrowseType, NextEntry
  PROVE  /\ b.pc = "next" /\ Remains
         /\ \/ b'.pc = "undefined" /\ Dangling(db, b.dir, b.walk)
            \/ /\ ~Dangling(db, b.dir, b.walk)
               /\ b'.walk = PCGetDirNextFile(db, b.dir, b.walk, now).walk
               /\ b'.pc = IF b'.walk = NoWalk THEN "answer" ELSE "entry"
<1>. DEFINE w == PCGetDirNextFile(db, b.dir, b.walk, now).walk
            p == IF w = NoWalk THEN "answer" ELSE "entry"
<1>1. /\ b.pc = "next" /\ quiet' = quiet
      /\ \/ b' = [b EXCEPT !.pc = "undefined"] /\ Dangling(db, b.dir, b.walk)
         \/ b' = [b EXCEPT !.walk = w, !.pc = p] /\ ~Dangling(db, b.dir, b.walk)
  BY DEF NextEntry, At
<1>2. p = IF w = NoWalk THEN "answer" ELSE "entry"
  OBVIOUS
<1>. HIDE DEF w, p
<1>3. ASSUME b' = [b EXCEPT !.walk = w, !.pc = p]
      PROVE  b'.walk = w /\ b'.pc = p /\ Remains
  BY <1>1, <1>3 DEF BrowseType, Remains
<1>4. ASSUME b' = [b EXCEPT !.pc = "undefined"]
      PROVE  b'.pc = "undefined" /\ Remains
  BY <1>1, <1>4 DEF BrowseType, Remains
<1>. QED  BY <1>1, <1>2, <1>3, <1>4 DEF w

LEMMA SkippedMoves ==
  ASSUME b \in BrowseType, Skipped
  PROVE  b.pc = "didl" /\ b'.pc = AfterEntry /\ Remains /\ b'.walk = b.walk
         /\ b'.entry = b.entry
<1>. DEFINE n == b.tm + 1
            p == AfterEntry
<1>1. b.pc = "didl" /\ b' = [b EXCEPT !.tm = n, !.pc = p] /\ quiet' = quiet
  BY DEF Skipped
<1>. HIDE DEF n, p
<1>2. b'.pc = p /\ Remains /\ b'.walk = b.walk /\ b'.entry = b.entry
  BY <1>1 DEF BrowseType, Remains
<1>. QED  BY <1>1, <1>2 DEF p

(* The answer of an entry: its children counted or its item described.     *)
Answered ==
  \E n \in Nat, e \in Nat :
    /\ b'.pc = AfterEntry /\ b'.dir = b.dir /\ b'.meta = b.meta /\ b'.entry = b.entry
    /\ b'.walk = b.walk /\ quiet' = quiet
    /\ b'.shown = Append(b.shown, [id |-> cpId(b.entry), parent |-> parentID(b.entry),
                                   children |-> n, airing |-> e])

LEMMA EmitMoves ==
  ASSUME Browsing, quiet' = quiet, NEW n \in Nat, NEW e \in Nat, Emit(n, e)
  PROVE  Answered
<1>1. b \in BrowseType /\ b.nr = Len(b.shown) /\ b.nr <= b.tm
  BY DEF Browsing
<1>. QED  BY <1>1, EmitFacts DEF Answered

LEMMA CountFirstMoves ==
  ASSUME Browsing, CountFirst
  PROVE  /\ b.pc = "didl"
         /\ \/ Answered
            \/ /\ b'.pc = "count" /\ Remains /\ b'.walk = b.walk /\ b'.entry = b.entry
               /\ b'.inner = PCGetDirFirstFile(db, b.entry, b.entry = Root, now).walk
               /\ b'.inner # NoWalk
<1>. DEFINE w == PCGetDirFirstFile(db, b.entry, b.entry = Root, now).walk
<1>1. /\ b.pc = "didl" /\ quiet' = quiet /\ b \in BrowseType
      /\ \/ Emit(0, NoEvent)
         \/ w # NoWalk /\ b' = [b EXCEPT !.inner = w, !.pc = "count"]
  BY DEF CountFirst, Browsing
<1>. HIDE DEF w
<1>2. CASE Emit(0, NoEvent)
  BY <1>1, <1>2, EmitMoves DEF NoEvent
<1>3. CASE w # NoWalk /\ b' = [b EXCEPT !.inner = w, !.pc = "count"]
  <2>1. b'.pc = "count" /\ Remains /\ b'.walk = b.walk /\ b'.entry = b.entry /\ b'.inner = w
    BY <1>1, <1>3 DEF BrowseType, Remains
  <2>. QED  BY <1>1, <1>3, <2>1 DEF w
<1>. QED  BY <1>1, <1>2, <1>3

LEMMA CountNextMoves ==
  ASSUME Browsing, CountNext
  PROVE  /\ b.pc = "count"
         /\ \/ b'.pc = "undefined" /\ Dangling(db, b.entry, b.inner) /\ Remains
            \/ Answered
            \/ /\ b'.pc = "count" /\ Remains /\ b'.walk = b.walk /\ b'.entry = b.entry
               /\ ~Dangling(db, b.entry, b.inner)
               /\ b'.inner = PCGetDirNextFile(db, b.entry, b.inner, now).walk
               /\ b'.inner # NoWalk
<1>. DEFINE w == PCGetDirNextFile(db, b.entry, b.inner, now).walk
            n == IF ProceedWithDirEntry(db, b.inner.entry) THEN b.count + 1 ELSE b.count
<1>1. /\ b.pc = "count" /\ quiet' = quiet /\ b \in BrowseType
      /\ \/ b' = [b EXCEPT !.pc = "undefined"] /\ Dangling(db, b.entry, b.inner)
         \/ Emit(n, NoEvent)
         \/ /\ w # NoWalk /\ ~Dangling(db, b.entry, b.inner)
            /\ b' = [b EXCEPT !.inner = w, !.count = n]
  BY DEF CountNext, Browsing, At
<1>2. n \in Nat /\ NoEvent \in Nat
  BY <1>1, BrowseFields DEF NoEvent
<1>. HIDE DEF w, n
<1>3. CASE b' = [b EXCEPT !.pc = "undefined"] /\ Dangling(db, b.entry, b.inner)
  BY <1>1, <1>3 DEF BrowseType, Remains
<1>4. CASE Emit(n, NoEvent)
  BY <1>1, <1>2, <1>4, EmitMoves
<1>5. CASE /\ w # NoWalk /\ ~Dangling(db, b.entry, b.inner)
           /\ b' = [b EXCEPT !.inner = w, !.count = n]
  <2>1. b'.pc = "count" /\ Remains /\ b'.walk = b.walk /\ b'.entry = b.entry /\ b'.inner = w
    BY <1>1, <1>5 DEF BrowseType, Remains
  <2>. QED  BY <1>1, <1>5, <2>1 DEF w
<1>. QED  BY <1>1, <1>3, <1>4, <1>5

LEMMA DescribeMoves ==
  ASSUME Guided, Browsing, Describe
  PROVE  /\ b.pc = "didl"
         /\ \/ Answered
            \/ /\ b'.pc = "undefined" /\ Remains
               /\ b.entry.shape = "channel" /\ ~ischannel(db, b.entry.channel)
<1>. DEFINE r == GetMetaData(db, b.entry, now)
<1>1. /\ b.pc = "didl" /\ quiet' = quiet /\ b \in BrowseType
      /\ \/ Emit(0, r.at)
         \/ /\ b' = [b EXCEPT !.pc = "undefined"]
            /\ b.entry.shape = "channel" /\ ~ischannel(db, b.entry.channel)
  BY DEF Describe, Browsing, At
<1>2. r.at \in Nat
  <2>1. db \in Lists /\ now \in Nat
    BY ContentDirectoryAssumption DEF Guided, ListsType
  <2>2. r.at \in Events \cup {NoEvent}
    BY <2>1, MetaDataFacts
  <2>3. Events \subseteq Nat /\ NoEvent \in Nat
    BY GuideAssumption DEF NoEvent
  <2>. QED  BY <2>2, <2>3
<1>. HIDE DEF r
<1>3. CASE Emit(0, r.at)
  BY <1>1, <1>2, <1>3, EmitMoves
<1>4. CASE /\ b' = [b EXCEPT !.pc = "undefined"]
           /\ b.entry.shape = "channel" /\ ~ischannel(db, b.entry.channel)
  BY <1>1, <1>4 DEF BrowseType, Remains
<1>. QED  BY <1>1, <1>3, <1>4

-----------------------------------------------------------------------------
(* A Browse that nothing else disturbs.                                    *)

(* The element the walk goes on from is still in its list.                 *)
Alive(d, dir, w, t) ==
  /\ dir.shape \in {"Channels", "EPG"} => w.next = End \/ ischannel(d, w.next)
  /\ dir.shape \in {"guide", "day"} =>
       /\ ischannel(d, dir.channel) /\ w.next \in Events
       /\ Holds(d.programs[dir.channel], w.next) /\ ~Over(w.next, t)

Undisturbed ==
  quiet =>
    /\ b.pc # "undefined"
    /\ Walking(b) => /\ Alive(db, b.dir, b.walk, now)
                     /\ b.dir.shape = "Channels" => ischannel(db, b.walk.entry.channel)
    /\ b.pc \in {"didl", "count"} /\ b.entry.shape = "channel" =>
         ischannel(db, b.entry.channel)
    /\ Counting(b) => Alive(db, b.entry, b.inner, now)

LEMMA AliveSwept ==
  ASSUME NEW d \in Lists, NEW e, NEW t, Swept(d, e, t), NEW dir, NEW w, Alive(d, dir, w, t)
  PROVE  Alive(e, dir, w, t)
<1>1. \A c : ischannel(e, c) <=> ischannel(d, c)
  BY DEF Swept, ischannel
<1>2. ASSUME dir.shape \in {"guide", "day"}
      PROVE  Holds(e.programs[dir.channel], w.next)
  <2>1. /\ ischannel(d, dir.channel) /\ Holds(d.programs[dir.channel], w.next)
        /\ ~Over(w.next, t)
    BY <1>2 DEF Alive
  <2>2. /\ d.programs[dir.channel] \in Seq(Events)
        /\ Left(d.programs[dir.channel], e.programs[dir.channel], t)
    BY <2>1, Listed DEF Swept
  <2>. QED  BY <2>1, <2>2, LeftFacts
<1>. QED  BY <1>1, <1>2 DEF Alive

LEMMA StandsAlive ==
  ASSUME NEW d \in Lists, NEW dir, NEW t, NEW w, Stands(d, dir, t, w)
  PROVE  /\ Alive(d, dir, w, t)
         /\ dir.shape = "Channels" => ischannel(d, w.entry.channel)
<1>1. CASE dir.shape = "root"
  BY <1>1 DEF Alive
<1>2. CASE dir.shape \in {"Channels", "EPG"}
  <2>. DEFINE shape == IF dir.shape = "EPG" THEN "guide" ELSE "channel"
  <2>1. PICK k \in DOMAIN d.channels : w = ChannelWalk(d.channels, k, shape)
    BY <1>2 DEF Stands
  <2>2. Len(d.channels) \in Nat /\ DOMAIN d.channels = 1..Len(d.channels)
    BY DEF Lists
  <2>. HIDE DEF shape
  <2>3. w = [entry |-> Object(shape, d.channels[k], 0, 0),
             next |-> IF k = Len(d.channels) THEN End ELSE d.channels[k + 1]]
    BY <2>1, <2>2 DEF ChannelWalk
  <2>4. w.entry.channel = d.channels[k]
    BY <2>3 DEF Object
  <2>5. w.next = End \/ (k + 1 \in DOMAIN d.channels /\ w.next = d.channels[k + 1])
    BY <2>2, <2>3
  <2>. QED  BY <1>2, <2>4, <2>5 DEF Alive, ischannel
<1>3. CASE dir.shape \in {"guide", "day"}
  BY <1>3 DEF Stands, Alive
<1>. QED  BY <1>1, <1>2, <1>3 DEF Stands

LEMMA AliveStays ==
  ASSUME NEW d \in Lists, NEW dir, NEW t, NEW w, Alive(d, dir, w, t)
  PROVE  ~Dangling(d, dir, w)
<1>1. ASSUME dir.shape \in {"guide", "day"}
      PROVE  Position(d.programs[dir.channel], w.next) # 0
  <2>1. ischannel(d, dir.channel) /\ Holds(d.programs[dir.channel], w.next)
    BY <1>1 DEF Alive
  <2>2. d.programs[dir.channel] \in Seq(Events)
    BY <2>1, Listed
  <2>. QED  BY <2>1, <2>2, PositionFacts
<1>. QED  BY <1>1 DEF Alive, Dangling

(* The next entry is alive after the call that found it.                   *)
LEMMA NextAlive ==
  ASSUME NEW d \in Lists, NEW dir, NEW t \in Nat, NEW w, ~Dangling(d, dir, w),
         NEW r, r = PCGetDirNextFile(d, dir, w, t), r.walk # NoWalk
  PROVE  /\ Alive(r.db, dir, r.walk, t)
         /\ dir.shape = "Channels" => ischannel(r.db, r.walk.entry.channel)
<1>1. Swept(d, r.db, t)
  BY NextFileFacts
<1>2. dir.shape # "root" => Stands(d, dir, t, r.walk)
  BY NextFileFacts
<1>3. CASE dir.shape = "root"
  BY <1>3 DEF Alive
<1>4. CASE dir.shape # "root"
  <2>1. /\ Alive(d, dir, r.walk, t)
        /\ dir.shape = "Channels" => ischannel(d, r.walk.entry.channel)
    BY <1>2, <1>4, StandsAlive
  <2>2. \A c : ischannel(r.db, c) <=> ischannel(d, c)
    BY <1>1 DEF Swept, ischannel
  <2>. QED  BY <1>1, <2>1, <2>2, AliveSwept
<1>. QED  BY <1>3, <1>4

LEMMA FirstAlive ==
  ASSUME NEW d \in Lists, NEW dir, NEW delimited \in BOOLEAN, NEW t \in Nat,
         NEW r, r = PCGetDirFirstFile(d, dir, delimited, t), r.walk # NoWalk
  PROVE  /\ Alive(r.db, dir, r.walk, t)
         /\ dir.shape = "Channels" => ischannel(r.db, r.walk.entry.channel)
<1>1. Swept(d, r.db, t) /\ Stands(d, dir, t, r.walk)
  BY FirstFileFacts
<1>2. /\ Alive(d, dir, r.walk, t)
      /\ dir.shape = "Channels" => ischannel(d, r.walk.entry.channel)
  BY <1>1, StandsAlive
<1>3. \A c : ischannel(r.db, c) <=> ischannel(d, c)
  BY <1>1 DEF Swept, ischannel
<1>. QED  BY <1>1, <1>2, <1>3, AliveSwept

(* Only ./Channels has items of channels.                                  *)
LEMMA ItemsOfChannels ==
  ASSUME NEW dir, NEW w, Stood(dir, w), w.entry.shape = "channel"
  PROVE  dir.shape = "Channels"
<1>1. CASE dir.shape = "root" /\ \E k \in 1..Len(rootDirs) : w = RootWalk(k)
  <2>1. PICK k \in 1..3 : w = RootWalk(k)
    BY <1>1 DEF rootDirs
  <2>2. w.entry.shape = rootDirs[k] /\ rootDirs[k] \in {"Channels", "EPG", "VOD"}
    BY <2>1, RootWalkFacts DEF Top, Object, rootDirs
  <2>. QED  BY <2>2
<1>2. CASE /\ dir.shape \in {"Channels", "EPG"}
           /\ \E c \in Channels :
                w.entry = Object(IF dir.shape = "EPG" THEN "guide" ELSE "channel", c, 0, 0)
  BY <1>2 DEF Object
<1>3. CASE /\ dir.shape \in {"guide", "day"}
           /\ w.entry = IF dir.shape = "guide" THEN DayEntry(dir.channel, w.next)
                        ELSE EventEntry(dir, w.next)
  BY <1>3 DEF DayEntry, EventEntry, DayOfGuide, Airing, Object
<1>. QED  BY <1>1, <1>2, <1>3 DEF Stood

LEMMA UndisturbedStep ==
  ASSUME Guided, Browsing, Undisturbed, [Next]_vars
  PROVE  Undisturbed'
<1>. SUFFICES ASSUME quiet'
              PROVE  /\ b'.pc # "undefined"
                     /\ Walking(b') =>
                          /\ Alive(db', b'.dir, b'.walk, now')
                          /\ b'.dir.shape = "Channels" => ischannel(db', b'.walk.entry.channel)
                     /\ b'.pc \in {"didl", "count"} /\ b'.entry.shape = "channel" =>
                          ischannel(db', b'.entry.channel)
                     /\ Counting(b') => Alive(db', b'.entry, b'.inner, now')
  BY DEF Undisturbed, Walking, Counting, Alive, ischannel, Holds
<1>0. /\ db \in Lists /\ Sorted(db) /\ now \in Nat /\ ListsType
      /\ b \in BrowseType /\ quiet \in BOOLEAN
  BY ContentDirectoryAssumption DEF Guided, ListsType, Browsing
<1>1. CASE UNCHANGED vars
  BY <1>1 DEF vars, Undisturbed
<1>2. ~\E c \in Channels : chandump(c)
  BY DEF chandump
<1>3. ~\E e \in Events : epg_event(e)
  BY DEF epg_event
<1>4. ~Tick /\ ~destroy_lists
  BY DEF Tick, destroy_lists
<1>5. ASSUME NEW o \in Requested, NEW meta \in BOOLEAN, NEW w \in Windows,
             CdsBrowse(cpId(o), meta, w)
      PROVE  /\ b'.pc \in {"didl", "open"} /\ (b'.pc = "didl" => b'.meta)
             /\ b'.entry.shape = "channel" => ischannel(db', b'.entry.channel)
  <2>1. /\ b'.entry = o /\ b'.meta = meta /\ b'.pc = (IF meta THEN "didl" ELSE "open")
        /\ PCGetFileDirType(db, o) # 0
    BY <1>5, Begun
  <2>2. db' = db
    BY <1>5 DEF CdsBrowse, lists
  <2>3. o.shape = "channel" => ischannel(db, o.channel)
    BY <2>1 DEF PCGetFileDirType
  <2>. QED  BY <2>1, <2>2, <2>3
<1>6. ASSUME BrowseStep
      PROVE  /\ Swept(db, db', now) /\ now' = now /\ db' \in Lists
             /\ \A c : ischannel(db', c) <=> ischannel(db, c)
  BY <1>0, <1>6, BrowseSweeps DEF Swept, ischannel
<1>7. ASSUME BrowseStep, quiet
      PROVE  /\ Walking(b) => /\ Alive(db', b.dir, b.walk, now')
                              /\ b.dir.shape = "Channels" => ischannel(db', b.walk.entry.channel)
             /\ b.pc \in {"didl", "count"} /\ b.entry.shape = "channel" =>
                  ischannel(db', b.entry.channel)
             /\ Counting(b) => Alive(db', b.entry, b.inner, now')
             /\ Walking(b) => ~Dangling(db, b.dir, b.walk)
             /\ Counting(b) => ~Dangling(db, b.entry, b.inner)
  BY <1>0, <1>6, <1>7, AliveSwept, AliveStays DEF Undisturbed
<1>8. CASE OpenDir
  <2>. DEFINE r == PCGetDirFirstFile(db, b.dir, TRUE, now)
  <2>1. /\ b'.dir = b.dir /\ b'.walk = r.walk
        /\ b'.pc = IF b'.walk = NoWalk THEN "answer" ELSE "entry"
    BY <1>0, <1>8, OpenDirMoves DEF Remains
  <2>2. db' = r.db /\ now' = now
    BY <1>8 DEF OpenDir
  <2>3. r.walk # NoWalk => /\ Alive(r.db, b.dir, r.walk, now)
                           /\ b.dir.shape = "Channels" => ischannel(r.db, r.walk.entry.channel)
    BY <1>0, FirstAlive
  <2>. HIDE DEF r
  <2>. QED  BY <2>1, <2>2, <2>3 DEF Walking, Counting
<1>9. CASE Entry
  <2>1. /\ b.pc = "entry" /\ Remains /\ b'.walk = b.walk
        /\ \/ b'.pc = "didl" /\ b'.entry = b.walk.entry
           \/ b'.pc = "next"
    BY <1>0, <1>9, EntryMoves
  <2>2. /\ Alive(db', b.dir, b.walk, now')
        /\ b.dir.shape = "Channels" => ischannel(db', b.walk.entry.channel)
    BY <1>7, <1>9, <2>1 DEF BrowseStep, Remains, Walking
  <2>3. b.walk.entry.shape = "channel" => b.dir.shape = "Channels"
    BY <2>1, ItemsOfChannels DEF Browsing, Walking
  <2>. QED  BY <2>1, <2>2, <2>3 DEF Remains, Counting
<1>10. CASE NextEntry
  <2>. DEFINE r == PCGetDirNextFile(db, b.dir, b.walk, now)
  <2>1. /\ b.pc = "next" /\ Remains
        /\ \/ b'.pc = "undefined" /\ Dangling(db, b.dir, b.walk)
           \/ /\ ~Dangling(db, b.dir, b.walk) /\ b'.walk = r.walk
              /\ b'.pc = IF b'.walk = NoWalk THEN "answer" ELSE "entry"
    BY <1>0, <1>10, NextEntryMoves
  <2>2. ~Dangling(db, b.dir, b.walk)
    BY <1>7, <1>10, <2>1 DEF BrowseStep, Remains, Walking
  <2>3. db' = r.db /\ now' = now
    BY <1>10, <2>2 DEF NextEntry
  <2>4. r.walk # NoWalk => /\ Alive(r.db, b.dir, r.walk, now)
                           /\ b.dir.shape = "Channels" => ischannel(r.db, r.walk.entry.channel)
    BY <1>0, <2>2, NextAlive
  <2>. HIDE DEF r
  <2>. QED  BY <2>1, <2>2, <2>3, <2>4 DEF Walking, Counting, Remains
<1>11. CASE Skipped
  <2>1. b.pc = "didl" /\ b'.pc = AfterEntry /\ Remains /\ b'.walk = b.walk
    BY <1>0, <1>11, SkippedMoves
  <2>2. b'.pc \in {"answer", "next"} /\ (b'.pc = "next" => ~b.meta)
    BY <2>1 DEF AfterEntry
  <2>. QED  BY <1>7, <1>11, <2>1, <2>2 DEF BrowseStep, Remains, Walking, Counting
<1>12. ASSUME BrowseStep, Answered, b.pc \in {"didl", "count"}
       PROVE  /\ b'.pc # "undefined" /\ ~Counting(b') /\ b'.pc \notin {"didl", "count"}
              /\ Walking(b') =>
                   /\ Alive(db', b'.dir, b'.walk, now')
                   /\ b'.dir.shape = "Channels" => ischannel(db', b'.walk.entry.channel)
  <2>1. /\ b'.pc = AfterEntry /\ b'.dir = b.dir /\ b'.meta = b.meta /\ b'.walk = b.walk
        /\ quiet' = quiet
    BY <1>12 DEF Answered
  <2>2. b'.pc \in {"answer", "next"} /\ (b'.pc = "next" => ~b.meta)
    BY <2>1 DEF AfterEntry
  <2>. QED  BY <1>7, <1>12, <2>1, <2>2 DEF Walking, Counting
<1>13. CASE CountFirst
  <2>. DEFINE r == PCGetDirFirstFile(db, b.entry, b.entry = Root, now)
  <2>1. /\ b.pc = "didl"
        /\ \/ Answered
           \/ /\ b'.pc = "count" /\ Remains /\ b'.walk = b.walk /\ b'.entry = b.entry
              /\ b'.inner = r.walk /\ r.walk # NoWalk
    BY <1>13, CountFirstMoves
  <2>2. db' = r.db /\ now' = now
    BY <1>13 DEF CountFirst
  <2>3. r.walk # NoWalk => Alive(r.db, b.entry, r.walk, now)
    <3>1. (b.entry = Root) \in BOOLEAN
      OBVIOUS
    <3>. QED  BY <1>0, <3>1, FirstAlive
  <2>. HIDE DEF r
  <2>4. CASE Answered
    BY <1>12, <1>13, <2>1, <2>4 DEF BrowseStep
  <2>5. CASE /\ b'.pc = "count" /\ Remains /\ b'.walk = b.walk /\ b'.entry = b.entry
             /\ b'.inner = r.walk /\ r.walk # NoWalk
    BY <1>7, <1>13, <2>1, <2>2, <2>3, <2>5 DEF BrowseStep, Remains, Walking, Counting
  <2>. QED  BY <2>1, <2>4, <2>5
<1>14. CASE CountNext
  <2>. DEFINE r == PCGetDirNextFile(db, b.entry, b.inner, now)
  <2>1. /\ b.pc = "count"
        /\ \/ b'.pc = "undefined" /\ Dangling(db, b.entry, b.inner) /\ Remains
           \/ Answered
           \/ /\ b'.pc = "count" /\ Remains /\ b'.walk = b.walk /\ b'.entry = b.entry
              /\ ~Dangling(db, b.entry, b.inner)
              /\ b'.inner = r.walk /\ r.walk # NoWalk
    BY <1>14, CountNextMoves
  <2>2. Remains => ~Dangling(db, b.entry, b.inner)
    BY <1>7, <1>14, <2>1 DEF BrowseStep, Remains, Counting
  <2>3. ~Dangling(db, b.entry, b.inner) => db' = r.db /\ now' = now
    BY <1>14 DEF CountNext
  <2>4. ~Dangling(db, b.entry, b.inner) /\ r.walk # NoWalk => Alive(r.db, b.entry, r.walk, now)
    BY <1>0, NextAlive
  <2>. HIDE DEF r
  <2>5. CASE Answered
    BY <1>12, <1>14, <2>1, <2>5 DEF BrowseStep
  <2>6. CASE /\ b'.pc = "count" /\ Remains /\ b'.walk = b.walk /\ b'.entry = b.entry
             /\ ~Dangling(db, b.entry, b.inner)
             /\ b'.inner = r.walk /\ r.walk # NoWalk
    BY <1>7, <1>14, <2>1, <2>3, <2>4, <2>6 DEF BrowseStep, Remains, Walking, Counting
  <2>. QED  BY <2>1, <2>2, <2>5, <2>6
<1>15. CASE Describe
  <2>1. /\ b.pc = "didl"
        /\ \/ Answered
           \/ Remains /\ b.entry.shape = "channel" /\ ~ischannel(db, b.entry.channel)
    BY <1>15, DescribeMoves
  <2>2. Answered
    BY <2>1 DEF Undisturbed, Remains
  <2>. QED  BY <1>12, <1>15, <2>1, <2>2 DEF BrowseStep
<1>16. ~Answer
  BY DEF Answer
<1>. QED  BY <1>1, <1>2, <1>3, <1>4, <1>5, <1>8, <1>9, <1>10, <1>11, <1>13, <1>14, <1>15, <1>16
          DEF Next, BrowseStep, Walking, Counting

(* Only a change of the lists or of the clock under a Browse can make it   *)
(* read an element that is gone: the erasing its own calls do, while they  *)
(* count children and describe items, leaves every element that a walk     *)
(* still stands at (nextEpgDay, nextEpgEvent, get_epg_data_simple).        *)
THEOREM SelfErasingIsSafe == Spec => []BreaksOnlyDisturbed
<1>1. Init => Undisturbed
  BY DEF Init, Undisturbed
<1>2. Undisturbed => BreaksOnlyDisturbed
  BY DEF Undisturbed, BreaksOnlyDisturbed
<1>. QED  BY <1>1, <1>2, UndisturbedStep, GuidedStart, GuidedStep, BrowsingStart, BrowsingStep,
             PTL DEF Spec

-----------------------------------------------------------------------------
(* A walk only goes forward.                                               *)

(* event_id tells the programmes of a channel's day apart.                 *)
UniqueIds ==
  \A p, q \in Events :
    /\ Programme[p].channel = Programme[q].channel /\ DayOf(p) = DayOf(q)
    /\ Programme[p].id = Programme[q].id
    => p = q

(* The entries the walk has left behind; after the shutdown the channels   *)
(* have no order any more.                                                 *)
Passed(list, gone, dir, w, o) ==
  \/ dir.shape = "root" /\ \E m \in 1..3 : m + 1 < w.next /\ o = Top(rootDirs[m])
  \/ /\ dir.shape \in {"Channels", "EPG"}
     /\ \E c \in Channels :
          /\ o = Object(IF dir.shape = "EPG" THEN "guide" ELSE "channel", c, 0, 0)
          /\ c # w.entry.channel /\ (~gone => Before(list, c, w.entry.channel))
  \/ /\ dir.shape = "guide"
     /\ \E n \in Nat : n < DayOf(w.next) /\ o = DayOfGuide(dir.channel, n)
  \/ /\ dir.shape = "day"
     /\ \E p \in Events : /\ Programme[p].channel = dir.channel /\ DayOf(p) = dir.day
                          /\ Programme[p].start < Programme[w.next].start
                          /\ o = EventEntry(dir, p)

(* Where the walk of the channels is, and the day the walk of a day keeps. *)
Placed(list, gone, dir, w) ==
  /\ dir.shape \in {"Channels", "EPG"} /\ ~gone =>
       /\ Holds(list, w.entry.channel)
       /\ w.next # End => Before(list, w.entry.channel, w.next)
  /\ dir.shape = "day" => DayOf(w.next) = dir.day

Behind(list, gone, r) ==
  \A i \in DOMAIN r.shown : \E o :
    /\ Canonical(o) /\ r.shown[i].id = cpId(o)
    /\ Passed(list, gone, r.dir, r.walk, o) \/ (r.pc = "next" /\ o = r.walk.entry)

NoneTwice(shown) == \A i, j \in DOMAIN shown : i < j => shown[i].id # shown[j].id

Fresh ==
  /\ NoneTwice(b.shown)
  /\ Walking(b) => Placed(db.channels, stopped, b.dir, b.walk) /\ Behind(db.channels, stopped, b)
  /\ b.pc = "open" \/ (b.meta /\ b.pc \in {"didl", "count"}) => b.shown = <<>>
  /\ b.pc \in {"open", "entry", "next"} => ~b.meta
  /\ stopped => \A c : ~ischannel(db, c)

(* Later programmes are on later days.                                     *)
LEMMA LaterDays ==
  ASSUME NEW p \in Events, NEW q \in Events, Programme[p].start <= Programme[q].start
  PROVE  DayOf(p) <= DayOf(q)
<1>1. \A x, y \in Nat, n \in Nat \ {0} : x <= y => x \div n <= y \div n
  OBVIOUS
<1>2. /\ Programme[p].start \in Nat /\ Programme[q].start \in Nat
      /\ DayLength \in Nat \ {0}
  BY Starts, GuideAssumption
<1>. QED  BY <1>1, <1>2 DEF DayOf

LEMMA BeforeFacts ==
  ASSUME NEW list \in Seq(Channels), ChannelsInOrder(list), NEW c, NEW d, Before(list, c, d)
  PROVE  /\ c # d /\ \A e : Before(list, d, e) => Before(list, c, e)
<1>1. Len(list) \in Nat /\ DOMAIN list = 1..Len(list)
  OBVIOUS
<1>2. PICK i, j \in DOMAIN list : i < j /\ list[i] = c /\ list[j] = d
  BY DEF Before
<1>3. c # d
  BY <1>2 DEF ChannelsInOrder
<1>4. ASSUME NEW e, Before(list, d, e)
      PROVE  Before(list, c, e)
  <2>1. PICK k, n \in DOMAIN list : k < n /\ list[k] = d /\ list[n] = e
    BY <1>4 DEF Before
  <2>2. k = j
    BY <1>1, <1>2, <2>1 DEF ChannelsInOrder
  <2>. QED  BY <1>1, <1>2, <2>1, <2>2 DEF Before
<1>. QED  BY <1>3, <1>4

(* What has been left behind is not what the walk is at.                   *)
LEMMA PassedIsOther ==
  ASSUME UniqueIds, NEW list, NEW gone, NEW dir, NEW w, Stood(dir, w),
         Placed(list, gone, dir, w), NEW o, Passed(list, gone, dir, w, o)
  PROVE  o # w.entry
<1>1. CASE dir.shape = "root"
  <2>1. PICK k \in 1..3 : w = RootWalk(k)
    BY <1>1 DEF Stood, rootDirs
  <2>2. PICK m \in 1..3 : m + 1 < w.next /\ o = Top(rootDirs[m])
    BY <1>1 DEF Passed
  <2>3. w.next = k + 1 /\ w.entry = Top(rootDirs[k])
    BY <2>1, RootWalkFacts
  <2>4. \A i, j \in 1..3 : i < j => rootDirs[i] # rootDirs[j]
    BY DEF rootDirs
  <2>5. rootDirs[m] # rootDirs[k]
    BY <2>2, <2>3, <2>4
  <2>6. o.shape = rootDirs[m] /\ w.entry.shape = rootDirs[k]
    BY <2>2, <2>3 DEF Top, Object
  <2>. QED  BY <2>5, <2>6
<1>2. CASE dir.shape \in {"Channels", "EPG"}
  <2>1. PICK c \in Channels :
          /\ o = Object(IF dir.shape = "EPG" THEN "guide" ELSE "channel", c, 0, 0)
          /\ c # w.entry.channel
    BY <1>2 DEF Passed
  <2>2. o.channel = c
    BY <2>1 DEF Object
  <2>. QED  BY <2>1, <2>2
<1>3. CASE dir.shape = "guide"
  <2>1. PICK n \in Nat : n < DayOf(w.next) /\ o = DayOfGuide(dir.channel, n)
    BY <1>3 DEF Passed
  <2>2. w.entry = DayOfGuide(dir.channel, DayOf(w.next)) /\ w.next \in Events
    BY <1>3 DEF Stood, DayEntry
  <2>3. DayOf(w.next) \in Nat
    BY <2>2, Days
  <2>4. o.day = n /\ w.entry.day = DayOf(w.next)
    BY <2>1, <2>2 DEF DayOfGuide, Object
  <2>. QED  BY <2>1, <2>3, <2>4
<1>4. CASE dir.shape = "day"
  <2>1. PICK p \in Events : /\ Programme[p].channel = dir.channel /\ DayOf(p) = dir.day
                            /\ Programme[p].start < Programme[w.next].start
                            /\ o = EventEntry(dir, p)
    BY <1>4 DEF Passed
  <2>2. /\ w.next \in Events /\ Programme[w.next].channel = dir.channel
        /\ w.entry = EventEntry(dir, w.next) /\ DayOf(w.next) = dir.day
    BY <1>4 DEF Stood, Placed
  <2>3. o.id = Programme[p].id /\ w.entry.id = Programme[w.next].id
    BY <2>1, <2>2 DEF EventEntry, Airing, Object
  <2>4. Programme[w.next].start \in Nat /\ Programme[p].start \in Nat
    BY <2>1, <2>2, Starts
  <2>. QED  BY <2>1, <2>2, <2>3, <2>4 DEF UniqueIds
<1>. QED  BY <1>1, <1>2, <1>3, <1>4 DEF Passed

(* The tuner and the shutdown put nothing behind in front again.           *)
LEMMA PassedStays ==
  ASSUME NEW list, NEW new, NEW gone \in BOOLEAN, NEW later \in BOOLEAN, NEW dir, NEW w,
         gone => later,
         ~later => /\ \A c, d : Before(list, c, d) => Before(new, c, d)
                   /\ \A c : Holds(list, c) => Holds(new, c)
  PROVE  /\ \A o : Passed(list, gone, dir, w, o) => Passed(new, later, dir, w, o)
         /\ Placed(list, gone, dir, w) => Placed(new, later, dir, w)
<1>1. Placed(list, gone, dir, w) => Placed(new, later, dir, w)
  BY DEF Placed
<1>2. ASSUME NEW o, Passed(list, gone, dir, w, o)
      PROVE  Passed(new, later, dir, w, o)
  BY <1>2 DEF Passed
<1>. QED  BY <1>1, <1>2

(* The next entry leaves the one before it behind.                         *)
LEMMA NextPasses ==
  ASSUME NEW dir, NEW w, dir = b.dir, w = b.walk,
         db \in Lists, Sorted(db), stopped => \A c : ~ischannel(db, c),
         Canonical(dir), now \in Nat, Stood(dir, w),
         Placed(db.channels, stopped, dir, w), ~Dangling(db, dir, w),
         NEW next, next = PCGetDirNextFile(db, dir, w, now).walk, next # NoWalk
  PROVE  /\ Placed(db.channels, stopped, dir, next)
         /\ Passed(db.channels, stopped, dir, next, w.entry)
         /\ \A o : Passed(db.channels, stopped, dir, w, o) =>
                     Passed(db.channels, stopped, dir, next, o)
<1>1. CASE dir.shape = "root"
  <2>1. PICK k \in 1..3 : w = RootWalk(k)
    BY <1>1 DEF Stood, rootDirs
  <2>2. /\ w.next = k + 1 /\ w.entry = Top(rootDirs[k])
        /\ (k + 1 \in 1..3 \/ RootWalk(k + 1) = NoWalk)
    BY <2>1, RootWalkFacts
  <2>3. next = RootWalk(w.next)
    BY <1>1, NextFileFacts
  <2>4. k + 1 \in 1..3 /\ next.next = (k + 1) + 1
    BY <2>2, <2>3, RootWalkFacts
  <2>5. k + 1 < (k + 1) + 1 /\ \A m \in 1..3 : m + 1 < k + 1 => m + 1 < (k + 1) + 1
    OBVIOUS
  <2>6. Passed(db.channels, stopped, dir, next, w.entry)
    BY <1>1, <2>2, <2>4, <2>5 DEF Passed
  <2>7. ASSUME NEW o, Passed(db.channels, stopped, dir, w, o)
        PROVE  Passed(db.channels, stopped, dir, next, o)
    <3>1. PICK m \in 1..3 : m + 1 < w.next /\ o = Top(rootDirs[m])
      BY <1>1, <2>7 DEF Passed
    <3>. QED  BY <1>1, <2>2, <2>4, <2>5, <3>1 DEF Passed
  <2>. QED  BY <1>1, <2>6, <2>7 DEF Placed
<1>2. CASE dir.shape \in {"Channels", "EPG"}
  <2>. DEFINE L == db.channels
              shape == IF dir.shape = "EPG" THEN "guide" ELSE "channel"
              k == Position(L, w.next)
  <2>1. w.next # End /\ next = ChannelWalk(L, k, shape)
    BY <1>2, NextFileFacts
  <2>2. L \in Seq(Channels) /\ ChannelsInOrder(L) /\ Len(L) \in Nat /\ DOMAIN L = 1..Len(L)
    BY DEF Lists, Sorted
  <2>3. ischannel(db, w.next) /\ ~stopped
    BY <1>2, <2>1 DEF Dangling
  <2>4. k \in DOMAIN L /\ L[k] = w.next
    <3>1. Holds(L, w.next)
      BY <2>3, Listed
    <3>. QED  BY <2>2, <3>1, PositionFacts
  <2>5. Before(L, w.entry.channel, w.next)
    BY <1>2, <2>1, <2>3 DEF Placed
  <2>6. PICK c \in Channels : w.entry = Object(shape, c, 0, 0)
    BY <1>2 DEF Stood
  <2>s. shape = IF dir.shape = "EPG" THEN "guide" ELSE "channel"
    OBVIOUS
  <2>. HIDE DEF shape, k, L
  <2>7. next = [entry |-> Object(shape, L[k], 0, 0),
                  next |-> IF k = Len(L) THEN End ELSE L[k + 1]]
    BY <2>1, <2>2, <2>4 DEF ChannelWalk
  <2>8. /\ next.entry.channel = w.next
        /\ next.next # End => Before(L, w.next, next.next)
    <3>1. next.entry = Object(shape, L[k], 0, 0)
      BY <2>7
    <3>2. next.next # End => k + 1 \in DOMAIN L /\ next.next = L[k + 1] /\ k < k + 1
      BY <2>2, <2>4, <2>7
    <3>. QED  BY <2>4, <3>1, <3>2 DEF Object, Before
  <2>9. c = w.entry.channel
    BY <2>6 DEF Object
  <2>10. Passed(L, stopped, dir, next, w.entry)
    <3>1. c # w.next /\ Before(L, c, w.next)
      BY <2>2, <2>5, <2>9, BeforeFacts
    <3>. QED  BY <1>2, <2>6, <2>8, <2>s, <3>1 DEF Passed
  <2>11. ASSUME NEW o, Passed(L, stopped, dir, w, o)
         PROVE  Passed(L, stopped, dir, next, o)
    <3>1. PICK a \in Channels : o = Object(shape, a, 0, 0) /\ Before(L, a, w.entry.channel)
      BY <1>2, <2>3, <2>11, <2>s DEF Passed
    <3>2. Before(L, a, w.next)
      BY <2>2, <2>5, <3>1, BeforeFacts
    <3>3. a # w.next
      BY <2>2, <3>2, BeforeFacts
    <3>. QED  BY <1>2, <2>8, <2>s, <3>1, <3>2, <3>3 DEF Passed
  <2>12. Placed(L, stopped, dir, next)
    <3>1. Holds(L, w.next)
      BY <2>4 DEF Holds
    <3>. QED  BY <1>2, <2>8, <3>1 DEF Placed
  <2>. QED  BY <2>10, <2>11, <2>12 DEF L
<1>3. CASE dir.shape \in {"guide", "day"}
  <2>1. /\ Stands(db, dir, now, next) /\ w.next \in Events
        /\ Programme[w.next].channel = dir.channel
        /\ w.entry = IF dir.shape = "guide" THEN DayEntry(dir.channel, w.next)
                     ELSE EventEntry(dir, w.next)
    BY <1>3, NextFileFacts DEF Stood
  <2>2. next.next \in Events /\ ischannel(db, dir.channel)
    BY <1>3, <2>1 DEF Stands
  <2>3. DayOf(w.next) \in Nat /\ DayOf(next.next) \in Nat
    BY <2>1, <2>2, Days
  <2>4. CASE dir.shape = "guide"
    <3>1. DayOf(next.next) > DayOf(w.next)
      BY <2>4, NextFileFacts
    <3>2. Passed(db.channels, stopped, dir, next, w.entry)
      BY <2>1, <2>3, <2>4, <3>1 DEF Passed, DayEntry
    <3>3. ASSUME NEW o, Passed(db.channels, stopped, dir, w, o)
          PROVE  Passed(db.channels, stopped, dir, next, o)
      <4>1. PICK n \in Nat : n < DayOf(w.next) /\ o = DayOfGuide(dir.channel, n)
        BY <2>4, <3>3 DEF Passed
      <4>2. n < DayOf(next.next)
        BY <2>3, <3>1, <4>1
      <4>. QED  BY <2>4, <4>1, <4>2 DEF Passed
    <3>. QED  BY <2>4, <3>2, <3>3 DEF Placed
  <2>5. CASE dir.shape = "day"
    <3>. DEFINE L == db.programs[dir.channel]
                at == Position(L, w.next)
    <3>1. L \in Seq(Events) /\ StartsInOrder(L)
      BY <2>2, Listed DEF Sorted
    <3>2. at # 0
      BY <2>2, <2>5 DEF Dangling
    <3>3. at \in DOMAIN L /\ L[at] = w.next
      BY <3>1, <3>2, PositionFacts
    <3>4. /\ DayOf(next.next) <= dir.day
          /\ \E k \in DOMAIN L : k > at /\ L[k] = next.next
      BY <2>5, NextFileFacts
    <3>. HIDE DEF L, at
    <3>5. PICK k \in DOMAIN L : k > at /\ L[k] = next.next
      BY <3>4
    <3>6. DOMAIN L = 1..Len(L) /\ Len(L) \in Nat
      BY <3>1
    <3>7. Programme[w.next].start < Programme[next.next].start
      BY <3>1, <3>3, <3>5, <3>6 DEF StartsInOrder
    <3>8. Programme[w.next].start \in Nat /\ Programme[next.next].start \in Nat
      BY <2>1, <2>2, Starts
    <3>9. DayOf(w.next) = dir.day
      BY <2>5 DEF Placed
    <3>10. DayOf(next.next) = dir.day
      <4>1. DayOf(w.next) <= DayOf(next.next)
        BY <2>1, <2>2, <3>7, <3>8, LaterDays
      <4>. QED  BY <2>3, <3>4, <3>9, <4>1
    <3>11. Passed(db.channels, stopped, dir, next, w.entry)
      BY <2>1, <2>5, <3>7, <3>9 DEF Passed
    <3>12. ASSUME NEW o, Passed(db.channels, stopped, dir, w, o)
           PROVE  Passed(db.channels, stopped, dir, next, o)
      <4>1. PICK p \in Events : /\ Programme[p].channel = dir.channel /\ DayOf(p) = dir.day
                                /\ Programme[p].start < Programme[w.next].start
                                /\ o = EventEntry(dir, p)
        BY <2>5, <3>12 DEF Passed
      <4>2. Programme[p].start \in Nat
        BY Starts
      <4>3. Programme[p].start < Programme[next.next].start
        BY <3>7, <3>8, <4>1, <4>2
      <4>. QED  BY <2>5, <4>1, <4>3 DEF Passed
    <3>. QED  BY <2>5, <3>10, <3>11, <3>12 DEF Placed
  <2>. QED  BY <1>3, <2>4, <2>5
<1>. QED  BY <1>1, <1>2, <1>3 DEF Stood

(* One more entry in the answer.                                           *)
LEMMA OneMore ==
  ASSUME NEW shown \in Seq(Answers), NEW x \in Answers, NoneTwice(shown),
         \A i \in DOMAIN shown : shown[i].id # x.id
  PROVE  /\ NoneTwice(Append(shown, x))
         /\ \A i \in DOMAIN Append(shown, x) :
              \/ i \in DOMAIN shown /\ Append(shown, x)[i] = shown[i]
              \/ Append(shown, x)[i] = x
<1>. DEFINE new == Append(shown, x)
            n == Len(shown)
<1>1. /\ n \in Nat /\ DOMAIN shown = 1..n /\ DOMAIN new = 1..(n + 1)
      /\ \A i \in 1..n : new[i] = shown[i]
      /\ new[n + 1] = x
  OBVIOUS
<1>. HIDE DEF new, n
<1>2. \A i \in 1..(n + 1) : i \in 1..n \/ i = n + 1
  BY <1>1
<1>3. ASSUME NEW i \in 1..(n + 1), NEW j \in 1..(n + 1), i < j
      PROVE  new[i].id # new[j].id
  <2>1. i \in 1..n
    BY <1>1, <1>3
  <2>. QED  BY <1>1, <1>2, <1>3, <2>1 DEF NoneTwice
<1>4. NoneTwice(new)
  BY <1>1, <1>3 DEF NoneTwice
<1>5. \A i \in DOMAIN new : (i \in DOMAIN shown /\ new[i] = shown[i]) \/ new[i] = x
  BY <1>1, <1>2
<1>. QED  BY <1>4, <1>5 DEF new

LEMMA FreshStart == Init => Fresh
<1>. SUFFICES ASSUME Init
              PROVE  Fresh
  OBVIOUS
<1>1. b.pc = "idle" /\ b.shown = <<>> /\ ~stopped
  BY DEF Init, Idle
<1>. QED  BY <1>1 DEF Fresh, NoneTwice, Walking

LEMMA FreshStep ==
  ASSUME UniqueIds, Guided, Browsing, Fresh, [Next]_vars
  PROVE  Fresh'
<1>0. /\ db \in Lists /\ Sorted(db) /\ now \in Nat /\ ListsType /\ stopped \in BOOLEAN
      /\ b \in BrowseType /\ Canonical(b.dir)
  BY ContentDirectoryAssumption DEF Guided, ListsType, Browsing
<1>f. /\ NoneTwice(b.shown) /\ b.shown \in Seq(Answers)
      /\ stopped => \A c : ~ischannel(db, c)
      /\ b.pc = "open" \/ (b.meta /\ b.pc \in {"didl", "count"}) => b.shown = <<>>
      /\ b.pc \in {"open", "entry", "next"} => ~b.meta
      /\ b.entry \in Entries
  BY <1>0, BrowseFields DEF Fresh
(* The steps of the others *)
<1>1. ASSUME b' = b, stopped' \in BOOLEAN, stopped => stopped',
             stopped' => \A c : ~ischannel(db', c),
             ~stopped' => /\ \A c, d : Before(db.channels, c, d) => Before(db'.channels, c, d)
                          /\ \A c : Holds(db.channels, c) => Holds(db'.channels, c)
      PROVE  Fresh'
  <2>1. Walking(b) => /\ Placed(db.channels, stopped, b.dir, b.walk)
                      /\ Behind(db.channels, stopped, b)
    BY DEF Fresh
  <2>2. ASSUME Walking(b)
        PROVE  Placed(db'.channels, stopped', b.dir, b.walk) /\ Behind(db'.channels, stopped', b)
    <3>1. /\ \A o : Passed(db.channels, stopped, b.dir, b.walk, o) =>
                      Passed(db'.channels, stopped', b.dir, b.walk, o)
          /\ Placed(db'.channels, stopped', b.dir, b.walk)
      BY <1>0, <1>1, <2>1, <2>2, PassedStays
    <3>. QED  BY <2>1, <2>2, <3>1 DEF Behind
  <2>. QED  BY <1>f, <1>1, <2>2 DEF Fresh
<1>2. ASSUME NEW c \in Channels, chandump(c)
      PROVE  Fresh'
  <2>1. /\ \A a, e : Before(db.channels, a, e) => Before(db'.channels, a, e)
        /\ \A a : ischannel(db, a) => ischannel(db', a)
    BY <1>2, Dumped
  <2>2. b' = b /\ stopped' = stopped /\ ~stopped
    BY <1>2 DEF chandump
  <2>3. \A a : Holds(db.channels, a) => Holds(db'.channels, a)
    BY <2>1 DEF ischannel, Holds
  <2>. QED  BY <1>0, <1>1, <2>1, <2>2, <2>3
<1>3. ASSUME NEW e \in Events, epg_event(e)
      PROVE  Fresh'
  <2>1. db'.channels = db.channels
    BY <1>3, Reported
  <2>2. b' = b /\ stopped' = stopped /\ ~stopped
    BY <1>3 DEF epg_event
  <2>. QED  BY <1>0, <1>1, <2>1, <2>2
<1>4. CASE Tick \/ UNCHANGED vars
  <2>1. b' = b /\ stopped' = stopped /\ db' = db
    BY <1>4 DEF Tick, lists, vars
  <2>. QED  BY <1>0, <1>f, <1>1, <2>1
<1>5. CASE destroy_lists
  <2>1. b' = b /\ stopped' = TRUE /\ db' = Empty
    BY <1>5 DEF destroy_lists, Empty
  <2>2. stopped' /\ stopped' \in BOOLEAN /\ \A c : ~ischannel(db', c)
    BY <2>1, EmptySorted
  <2>. QED  BY <1>1, <2>1, <2>2
<1>6. ASSUME NEW o \in Requested, NEW meta \in BOOLEAN, NEW w \in Windows,
             CdsBrowse(cpId(o), meta, w)
      PROVE  Fresh'
  <2>1. /\ b'.meta = meta /\ b'.shown = <<>>
        /\ b'.pc = (IF meta THEN "didl" ELSE "open")
    BY <1>6, Begun
  <2>2. db' = db /\ stopped' = stopped
    BY <1>6 DEF CdsBrowse, lists
  <2>3. ~Walking(b')
    BY <2>1 DEF Walking
  <2>. QED  BY <1>f, <2>1, <2>2, <2>3 DEF Fresh, NoneTwice, ischannel
(* The steps of the Browse *)
<1>7. ASSUME BrowseStep
      PROVE  /\ db'.channels = db.channels /\ stopped' = stopped
             /\ stopped' => \A c : ~ischannel(db', c)
  <2>1. Swept(db, db', now) /\ stopped' = stopped
    BY <1>0, <1>7, BrowseSweeps
  <2>. QED  BY <1>f, <2>1 DEF Swept, ischannel
<1>8. ASSUME BrowseStep, Remains,
             b'.pc \in {"didl", "count"} => b.pc = "didl" \/ b.pc = b'.pc \/ ~b.meta,
             b'.pc = "open" => b.pc = "open",
             b'.pc \in {"open", "entry", "next"} => ~b.meta,
             Walking(b') => /\ Placed(db.channels, stopped, b'.dir, b'.walk)
                            /\ Behind(db.channels, stopped, b')
      PROVE  Fresh'
  BY <1>f, <1>7, <1>8 DEF Fresh, Remains
<1>9. ASSUME Walking(b)
      PROVE  /\ Placed(db.channels, stopped, b.dir, b.walk) /\ Stood(b.dir, b.walk)
             /\ Behind(db.channels, stopped, b)
  BY <1>9 DEF Fresh, Browsing
<1>10. CASE OpenDir
  <2>. DEFINE r == PCGetDirFirstFile(db, b.dir, TRUE, now)
  <2>1. /\ b.pc = "open" /\ Remains /\ b'.walk = r.walk
        /\ b'.pc = IF b'.walk = NoWalk THEN "answer" ELSE "entry"
    BY <1>0, <1>10, OpenDirMoves
  <2>2. r.walk # NoWalk =>
          /\ b.dir.shape = "day" => DayOf(r.walk.next) = b.dir.day
          /\ b.dir.shape \in {"Channels", "EPG"} =>
               /\ r.walk = ChannelWalk(db.channels, 1,
                                       IF b.dir.shape = "EPG" THEN "guide" ELSE "channel")
               /\ Stands(db, b.dir, now, r.walk)
    BY <1>0, FirstFileFacts
  <2>. HIDE DEF r
  <2>3. ASSUME r.walk # NoWalk, b.dir.shape \in {"Channels", "EPG"}
        PROVE  /\ Holds(db.channels, r.walk.entry.channel)
               /\ r.walk.next # End => Before(db.channels, r.walk.entry.channel, r.walk.next)
    <3>. DEFINE shape == IF b.dir.shape = "EPG" THEN "guide" ELSE "channel"
                L == db.channels
    <3>1. L \in Seq(Channels) /\ Len(L) \in Nat /\ DOMAIN L = 1..Len(L)
      BY <1>0 DEF Lists
    <3>2. r.walk = ChannelWalk(L, 1, shape)
      BY <2>2, <2>3
    <3>. HIDE DEF shape, L
    <3>3. 1 <= Len(L)
      BY <2>3, <3>1, <3>2 DEF ChannelWalk
    <3>4. /\ r.walk.entry = Object(shape, L[1], 0, 0)
          /\ r.walk.next = IF 1 = Len(L) THEN End ELSE L[1 + 1]
      BY <3>1, <3>2, <3>3 DEF ChannelWalk
    <3>5. r.walk.entry.channel = L[1] /\ 1 \in DOMAIN L
      BY <3>1, <3>3, <3>4 DEF Object
    <3>6. r.walk.next # End => 1 + 1 \in DOMAIN L /\ r.walk.next = L[1 + 1] /\ 1 < 1 + 1
      BY <3>1, <3>3, <3>4
    <3>. QED  BY <3>5, <3>6 DEF Holds, Before, L
  <2>4. r.walk # NoWalk => Placed(db.channels, stopped, b.dir, r.walk)
    BY <2>2, <2>3 DEF Placed
  <2>5. b.shown = <<>>
    BY <1>f, <2>1
  <2>6. Behind(db.channels, stopped, b')
    BY <2>1, <2>5 DEF Behind, Remains
  <2>7. Walking(b') => r.walk # NoWalk
    BY <2>1 DEF Walking
  <2>. QED  BY <1>f, <1>8, <1>10, <2>1, <2>4, <2>6, <2>7 DEF BrowseStep, Remains
<1>11. CASE Entry
  <2>1. /\ b.pc = "entry" /\ Remains /\ b'.walk = b.walk /\ b'.pc \in {"didl", "next"}
    BY <1>0, <1>11, EntryMoves
  <2>2. ~b.meta
    BY <1>f, <2>1
  <2>3. Placed(db.channels, stopped, b.dir, b.walk) /\ Behind(db.channels, stopped, b)
    BY <1>9, <2>1 DEF Walking
  <2>4. Behind(db.channels, stopped, b')
    BY <2>1, <2>3 DEF Behind, Remains
  <2>. QED  BY <1>8, <1>11, <2>1, <2>2, <2>3, <2>4 DEF BrowseStep, Remains
<1>12. CASE NextEntry
  <2>. DEFINE next == PCGetDirNextFile(db, b.dir, b.walk, now).walk
  <2>1. /\ b.pc = "next" /\ Remains
        /\ \/ b'.pc = "undefined"
           \/ /\ ~Dangling(db, b.dir, b.walk) /\ b'.walk = next
              /\ b'.pc = IF b'.walk = NoWalk THEN "answer" ELSE "entry"
    BY <1>0, <1>12, NextEntryMoves
  <2>2. /\ Placed(db.channels, stopped, b.dir, b.walk) /\ Stood(b.dir, b.walk)
        /\ Behind(db.channels, stopped, b)
    BY <1>9, <2>1 DEF Walking
  <2>3. ASSUME Walking(b')
        PROVE  ~Dangling(db, b.dir, b.walk) /\ b'.walk = next /\ next # NoWalk
    BY <2>1, <2>3 DEF Walking
  <2>r. next = PCGetDirNextFile(db, b.dir, b.walk, now).walk
    OBVIOUS
  <2>. HIDE DEF next
  <2>4. ASSUME Walking(b')
        PROVE  /\ Placed(db.channels, stopped, b.dir, next)
               /\ Passed(db.channels, stopped, b.dir, next, b.walk.entry)
               /\ \A o : Passed(db.channels, stopped, b.dir, b.walk, o) =>
                           Passed(db.channels, stopped, b.dir, next, o)
    <3>1. ~Dangling(db, b.dir, b.walk) /\ next # NoWalk
      BY <2>3, <2>4
    <3>2. /\ db \in Lists /\ Sorted(db) /\ stopped \in BOOLEAN /\ Canonical(b.dir)
          /\ now \in Nat
      BY <1>0
    <3>3. stopped => \A c : ~ischannel(db, c)
      BY <1>f
    <3>. QED  BY <2>2, <2>r, <3>1, <3>2, <3>3, NextPasses
  <2>5. ASSUME Walking(b')
        PROVE  Behind(db.channels, stopped, b')
    <3>1. b'.shown = b.shown /\ b'.dir = b.dir /\ b'.walk = next
      BY <2>1, <2>3, <2>5 DEF Remains
    <3>. QED  BY <2>2, <2>4, <2>5, <3>1 DEF Behind
  <2>6. b'.pc \notin {"open", "next", "didl", "count"}
    BY <2>1
  <2>. QED  BY <1>f, <1>8, <1>12, <2>1, <2>3, <2>4, <2>5, <2>6 DEF BrowseStep, Remains
<1>13. CASE Skipped
  <2>1. b.pc = "didl" /\ b'.pc = AfterEntry /\ Remains /\ b'.walk = b.walk
    BY <1>0, <1>13, SkippedMoves
  <2>2. b'.pc \in {"answer", "next"} /\ (b'.pc = "next" => ~b.meta)
    BY <2>1 DEF AfterEntry
  <2>3. Walking(b') => Walking(b) /\ b'.pc = "next"
    BY <2>1, <2>2 DEF Walking
  <2>4. ASSUME Walking(b')
        PROVE  /\ Placed(db.channels, stopped, b.dir, b.walk)
               /\ Behind(db.channels, stopped, b')
    BY <1>9, <2>1, <2>3, <2>4 DEF Behind, Remains
  <2>. QED  BY <1>8, <1>13, <2>1, <2>2, <2>4 DEF BrowseStep, Remains
<1>14. ASSUME BrowseStep, Answered, b.pc \in {"didl", "count"}
       PROVE  Fresh'
  <2>1. PICK n \in Nat, e \in Nat :
          /\ b'.pc = AfterEntry /\ b'.dir = b.dir /\ b'.meta = b.meta /\ b'.entry = b.entry
          /\ b'.walk = b.walk
          /\ b'.shown = Append(b.shown, [id |-> cpId(b.entry), parent |-> parentID(b.entry),
                                         children |-> n, airing |-> e])
    BY <1>14 DEF Answered
  <2>. DEFINE x == [id |-> cpId(b.entry), parent |-> parentID(b.entry),
                    children |-> n, airing |-> e]
  <2>2. x \in Answers /\ x.id = cpId(b.entry)
    BY <1>f DEF Answers
  <2>. HIDE DEF x
  <2>3. b'.shown = Append(b.shown, x)
    BY <2>1 DEF x
  <2>4. b'.pc \in {"answer", "next"} /\ (b'.pc = "next" => ~b.meta)
    BY <2>1 DEF AfterEntry
  <2>5. ASSUME ~b.meta
        PROVE  /\ Walking(b) /\ b.entry = b.walk.entry /\ Canonical(b.entry)
               /\ \A i \in DOMAIN b.shown : \E o :
                    /\ Canonical(o) /\ b.shown[i].id = cpId(o) /\ o # b.entry
                    /\ Passed(db.channels, stopped, b.dir, b.walk, o)
    <3>1. Walking(b) /\ b.entry = b.walk.entry /\ Canonical(b.entry)
      BY <1>14, <2>5 DEF Walking, Browsing
    <3>2. /\ Placed(db.channels, stopped, b.dir, b.walk) /\ Stood(b.dir, b.walk)
          /\ Behind(db.channels, stopped, b)
      BY <1>9, <3>1
    <3>3. \A o : Passed(db.channels, stopped, b.dir, b.walk, o) => o # b.entry
      BY <3>1, <3>2, PassedIsOther
    <3>. QED  BY <1>14, <3>1, <3>2, <3>3 DEF Behind
  <2>6. \A i \in DOMAIN b.shown : b.shown[i].id # x.id
    <3>1. CASE b.meta
      <4>1. DOMAIN b.shown = {}
        BY <1>f, <1>14, <3>1
      <4>. QED  BY <4>1
    <3>2. CASE ~b.meta
      <4>. SUFFICES ASSUME NEW i \in DOMAIN b.shown
                    PROVE  b.shown[i].id # x.id
        OBVIOUS
      <4>1. PICK o : Canonical(o) /\ b.shown[i].id = cpId(o) /\ o # b.entry
        BY <2>5, <3>2
      <4>. QED  BY <2>2, <2>5, <3>2, <4>1, DistinctIDs
    <3>. QED  BY <3>1, <3>2
  <2>7. /\ NoneTwice(b'.shown)
        /\ \A i \in DOMAIN b'.shown :
             (i \in DOMAIN b.shown /\ b'.shown[i] = b.shown[i]) \/ b'.shown[i] = x
    BY <1>f, <2>2, <2>3, <2>6, OneMore
  <2>8. ASSUME Walking(b')
        PROVE  /\ Placed(db.channels, stopped, b'.dir, b'.walk)
               /\ Behind(db.channels, stopped, b')
    <3>1. b'.pc = "next" /\ ~b.meta
      BY <2>4, <2>8 DEF Walking
    <3>2. Placed(db.channels, stopped, b.dir, b.walk)
      BY <1>9, <2>5, <3>1
    <3>3. ASSUME NEW i \in DOMAIN b'.shown
          PROVE  \E o : /\ Canonical(o) /\ b'.shown[i].id = cpId(o)
                        /\ \/ Passed(db.channels, stopped, b.dir, b.walk, o)
                           \/ o = b.walk.entry
      BY <2>2, <2>5, <2>7, <3>1, <3>3
    <3>. QED  BY <2>1, <3>1, <3>2, <3>3 DEF Behind
  <2>. QED  BY <1>7, <1>14, <2>1, <2>4, <2>7, <2>8 DEF Fresh
<1>15. ASSUME BrowseStep, Remains, b.pc \in {"didl", "count"}, b'.pc = "count", b'.walk = b.walk
       PROVE  Fresh'
  <2>1. Walking(b') => Walking(b)
    BY <1>15 DEF Walking, Remains
  <2>2. ASSUME Walking(b')
        PROVE  /\ Placed(db.channels, stopped, b.dir, b.walk)
               /\ Behind(db.channels, stopped, b')
    BY <1>9, <1>15, <2>1, <2>2 DEF Behind, Remains
  <2>. QED  BY <1>8, <1>15, <2>2 DEF Remains
<1>16. ASSUME BrowseStep, Remains, b'.pc = "undefined"
       PROVE  Fresh'
  <2>1. ~Walking(b')
    BY <1>16 DEF Walking
  <2>. QED  BY <1>8, <1>16, <2>1
<1>17. CASE CountFirst
  <2>1. /\ b.pc = "didl"
        /\ Answered \/ (b'.pc = "count" /\ Remains /\ b'.walk = b.walk)
    BY <1>17, CountFirstMoves
  <2>. QED  BY <1>14, <1>15, <1>17, <2>1 DEF BrowseStep
<1>18. CASE CountNext
  <2>1. /\ b.pc = "count"
        /\ \/ b'.pc = "undefined" /\ Remains
           \/ Answered
           \/ b'.pc = "count" /\ Remains /\ b'.walk = b.walk
    BY <1>18, CountNextMoves
  <2>. QED  BY <1>14, <1>15, <1>16, <1>18, <2>1 DEF BrowseStep
<1>19. CASE Describe
  <2>1. b.pc = "didl" /\ (Answered \/ (b'.pc = "undefined" /\ Remains))
    BY <1>19, DescribeMoves
  <2>. QED  BY <1>14, <1>16, <1>19, <2>1 DEF BrowseStep
<1>20. CASE Answer
  <2>1. b'.pc = "idle" /\ b'.shown = <<>> /\ db' = db /\ stopped' = stopped
    BY <1>20 DEF Answer, Idle, lists
  <2>. QED  BY <1>f, <2>1 DEF Fresh, NoneTwice, Walking, ischannel
<1>. QED  BY <1>2, <1>3, <1>4, <1>5, <1>6, <1>10, <1>11, <1>12, <1>13, <1>17, <1>18, <1>19, <1>20
          DEF Next, BrowseStep

(* However the lists and the clock change under a Browse, its answer never *)
(* holds an entry twice: the walks only go forward in lists that stay in   *)
(* order, and different objects have different IDs (ProcessDir,            *)
(* PCGetDirNextFile, insert_sorted, insert_sorted_epg), if the broadcast   *)
(* tells the programmes of a channel's day apart.                          *)
THEOREM NothingShownTwice ==
  ASSUME UniqueIds
  PROVE  Spec => []NeverShownTwice
<1>1. Fresh => NeverShownTwice
  BY DEF Fresh, NoneTwice, NeverShownTwice
<1>2. Guided /\ Browsing /\ Fresh /\ [Next]_vars => Fresh'
  BY FreshStep
<1>. QED  BY <1>1, <1>2, FreshStart, GuidedStart, GuidedStep, BrowsingStart, BrowsingStep,
             PTL DEF Spec

-----------------------------------------------------------------------------
(* A page is exact: the listed programmes by their rank.                   *)

(* Programmes that start one after the other, counted by their start.      *)
StartApart(T) == \A p, q \in T : Programme[p].start = Programme[q].start => p = q

LEMMA UpTo ==
  ASSUME NEW T, T \subseteq Events, IsFiniteSet(T), NEW e \in T
  PROVE  LET S == {q \in T : Programme[q].start <= Programme[e].start} IN
         S \in SUBSET T /\ e \in S /\ IsFiniteSet(S) /\ Rank(T, e) = Cardinality(S)
           /\ Rank(T, e) \in Nat \ {0} /\ Cardinality(T) \in Nat /\ Rank(T, e) <= Cardinality(T)
<1>. DEFINE S == {q \in T : Programme[q].start <= Programme[e].start}
<1>1. S \in SUBSET T /\ e \in S /\ Rank(T, e) = Cardinality(S)
  <2>1. Programme[e].start <= Programme[e].start
    BY Starts
  <2>. QED  BY <2>1 DEF Rank
<1>. HIDE DEF S
<1>2. /\ IsFiniteSet(S) /\ Cardinality(S) \in Nat /\ Cardinality(T) \in Nat
      /\ Cardinality(S) <= Cardinality(T)
  BY <1>1, FS_Subset, FS_CardinalityType
<1>3. Cardinality(S) # 0
  BY <1>1, <1>2, FS_EmptySet
<1>. QED  BY <1>1, <1>2, <1>3 DEF S

LEMMA Ranks ==
  ASSUME NEW T, T \subseteq Events, IsFiniteSet(T), StartApart(T)
  PROVE  /\ Cardinality(T) \in Nat
         /\ \A e \in T : /\ Rank(T, e) \in 1..Cardinality(T)
                         /\ ByStart(T)[Rank(T, e)] = e
         /\ DOMAIN ByStart(T) = 1..Cardinality(T)
<1>1. Cardinality(T) \in Nat
  BY FS_CardinalityType
<1>2. ASSUME NEW e \in T
      PROVE  Rank(T, e) \in 1..Cardinality(T)
  <2>1. Rank(T, e) \in Nat \ {0} /\ Rank(T, e) <= Cardinality(T)
    BY UpTo
  <2>. QED  BY <1>1, <2>1
<1>3. ASSUME NEW e \in T, NEW f \in T, Rank(T, e) = Rank(T, f),
             Programme[e].start <= Programme[f].start
      PROVE  e = f
  <2>. DEFINE S == {q \in T : Programme[q].start <= Programme[e].start}
              U == {q \in T : Programme[q].start <= Programme[f].start}
  <2>1. /\ IsFiniteSet(U) /\ f \in U /\ Rank(T, e) = Cardinality(S) /\ Rank(T, f) = Cardinality(U)
    BY UpTo
  <2>2. S \in SUBSET U
    <3>1. \A q \in T : Programme[q].start \in Nat
      BY Starts
    <3>. QED  BY <1>3, <3>1
  <2>. HIDE DEF S, U
  <2>3. S = U
    BY <1>3, <2>1, <2>2, FS_Subset
  <2>4. Programme[f].start <= Programme[e].start
    BY <2>1, <2>3 DEF S
  <2>5. Programme[f].start \in Nat /\ Programme[e].start \in Nat
    BY Starts
  <2>6. Programme[f].start = Programme[e].start
    BY <1>3, <2>4, <2>5
  <2>. QED  BY <2>6 DEF StartApart
<1>4. \A e, f \in T : Rank(T, e) = Rank(T, f) => e = f
  <2>1. \A e, f \in T : \/ Programme[e].start <= Programme[f].start
                        \/ Programme[f].start <= Programme[e].start
    BY Starts
  <2>. QED  BY <1>3, <2>1
<1>5. ASSUME NEW e \in T
      PROVE  ByStart(T)[Rank(T, e)] = e
  <2>1. ByStart(T)[Rank(T, e)] = CHOOSE f \in T : Rank(T, f) = Rank(T, e)
    BY <1>2 DEF ByStart
  <2>. QED  BY <1>4, <2>1
<1>. QED  BY <1>1, <1>2, <1>5 DEF ByStart

LEMMA FirstRank ==
  ASSUME NEW T, T \subseteq Events, IsFiniteSet(T), StartApart(T), NEW e \in T,
         \A q \in T : Programme[e].start <= Programme[q].start
  PROVE  Rank(T, e) = 1
<1>1. ASSUME NEW q \in T, Programme[q].start <= Programme[e].start
      PROVE  q = e
  <2>1. Programme[q].start \in Nat /\ Programme[e].start \in Nat
    BY Starts
  <2>2. Programme[q].start = Programme[e].start
    BY <1>1, <2>1
  <2>. QED  BY <2>2 DEF StartApart
<1>. DEFINE S == {q \in T : Programme[q].start <= Programme[e].start}
<1>2. e \in S /\ Rank(T, e) = Cardinality(S)
  BY UpTo
<1>3. S = {e}
  BY <1>1, <1>2
<1>. QED  BY <1>2, <1>3, FS_Singleton

LEMMA NextRank ==
  ASSUME NEW T, T \subseteq Events, IsFiniteSet(T), StartApart(T), NEW e \in T, NEW f \in T,
         Programme[e].start < Programme[f].start,
         \A q \in T : Programme[q].start > Programme[e].start =>
                        Programme[f].start <= Programme[q].start
  PROVE  Rank(T, f) = Rank(T, e) + 1
<1>. DEFINE S == {q \in T : Programme[q].start <= Programme[e].start}
            U == {q \in T : Programme[q].start <= Programme[f].start}
<1>1. /\ IsFiniteSet(S) /\ Rank(T, e) = Cardinality(S) /\ Rank(T, f) = Cardinality(U)
  BY UpTo
<1>2. \A q \in T : Programme[q].start \in Nat
  BY Starts
<1>3. ASSUME NEW q \in T, Programme[q].start <= Programme[f].start,
             ~(Programme[q].start <= Programme[e].start)
      PROVE  q = f
  <2>1. Programme[q].start > Programme[e].start
    BY <1>2, <1>3
  <2>2. Programme[q].start = Programme[f].start
    BY <1>2, <1>3, <2>1
  <2>. QED  BY <2>2 DEF StartApart
<1>4. f \notin S /\ U = S \cup {f}
  BY <1>2, <1>3
<1>. HIDE DEF S, U
<1>. QED  BY <1>1, <1>4, FS_AddElement

LEMMA LastRank ==
  ASSUME NEW T, T \subseteq Events, IsFiniteSet(T), NEW e \in T,
         \A q \in T : ~(Programme[q].start > Programme[e].start)
  PROVE  Rank(T, e) = Cardinality(T)
<1>1. \A q \in T : Programme[q].start \in Nat
  BY Starts
<1>2. {q \in T : Programme[q].start <= Programme[e].start} = T
  BY <1>1
<1>. QED  BY <1>2 DEF Rank

(* What the loop of the walks finds is the first it seeks.                 *)
LEMMA SweepFindsFirst ==
  ASSUME NEW list \in Seq(Events), NEW from \in Nat \ {0}, NEW t \in Nat, NEW sought
  PROVE  LET r == Sweep(list, from, t, sought)
             Sought(i) == i \in DOMAIN list /\ i >= from /\ ~Over(list[i], t) /\ list[i] \in sought
         IN \/ r.at = NoEvent /\ \A i : ~Sought(i)
            \/ \E h : /\ Sought(h) /\ r.at = list[h] /\ r.at \in Events
                      /\ \A i : Sought(i) => h <= i
<1>. DEFINE H == {i \in from..Len(list) : ~Over(list[i], t) /\ list[i] \in sought}
            hit == First(H)
            at == Sweep(list, from, t, sought).at
            Sought(i) == i \in DOMAIN list /\ i >= from /\ ~Over(list[i], t) /\ list[i] \in sought
<1>1. at = IF hit = 0 THEN NoEvent ELSE list[hit]
  BY DEF Sweep, SelectInSubSeq, First
<1>2. Len(list) \in Nat /\ DOMAIN list = 1..Len(list) /\ \A i \in DOMAIN list : list[i] \in Events
  BY ElementOfSeq
<1>3. H \subseteq Nat \ {0}
  BY <1>2
<1>4. \A i : i \in H <=> Sought(i)
  BY <1>2
<1>. HIDE DEF H, at
<1>5. \/ hit = 0 /\ H = {}
      \/ hit \in H /\ hit # 0 /\ \A i \in H : hit <= i
  BY <1>3, FirstFacts
<1>. QED  BY <1>1, <1>2, <1>4, <1>5 DEF at

LEMMA SweepFindsEarliest ==
  ASSUME NEW list \in Seq(Events), StartsInOrder(list), NEW t \in Nat, NEW sought
  PROVE  /\ Earliest({q \in Events : Holds(list, q) /\ ~Over(q, t) /\ q \in sought},
                     Sweep(list, 1, t, sought).at)
         /\ \A e \in Events : Holds(list, e) =>
              Earliest({q \in Events : /\ Holds(list, q) /\ ~Over(q, t) /\ q \in sought
                                       /\ Programme[q].start > Programme[e].start},
                       Sweep(list, Position(list, e) + 1, t, sought).at)
<1>1. Len(list) \in Nat /\ DOMAIN list = 1..Len(list) /\ \A i \in DOMAIN list : list[i] \in Events
  BY ElementOfSeq
<1>2. \A i, j \in DOMAIN list : i <= j => Programme[list[i]].start <= Programme[list[j]].start
  <2>1. \A i, j \in DOMAIN list : i <= j => i = j \/ i < j
    BY <1>1
  <2>2. \A i \in DOMAIN list : Programme[list[i]].start \in Nat
    BY <1>1, Starts
  <2>. QED  BY <2>1, <2>2 DEF StartsInOrder
<1>3. ASSUME NEW from \in Nat \ {0}, NEW late,
             \A i \in DOMAIN list : i >= from <=> list[i] \in late
      PROVE  Earliest({q \in Events : Holds(list, q) /\ ~Over(q, t) /\ q \in sought /\ q \in late},
                      Sweep(list, from, t, sought).at)
  <2>. DEFINE at == Sweep(list, from, t, sought).at
              T == {q \in Events : Holds(list, q) /\ ~Over(q, t) /\ q \in sought /\ q \in late}
              Sought(i) == /\ i \in DOMAIN list /\ i >= from /\ ~Over(list[i], t)
                           /\ list[i] \in sought
  <2>1. \/ at = NoEvent /\ \A i : ~Sought(i)
        \/ \E h : Sought(h) /\ at = list[h] /\ at \in Events /\ \A i : Sought(i) => h <= i
    BY SweepFindsFirst
  <2>2. \A q : q \in T <=> \E i : Sought(i) /\ list[i] = q
    BY <1>1, <1>3 DEF Holds
  <2>3. \A i : Sought(i) => i \in DOMAIN list
    OBVIOUS
  <2>. SUFFICES Earliest(T, at)
    OBVIOUS
  <2>. HIDE DEF at, T, Sought
  <2>4. CASE at = NoEvent /\ \A i : ~Sought(i)
    BY <2>2, <2>4 DEF Earliest
  <2>5. CASE \E h : Sought(h) /\ at = list[h] /\ at \in Events /\ \A i : Sought(i) => h <= i
    <3>1. PICK h : Sought(h) /\ at = list[h] /\ \A i : Sought(i) => h <= i
      BY <2>5
    <3>2. at \in T
      BY <2>2, <3>1
    <3>3. ASSUME NEW q \in T
          PROVE  Programme[at].start <= Programme[q].start
      <4>1. PICK i : Sought(i) /\ list[i] = q
        BY <2>2
      <4>. QED  BY <1>2, <2>3, <3>1, <4>1
    <3>. QED  BY <3>2, <3>3 DEF Earliest
  <2>. QED  BY <2>1, <2>4, <2>5
<1>4. Earliest({q \in Events : Holds(list, q) /\ ~Over(q, t) /\ q \in sought},
               Sweep(list, 1, t, sought).at)
  <2>1. \A i \in DOMAIN list : i >= 1 <=> list[i] \in Events
    BY <1>1
  <2>2. 1 \in Nat \ {0}
    OBVIOUS
  <2>3. Earliest({q \in Events : Holds(list, q) /\ ~Over(q, t) /\ q \in sought /\ q \in Events},
                 Sweep(list, 1, t, sought).at)
    BY <1>3, <2>1, <2>2
  <2>4. {q \in Events : Holds(list, q) /\ ~Over(q, t) /\ q \in sought /\ q \in Events}
          = {q \in Events : Holds(list, q) /\ ~Over(q, t) /\ q \in sought}
    OBVIOUS
  <2>. QED  BY <2>3, <2>4, Zenon
<1>5. ASSUME NEW e \in Events, Holds(list, e)
      PROVE  Earliest({q \in Events : /\ Holds(list, q) /\ ~Over(q, t) /\ q \in sought
                                      /\ Programme[q].start > Programme[e].start},
                      Sweep(list, Position(list, e) + 1, t, sought).at)
  <2>. DEFINE k == Position(list, e)
              late == {q \in Events : Programme[q].start > Programme[e].start}
              T == {q \in Events : Holds(list, q) /\ ~Over(q, t) /\ q \in sought /\ q \in late}
              U == {q \in Events : /\ Holds(list, q) /\ ~Over(q, t) /\ q \in sought
                                   /\ Programme[q].start > Programme[e].start}
  <2>1. k \in DOMAIN list /\ list[k] = e
    BY <1>5, PositionFacts
  <2>2. T = U
    OBVIOUS
  <2>3. ASSUME NEW i \in DOMAIN list
        PROVE  i >= k + 1 <=> list[i] \in late
    <3>1. list[i] \in Events /\ Programme[list[i]].start \in Nat /\ Programme[e].start \in Nat
      BY <1>1, Starts
    <3>2. CASE i >= k + 1
      <4>1. k < i
        BY <1>1, <2>1, <3>2
      <4>2. Programme[e].start < Programme[list[i]].start
        BY <2>1, <4>1 DEF StartsInOrder
      <4>. QED  BY <3>1, <3>2, <4>2
    <3>3. CASE ~(i >= k + 1)
      <4>1. i <= k
        BY <1>1, <2>1, <3>3
      <4>2. Programme[list[i]].start <= Programme[e].start
        BY <1>2, <2>1, <4>1
      <4>. QED  BY <3>1, <3>3, <4>2
    <3>. QED  BY <3>2, <3>3
  <2>4. k + 1 \in Nat \ {0}
    BY <1>1, <2>1
  <2>. HIDE DEF k, late, U
  <2>5. Earliest(T, Sweep(list, k + 1, t, sought).at)
    BY <1>3, <2>3, <2>4
  <2>. HIDE DEF T
  <2>6. Earliest(U, Sweep(list, k + 1, t, sought).at)
    BY <2>2, <2>5
  <2>. QED  BY <2>6 DEF k, U
<1>. QED  BY <1>4, <1>5

-----------------------------------------------------------------------------
(* The programmes that are on or to come, and what a directory lists.      *)

LEMMA LiveFacts ==
  ASSUME Guided, NEW c \in Channels
  PROVE  /\ \A e : e \in Live(c) <=> e \in Events /\ Holds(db.programs[c], e) /\ ~Over(e, now)
         /\ Live(c) \subseteq Events /\ IsFiniteSet(Live(c)) /\ StartApart(Live(c))
<1>. DEFINE list == db.programs[c]
            R == {list[i] : i \in DOMAIN list}
<1>1. \A e : e \in Live(c) <=> e \in Events /\ Holds(list, e) /\ ~Over(e, now)
  BY DEF Live, Holds
<1>2. /\ list \in Seq(Events) /\ Len(list) \in Nat /\ DOMAIN list = 1..Len(list)
      /\ StartsInOrder(list) /\ \A i \in DOMAIN list : list[i] \in Events
  <2>1. list \in Seq(Events) /\ StartsInOrder(list)
    BY DEF Guided, ListsType, Lists, Sorted
  <2>. HIDE DEF list
  <2>. QED  BY <2>1, ElementOfSeq
<1>. HIDE DEF list
<1>3. IsFiniteSet(R)
  <2>1. list \in Surjection(1..Len(list), R)
    <3>1. list \in [1..Len(list) -> R]
      BY <1>2
    <3>. QED  BY <1>2, <3>1 DEF Surjection
  <2>2. IsFiniteSet(1..Len(list))
    BY <1>2, FS_Interval
  <2>. HIDE DEF R
  <2>. QED  BY <2>1, <2>2, FS_Surjection
<1>4. Live(c) \in SUBSET R
  BY <1>1 DEF Holds
<1>5. IsFiniteSet(Live(c))
  BY <1>3, <1>4, FS_Subset
<1>6. ASSUME NEW p \in Live(c), NEW q \in Live(c), Programme[p].start = Programme[q].start
      PROVE  p = q
  <2>1. PICK i \in DOMAIN list : list[i] = p
    BY <1>1 DEF Holds
  <2>2. PICK j \in DOMAIN list : list[j] = q
    BY <1>1 DEF Holds
  <2>3. i = j \/ i < j \/ j < i
    BY <1>2
  <2>4. Programme[p].start \in Nat /\ Programme[q].start \in Nat
    BY <1>2, <2>1, <2>2, Starts
  <2>5. ~(i < j) /\ ~(j < i)
    BY <1>2, <1>6, <2>1, <2>2, <2>4 DEF StartsInOrder
  <2>. QED  BY <2>1, <2>2, <2>3, <2>5
<1>. QED  BY <1>1, <1>5, <1>6 DEF StartApart, list

LEMMA ProgrammesFacts ==
  ASSUME Guided, NEW dir, dir.channel \in Channels
  PROVE  /\ Programmes(dir) \subseteq Live(dir.channel) /\ Programmes(dir) \subseteq Events
         /\ IsFiniteSet(Programmes(dir)) /\ StartApart(Programmes(dir))
<1>1. Programmes(dir) \in SUBSET Live(dir.channel)
  BY DEF Programmes
<1>2. /\ Live(dir.channel) \subseteq Events /\ IsFiniteSet(Live(dir.channel))
      /\ StartApart(Live(dir.channel))
  BY LiveFacts
<1>. QED  BY <1>1, <1>2, FS_Subset DEF StartApart

(* What a directory lists, by its shape.                                   *)
LEMMA ListingFacts ==
  ASSUME Guided, NEW dir, Canonical(dir), PCGetFileDirType(db, dir) = 2
  PROVE  /\ dir.shape \in {"root", "Channels", "EPG", "guide", "day"}
         /\ dir.shape = "root" =>
              dir = Root /\ Listing(dir) = <<Top("Channels"), Top("EPG")>>
         /\ dir.shape \in {"Channels", "EPG"} =>
              Listing(dir) = [i \in 1..Len(db.channels) |->
                                Object(IF dir.shape = "EPG" THEN "guide" ELSE "channel",
                                       db.channels[i], 0, 0)]
         /\ dir.shape \in {"guide", "day"} =>
              /\ ischannel(db, dir.channel) /\ dir.channel \in Channels
              /\ Listing(dir) = [n \in 1..Cardinality(Programmes(dir)) |->
                                   IF dir.shape = "guide"
                                   THEN DayEntry(dir.channel, ByStart(Programmes(dir))[n])
                                   ELSE EventEntry(dir, ByStart(Programmes(dir))[n])]
<1>0. db \in Lists /\ db.channels \in Seq(Channels) /\ DOMAIN db.channels = 1..Len(db.channels)
  BY DEF Guided, ListsType, Lists
<1>1. dir.shape \in {"root", "Channels", "EPG", "guide", "day"}
  BY DEF PCGetFileDirType
<1>2. Root.shape = "root"
  BY CanonicalEntries
<1>3. ASSUME dir.shape = "root"
      PROVE  dir = Root /\ Listing(dir) = <<Top("Channels"), Top("EPG")>>
  <2>1. Path(dir) = <<>> /\ PathObject(<<>>) = Root
    BY <1>3 DEF Path, PathObject
  <2>2. dir = Root
    BY <2>1 DEF Canonical
  <2>. QED  BY <1>2, <2>2 DEF Listing
<1>4. ASSUME dir.shape = "Channels"
      PROVE  Listing(dir) = [i \in 1..Len(db.channels) |-> Object("channel", db.channels[i], 0, 0)]
  <2>1. dir # Root
    BY <1>2, <1>4
  <2>2. Listing(dir) = [i \in DOMAIN db.channels |-> ChannelItem(db.channels[i])]
    BY <1>4, <2>1, Zenon DEF Listing
  <2>. QED  BY <1>0, <2>2 DEF ChannelItem
<1>5. ASSUME dir.shape = "EPG"
      PROVE  Listing(dir) = [i \in 1..Len(db.channels) |-> Object("guide", db.channels[i], 0, 0)]
  <2>1. dir # Root
    BY <1>2, <1>5
  <2>2. Listing(dir) = [i \in DOMAIN db.channels |-> GuideOf(db.channels[i])]
    BY <1>5, <2>1 DEF Listing
  <2>. QED  BY <1>0, <2>2 DEF GuideOf
<1>6. ASSUME dir.shape \in {"guide", "day"}
      PROVE  /\ ischannel(db, dir.channel) /\ dir.channel \in Channels
             /\ Listing(dir) = [n \in 1..Cardinality(Programmes(dir)) |->
                                   IF dir.shape = "guide"
                                   THEN DayEntry(dir.channel, ByStart(Programmes(dir))[n])
                                   ELSE EventEntry(dir, ByStart(Programmes(dir))[n])]
  <2>. DEFINE s == ByStart(Programmes(dir))
  <2>1. ischannel(db, dir.channel)
    BY <1>6 DEF PCGetFileDirType
  <2>2. dir # Root
    BY <1>2, <1>6
  <2>3. DOMAIN s = 1..Cardinality(Programmes(dir))
    BY DEF ByStart
  <2>4. Listing(dir) = IF dir.shape = "guide"
                       THEN [n \in DOMAIN s |-> DayEntry(dir.channel, s[n])]
                       ELSE [n \in DOMAIN s |-> EventEntry(dir, s[n])]
    BY <1>6, <2>2 DEF Listing
  <2>. HIDE DEF s
  <2>5. Listing(dir) = [n \in 1..Cardinality(Programmes(dir)) |->
                          IF dir.shape = "guide" THEN DayEntry(dir.channel, s[n])
                          ELSE EventEntry(dir, s[n])]
    BY <2>3, <2>4
  <2>. QED  BY <1>0, <2>1, <2>5, Listed DEF s
<1>. QED  BY <1>1, <1>3, <1>4, <1>5, <1>6

(* The walk is at the k-th entry of its directory.                         *)
Reached(dir, w, k) ==
  \/ dir.shape = "root" /\ k \in 1..3 /\ w = RootWalk(k)
  \/ /\ dir.shape \in {"Channels", "EPG"} /\ k \in 1..Len(db.channels)
     /\ w = ChannelWalk(db.channels, k, IF dir.shape = "EPG" THEN "guide" ELSE "channel")
  \/ /\ dir.shape \in {"guide", "day"}
     /\ w.next \in Programmes(dir) /\ k = Rank(Programmes(dir), w.next)
     /\ w.entry = IF dir.shape = "guide" THEN DayEntry(dir.channel, w.next)
                  ELSE EventEntry(dir, w.next)

(* ./VOD is walked over, and not listed.                                   *)
Files(dir) == IF dir.shape = "root" THEN 3 ELSE Len(Listing(dir))

LEMMA EarliestFacts ==
  ASSUME NEW T, T \subseteq Events, NEW e, Earliest(T, e)
  PROVE  IF e = NoEvent THEN T = {} ELSE e \in T /\ \A q \in T : Programme[e].start <= Programme[q].start
BY GuideAssumption DEF Earliest, NoEvent

(* The walk of a directory of the guide that finds a programme.            *)
LEMMA EpgWalkAt ==
  ASSUME NEW dir, dir.shape \in {"guide", "day"}, NEW found
  PROVE  LET r == EpgWalk(db, dir, found).walk IN
         IF found.at = NoEvent THEN r = NoWalk
         ELSE /\ r # NoWalk /\ r.next = found.at
              /\ r.entry = IF dir.shape = "guide" THEN DayEntry(dir.channel, found.at)
                           ELSE EventEntry(dir, found.at)
<1>. DEFINE en == IF dir.shape = "guide" THEN DayEntry(dir.channel, found.at)
                  ELSE EventEntry(dir, found.at)
            r == EpgWalk(db, dir, found).walk
<1>1. r = IF found.at = NoEvent THEN NoWalk ELSE [entry |-> en, next |-> found.at]
  BY DEF EpgWalk, WithLists
<1>2. en.shape \in {"day", "event"}
  BY DEF DayEntry, EventEntry, DayOfGuide, Airing, Object
<1>3. NoWalk.entry.shape = "none"
  BY DEF NoWalk, Top, Object
<1>. HIDE DEF en, r
<1>4. CASE found.at = NoEvent
  BY <1>1, <1>4 DEF r
<1>5. CASE found.at # NoEvent
  <2>1. r = [entry |-> en, next |-> found.at]
    BY <1>1, <1>5
  <2>2. r.entry = en /\ r.next = found.at
    BY <2>1
  <2>3. r # NoWalk
    BY <1>2, <1>3, <2>2
  <2>. QED  BY <1>5, <2>2, <2>3 DEF r, en
<1>. QED  BY <1>4, <1>5

LEMMA FirstOfGuide ==
  ASSUME Guided, NEW dir, dir.shape \in {"guide", "day"}, dir.channel \in Channels,
         NEW found, Earliest(Programmes(dir), found.at)
  PROVE  LET r == EpgWalk(db, dir, found).walk IN
         IF r = NoWalk THEN Programmes(dir) = {} ELSE Reached(dir, r, 1)
<1>. DEFINE r == EpgWalk(db, dir, found).walk
            T == Programmes(dir)
<1>1. T \subseteq Events /\ IsFiniteSet(T) /\ StartApart(T)
  BY ProgrammesFacts
<1>2. /\ found.at = NoEvent => r = NoWalk
      /\ found.at # NoEvent =>
              /\ r # NoWalk /\ r.next = found.at
              /\ r.entry = IF dir.shape = "guide" THEN DayEntry(dir.channel, found.at)
                           ELSE EventEntry(dir, found.at)
  BY EpgWalkAt
<1>. HIDE DEF r
<1>3. /\ found.at = NoEvent => T = {}
      /\ found.at # NoEvent => found.at \in T /\ \A q \in T : Programme[found.at].start <= Programme[q].start
  BY <1>1, EarliestFacts
<1>4. found.at # NoEvent => Rank(T, found.at) = 1
  BY <1>1, <1>3, FirstRank
<1>. QED  BY <1>2, <1>3, <1>4 DEF Reached, r

LEMMA NextOfGuide ==
  ASSUME Guided, NEW dir, dir.shape \in {"guide", "day"}, dir.channel \in Channels,
         NEW w, NEW k \in Nat, Reached(dir, w, k), NEW found, NEW later, Earliest(later, found.at),
         \A q : q \in later <=> q \in Programmes(dir) /\ Programme[q].start > Programme[w.next].start
  PROVE  LET r == EpgWalk(db, dir, found).walk IN
         IF r = NoWalk THEN k = Cardinality(Programmes(dir)) ELSE Reached(dir, r, k + 1)
<1>. DEFINE r == EpgWalk(db, dir, found).walk
            T == Programmes(dir)
<1>1. T \subseteq Events /\ IsFiniteSet(T) /\ StartApart(T)
  BY ProgrammesFacts
<1>2. /\ found.at = NoEvent => r = NoWalk
      /\ found.at # NoEvent =>
              /\ r # NoWalk /\ r.next = found.at
              /\ r.entry = IF dir.shape = "guide" THEN DayEntry(dir.channel, found.at)
                           ELSE EventEntry(dir, found.at)
  BY EpgWalkAt
<1>. HIDE DEF r
<1>3. w.next \in T /\ k = Rank(T, w.next)
  BY DEF Reached
<1>. HIDE DEF T
<1>4. /\ found.at = NoEvent => later = {}
      /\ found.at # NoEvent =>
           found.at \in later /\ \A q \in later : Programme[found.at].start <= Programme[q].start
  <2>1. later \subseteq Events
    BY <1>1 DEF T
  <2>. QED  BY <2>1, EarliestFacts
<1>5. found.at = NoEvent => k = Cardinality(T)
  BY <1>1, <1>3, <1>4, LastRank DEF T
<1>6. found.at # NoEvent => found.at \in T /\ Rank(T, found.at) = k + 1
  <2>1. ASSUME found.at # NoEvent
        PROVE  /\ found.at \in T /\ Programme[w.next].start < Programme[found.at].start
               /\ \A q \in T : Programme[q].start > Programme[w.next].start =>
                                 Programme[found.at].start <= Programme[q].start
    <3>1. Programme[found.at].start \in Nat /\ Programme[w.next].start \in Nat
      BY <1>1, <1>3, <1>4, <2>1, Starts DEF T
    <3>. QED  BY <1>4, <2>1, <3>1 DEF T
  <2>. QED  BY <1>1, <1>3, <2>1, NextRank
<1>. QED  BY <1>2, <1>5, <1>6 DEF Reached, r, T

-----------------------------------------------------------------------------
(* The walks of a guide and of a day find the programmes one by one, if    *)
(* the first walk of a guide finds none that is over to step across.       *)

NothingOver == \A c \in Channels : \A i \in DOMAIN db.programs[c] : ~Over(db.programs[c][i], now)

LEMMA FirstDay ==
  ASSUME Guided, NothingOver, NEW dir, dir.shape = "guide", dir.channel \in Channels
  PROVE  Earliest(Programmes(dir), firstEpgDay(db.programs[dir.channel], now).at)
<1>. DEFINE list == db.programs[dir.channel]
            at == firstEpgDay(list, now).at
            T == Programmes(dir)
            live == Live(dir.channel)
<1>1. /\ list \in Seq(Events) /\ Len(list) \in Nat /\ DOMAIN list = 1..Len(list)
      /\ StartsInOrder(list) /\ now \in Nat /\ \A i \in DOMAIN list : list[i] \in Events
  <2>1. list \in Seq(Events) /\ StartsInOrder(list) /\ now \in Nat
    BY ContentDirectoryAssumption DEF Guided, ListsType, Lists, Sorted
  <2>. HIDE DEF list
  <2>. QED  BY <2>1, ElementOfSeq
<1>2. \A e : e \in live <=> e \in Events /\ Holds(list, e) /\ ~Over(e, now)
  BY LiveFacts
<1>3. \A e : e \in T <=> /\ e \in live
                         /\ \E q \in live : Programme[q].start <= now
                         /\ \A q \in live : DayOf(q) = DayOf(e) => Programme[e].start <= Programme[q].start
  BY DEF Programmes
<1>4. Finds(list, 1, now, Events, at) /\ (at # NoEvent => Programme[at].start <= now)
  <2>. HIDE DEF list
  <2>. QED  BY <1>1, FirstDayFacts
<1>5. \A i \in DOMAIN list : ~Over(list[i], now)
  BY DEF NothingOver
<1>6. \A e \in live : Programme[e].start \in Nat
  BY <1>2, Starts
<1>. HIDE DEF list, T, live
<1>7. CASE \E q \in live : Programme[q].start <= now
  <2>. DEFINE w == [list |-> list, i |-> 1, t |-> now]
              e == list[1]
  <2>1. PICK q \in live : Programme[q].start <= now
    BY <1>7
  <2>2. PICK i \in DOMAIN list : list[i] = q
    BY <1>2 DEF Holds
  <2>3. 1 \in DOMAIN list /\ Len(list) >= 1 /\ (1 = i \/ 1 < i)
    BY <1>1, <2>2
  <2>4. ASSUME NEW p \in live
        PROVE  Programme[e].start <= Programme[p].start
    <3>1. PICK j \in DOMAIN list : list[j] = p
      BY <1>2 DEF Holds
    <3>2. j = 1 \/ 1 < j
      BY <1>1
    <3>3. Programme[e].start \in Nat /\ Programme[p].start \in Nat
      BY <1>1, <2>3, <3>1, Starts
    <3>. QED  BY <1>1, <2>3, <3>1, <3>2, <3>3 DEF StartsInOrder
  <2>5. e \in live /\ Programme[e].start <= now
    <3>1. e \in live
      BY <1>1, <1>2, <1>5, <2>3 DEF Holds
    <3>. QED  BY <1>1, <1>6, <2>1, <2>4, <3>1
  <2>6. e \in T /\ \A p \in T : Programme[e].start <= Programme[p].start
    BY <1>3, <2>4, <2>5
  <2>7. w \in DayWalks /\ w.i = 1 /\ w.list = list /\ w.t = now
    BY <1>1 DEF DayWalks
  <2>. HIDE DEF w
  <2>8. OnNow(w) /\ ~(w.i > Len(w.list))
    BY <1>1, <1>2, <2>3, <2>5, <2>7 DEF OnNow
  <2>9. at = e
    <3>1. FirstDayFrom[w] = [list |-> list, at |-> e]
      BY <2>7, <2>8, FirstDayUnfolds
    <3>. QED  BY <3>1 DEF firstEpgDay, w
  <2>. QED  BY <2>6, <2>9 DEF Earliest, T, list
<1>8. CASE ~\E q \in live : Programme[q].start <= now
  <2>1. T = {}
    BY <1>3, <1>8
  <2>2. at = NoEvent
    BY <1>2, <1>4, <1>8 DEF Finds, Holds
  <2>. QED  BY <2>1, <2>2 DEF Earliest, T, list
<1>. QED  BY <1>7, <1>8

LEMMA FirstOfDay ==
  ASSUME Guided, NEW dir, dir.shape = "day", dir.channel \in Channels
  PROVE  Earliest(Programmes(dir), firstEpgEvent(db.programs[dir.channel], dir.day, now).at)
<1>. DEFINE list == db.programs[dir.channel]
            sought == {q \in Events : DayOf(q) = dir.day}
            T == {q \in Events : Holds(list, q) /\ ~Over(q, now) /\ q \in sought}
<1>1. list \in Seq(Events) /\ StartsInOrder(list) /\ now \in Nat
  BY ContentDirectoryAssumption DEF Guided, ListsType, Lists, Sorted
<1>2. Programmes(dir) = {e \in Live(dir.channel) : DayOf(e) = dir.day}
  BY DEF Programmes
<1>3. \A e : e \in Live(dir.channel) <=> e \in Events /\ Holds(list, e) /\ ~Over(e, now)
  BY LiveFacts
<1>4. Programmes(dir) = T
  BY <1>2, <1>3
<1>. HIDE DEF list
<1>5. Earliest(T, Sweep(list, 1, now, sought).at)
  <2>. HIDE DEF sought
  <2>. QED  BY <1>1, SweepFindsEarliest
<1>. HIDE DEF T
<1>6. firstEpgEvent(list, dir.day, now) = Sweep(list, 1, now, sought)
  BY DEF firstEpgEvent
<1>. QED  BY <1>4, <1>5, <1>6 DEF list

(* The next day begins with the first programme on a later day.            *)
LEMMA NextDay ==
  ASSUME Guided, NEW dir, dir.shape = "guide", dir.channel \in Channels, NEW e \in Programmes(dir)
  PROVE  Earliest({q \in Programmes(dir) : Programme[q].start > Programme[e].start},
                  nextEpgDay(db.programs[dir.channel], e, now).at)
<1>. DEFINE list == db.programs[dir.channel]
            live == Live(dir.channel)
            T == Programmes(dir)
            U == {q \in T : Programme[q].start > Programme[e].start}
            sought == {q \in Events : DayOf(q) > DayOf(e)}
            V == {q \in Events : /\ Holds(list, q) /\ ~Over(q, now) /\ q \in sought
                                 /\ Programme[q].start > Programme[e].start}
            at == nextEpgDay(list, e, now).at
<1>1. list \in Seq(Events) /\ StartsInOrder(list) /\ now \in Nat
  BY ContentDirectoryAssumption DEF Guided, ListsType, Lists, Sorted
<1>2. \A q : q \in live <=> q \in Events /\ Holds(list, q) /\ ~Over(q, now)
  BY LiveFacts
<1>3. \A q : q \in T <=> /\ q \in live
                         /\ \E p \in live : Programme[p].start <= now
                         /\ \A p \in live : DayOf(p) = DayOf(q) => Programme[q].start <= Programme[p].start
  BY DEF Programmes
<1>4. e \in T /\ e \in live /\ e \in Events /\ Holds(list, e)
  BY <1>2, <1>3
<1>5. nextEpgDay(list, e, now) = Sweep(list, Position(list, e) + 1, now, sought)
  BY DEF nextEpgDay
<1>. HIDE DEF list, live, T
<1>6. Earliest(V, at)
  <2>1. Earliest(V, Sweep(list, Position(list, e) + 1, now, sought).at)
    <3>. HIDE DEF sought
    <3>. QED  BY <1>1, <1>4, SweepFindsEarliest
  <2>. QED  BY <1>5, <2>1
<1>7. \A q : q \in V <=> q \in live /\ DayOf(q) > DayOf(e) /\ Programme[q].start > Programme[e].start
  BY <1>2
<1>8. \A q \in live : Programme[q].start \in Nat /\ DayOf(q) \in Nat
  BY <1>2, Starts, Days
<1>9. \A p, q \in live : Programme[p].start <= Programme[q].start => DayOf(p) <= DayOf(q)
  BY <1>2, LaterDays
<1>10. ASSUME NEW q \in U
       PROVE  q \in V
  <2>1. q \in live /\ e \in live /\ Programme[q].start > Programme[e].start
    BY <1>3, <1>4
  <2>2. DayOf(e) <= DayOf(q)
    BY <1>8, <1>9, <2>1
  <2>3. DayOf(e) # DayOf(q)
    <3>1. DayOf(e) = DayOf(q) => Programme[q].start <= Programme[e].start
      BY <1>3, <2>1
    <3>. QED  BY <1>8, <2>1, <3>1
  <2>. QED  BY <1>7, <1>8, <2>1, <2>2, <2>3
<1>11. V \subseteq Events
  OBVIOUS
<1>. HIDE DEF V, at
<1>12. CASE at = NoEvent
  <2>1. V = {}
    BY <1>6, <1>11, <1>12, EarliestFacts
  <2>2. U = {}
    BY <1>10, <2>1
  <2>. QED  BY <1>12, <2>2 DEF Earliest, at, T, list
<1>13. CASE at # NoEvent
  <2>1. at \in V /\ \A q \in V : Programme[at].start <= Programme[q].start
    BY <1>6, <1>11, <1>13, EarliestFacts
  <2>2. at \in live /\ DayOf(at) > DayOf(e) /\ Programme[at].start > Programme[e].start
    BY <1>7, <2>1
  <2>3. ASSUME NEW p \in live, DayOf(p) = DayOf(at)
        PROVE  Programme[at].start <= Programme[p].start
    <3>1. Programme[p].start > Programme[e].start
      <4>1. Programme[p].start <= Programme[e].start => DayOf(p) <= DayOf(e)
        BY <1>4, <1>9
      <4>. QED  BY <1>4, <1>8, <2>2, <2>3, <4>1
    <3>2. p \in V
      BY <1>7, <2>2, <2>3, <3>1
    <3>. QED  BY <2>1, <3>2
  <2>4. at \in T
    BY <1>3, <1>4, <2>2, <2>3
  <2>5. at \in U /\ \A q \in U : Programme[at].start <= Programme[q].start
    BY <1>10, <2>1, <2>2, <2>4
  <2>6. Earliest(U, at)
    BY <2>5 DEF Earliest
  <2>. QED  BY <2>6 DEF at, T, list
<1>. QED  BY <1>12, <1>13

LEMMA NextOfDay ==
  ASSUME Guided, NEW dir, dir.shape = "day", dir.channel \in Channels, NEW e \in Programmes(dir)
  PROVE  Earliest({q \in Programmes(dir) : Programme[q].start > Programme[e].start},
                  nextEpgEvent(db.programs[dir.channel], e, dir.day, now).at)
<1>. DEFINE list == db.programs[dir.channel]
            live == Live(dir.channel)
            T == Programmes(dir)
            U == {q \in T : Programme[q].start > Programme[e].start}
            V == {q \in Events : /\ Holds(list, q) /\ ~Over(q, now) /\ q \in Events
                                 /\ Programme[q].start > Programme[e].start}
            next == Sweep(list, Position(list, e) + 1, now, Events)
            at == nextEpgEvent(list, e, dir.day, now).at
<1>1. list \in Seq(Events) /\ StartsInOrder(list) /\ now \in Nat
  BY ContentDirectoryAssumption DEF Guided, ListsType, Lists, Sorted
<1>2. \A q : q \in live <=> q \in Events /\ Holds(list, q) /\ ~Over(q, now)
  BY LiveFacts
<1>3. \A q : q \in T <=> q \in live /\ DayOf(q) = dir.day
  BY DEF Programmes
<1>4. e \in live /\ e \in Events /\ Holds(list, e) /\ DayOf(e) = dir.day
  BY <1>2, <1>3
<1>5. at = IF next.at # NoEvent /\ DayOf(next.at) <= dir.day THEN next.at ELSE NoEvent
  <2>1. next.at # NoEvent \/ next.at = NoEvent
    OBVIOUS
  <2>2. \A r : [next EXCEPT !.at = r].at = r
    BY DEF Sweep
  <2>. QED  BY <2>2 DEF nextEpgEvent
<1>. HIDE DEF list, live, T
<1>6. Earliest(V, next.at)
  BY <1>1, <1>4, SweepFindsEarliest
<1>7. \A q : q \in V <=> q \in live /\ Programme[q].start > Programme[e].start
  BY <1>2
<1>8. \A q \in live : Programme[q].start \in Nat /\ DayOf(q) \in Nat
  BY <1>2, Starts, Days
<1>9. \A p, q \in live : Programme[p].start <= Programme[q].start => DayOf(p) <= DayOf(q)
  BY <1>2, LaterDays
<1>10. \A q \in U : q \in V /\ DayOf(q) = dir.day
  BY <1>3, <1>7
<1>11. V \subseteq Events
  OBVIOUS
<1>. HIDE DEF V, at, next
<1>12. CASE next.at = NoEvent
  <2>1. V = {} /\ at = NoEvent
    BY <1>5, <1>6, <1>11, <1>12, EarliestFacts
  <2>2. U = {}
    BY <1>10, <2>1
  <2>. QED  BY <2>1, <2>2 DEF Earliest, at, T, list
<1>13. CASE next.at # NoEvent
  <2>1. next.at \in V /\ \A q \in V : Programme[next.at].start <= Programme[q].start
    BY <1>6, <1>11, <1>13, EarliestFacts
  <2>2. next.at \in live /\ Programme[next.at].start > Programme[e].start
    BY <1>7, <2>1
  <2>3. dir.day \in Nat /\ DayOf(next.at) \in Nat
    BY <1>4, <1>8, <2>2
  <2>4. CASE DayOf(next.at) <= dir.day
    <3>1. DayOf(e) <= DayOf(next.at)
      BY <1>4, <1>8, <1>9, <2>2
    <3>2. DayOf(next.at) = dir.day
      BY <1>4, <2>3, <2>4, <3>1
    <3>3. next.at \in U /\ \A q \in U : Programme[next.at].start <= Programme[q].start
      BY <1>3, <1>10, <2>1, <2>2, <3>2
    <3>4. at = next.at
      BY <1>5, <1>13, <2>4
    <3>5. Earliest(U, at)
      BY <3>3, <3>4 DEF Earliest
    <3>. QED  BY <3>5 DEF at, T, list
  <2>5. CASE ~(DayOf(next.at) <= dir.day)
    <3>1. \A q \in V : DayOf(next.at) <= DayOf(q)
      BY <1>7, <1>9, <2>1, <2>2
    <3>2. U = {}
      BY <1>10, <2>5, <3>1
    <3>3. at = NoEvent
      BY <1>5, <2>5
    <3>. QED  BY <3>2, <3>3 DEF Earliest, at, T, list
  <2>. QED  BY <2>4, <2>5
<1>. QED  BY <1>12, <1>13

(* A walk of the channels is at one that is listed.                        *)
LEMMA ChannelWalkAt ==
  ASSUME NEW list \in Seq(Channels), NEW k \in 1..Len(list), NEW shape \in {"channel", "guide"}
  PROVE  LET w == ChannelWalk(list, k, shape) IN
         /\ w # NoWalk /\ w.entry = Object(shape, list[k], 0, 0)
         /\ w.next = IF k = Len(list) THEN End ELSE list[k + 1]
<1>. DEFINE w == ChannelWalk(list, k, shape)
            n == IF k = Len(list) THEN End ELSE list[k + 1]
            en == Object(shape, list[k], 0, 0)
<1>1. w = [entry |-> en, next |-> n]
  BY DEF ChannelWalk
<1>2. en.shape = shape
  BY DEF Object
<1>3. NoWalk.entry.shape = "none"
  BY DEF NoWalk, Top, Object
<1>. HIDE DEF w, n, en
<1>4. w.entry = en /\ w.next = n
  BY <1>1
<1>5. w # NoWalk
  BY <1>2, <1>3, <1>4
<1>. QED  BY <1>4, <1>5 DEF w, n, en

LEMMA FirstReached ==
  ASSUME Guided, NEW dir, Canonical(dir), PCGetFileDirType(db, dir) = 2,
         dir.shape = "guide" => NothingOver,
         NEW delimited \in BOOLEAN, dir.shape = "EPG" => delimited
  PROVE  LET r == PCGetDirFirstFile(db, dir, delimited, now).walk IN
         IF r = NoWalk THEN Files(dir) = 0 ELSE Reached(dir, r, 1)
<1>. DEFINE r == PCGetDirFirstFile(db, dir, delimited, now).walk
<1>0. db.channels \in Seq(Channels) /\ Len(db.channels) \in Nat
  BY DEF Guided, ListsType, Lists
<1>1. CASE dir.shape = "root"
  <2>1. r = RootWalk(1)
    BY <1>1 DEF PCGetDirFirstFile, WithLists
  <2>2. RootWalk(1) # NoWalk
    <3>1. RootWalk(1).next = 2 /\ RootWalk(1).entry = Top("Channels")
      BY RootWalkFacts DEF rootDirs
    <3>2. Top("Channels").shape # Top("none").shape
      BY DEF Top, Object
    <3>3. NoWalk.entry = Top("none")
      BY DEF NoWalk
    <3>. QED  BY <3>1, <3>2, <3>3
  <2>3. Reached(dir, RootWalk(1), 1)
    BY <1>1 DEF Reached
  <2>. HIDE DEF r
  <2>. QED  BY <2>1, <2>2, <2>3 DEF r
<1>2. ASSUME dir.shape \in {"Channels", "EPG"}
      PROVE  IF r = NoWalk THEN Files(dir) = 0 ELSE Reached(dir, r, 1)
  <2>. DEFINE shape == IF dir.shape = "EPG" THEN "guide" ELSE "channel"
  <2>1. r = ChannelWalk(db.channels, 1, shape)
    <3>1. CASE dir.shape = "Channels"
      BY <3>1 DEF PCGetDirFirstFile, WithLists
    <3>2. CASE dir.shape = "EPG"
      BY <3>2 DEF PCGetDirFirstFile, WithLists
    <3>. QED  BY <1>2, <3>1, <3>2
  <2>2. Len(Listing(dir)) = Len(db.channels)
    BY <1>0, <1>2, ListingFacts
  <2>3. shape \in {"channel", "guide"}
    OBVIOUS
  <2>s. shape = IF dir.shape = "EPG" THEN "guide" ELSE "channel"
    OBVIOUS
  <2>. HIDE DEF r, shape
  <2>4. CASE Len(db.channels) = 0
    <3>1. r = NoWalk
      BY <2>1, <2>4 DEF ChannelWalk
    <3>. QED  BY <1>2, <2>2, <2>4, <3>1 DEF Files
  <2>5. CASE Len(db.channels) # 0
    <3>1. 1 \in 1..Len(db.channels)
      BY <1>0, <2>5
    <3>2. r # NoWalk
      BY <1>0, <2>1, <2>3, <3>1, ChannelWalkAt
    <3>. QED  BY <1>2, <2>1, <2>s, <3>1, <3>2 DEF Reached
  <2>. QED  BY <2>4, <2>5
<1>3. ASSUME dir.shape \in {"guide", "day"}
      PROVE  IF r = NoWalk THEN Files(dir) = 0 ELSE Reached(dir, r, 1)
  <2>. DEFINE found == IF dir.shape = "guide" THEN firstEpgDay(db.programs[dir.channel], now)
                       ELSE firstEpgEvent(db.programs[dir.channel], dir.day, now)
              T == Programmes(dir)
  <2>1. /\ ischannel(db, dir.channel) /\ dir.channel \in Channels
        /\ Listing(dir) = [n \in 1..Cardinality(T) |->
                                   IF dir.shape = "guide" THEN DayEntry(dir.channel, ByStart(T)[n])
                                   ELSE EventEntry(dir, ByStart(T)[n])]
    BY <1>3, ListingFacts
  <2>2. Earliest(T, found.at)
    <3>1. CASE dir.shape = "guide"
      BY <2>1, <3>1, FirstDay
    <3>2. CASE dir.shape = "day"
      BY <2>1, <3>2, FirstOfDay
    <3>. QED  BY <1>3, <3>1, <3>2
  <2>3. r = EpgWalk(db, dir, found).walk
    <3>1. CASE dir.shape = "guide"
      BY <2>1, <3>1 DEF PCGetDirFirstFile
    <3>2. CASE dir.shape = "day"
      BY <2>1, <3>2 DEF PCGetDirFirstFile
    <3>. QED  BY <1>3, <3>1, <3>2
  <2>. HIDE DEF found, r
  <2>4. IF r = NoWalk THEN T = {} ELSE Reached(dir, r, 1)
    BY <1>3, <2>1, <2>2, <2>3, FirstOfGuide
  <2>5. T = {} => Len(Listing(dir)) = 0
    BY <2>1, FS_EmptySet
  <2>. QED  BY <1>3, <2>4, <2>5 DEF Files
<1>. QED  BY <1>1, <1>2, <1>3, ListingFacts

LEMMA NextReached ==
  ASSUME Guided, NEW dir, Canonical(dir), PCGetFileDirType(db, dir) = 2,
         NEW w, NEW k \in Nat, Reached(dir, w, k)
  PROVE  LET r == PCGetDirNextFile(db, dir, w, now).walk IN
         IF r = NoWalk THEN k = Files(dir) ELSE Reached(dir, r, k + 1)
<1>. DEFINE r == PCGetDirNextFile(db, dir, w, now).walk
<1>0. /\ db.channels \in Seq(Channels) /\ Len(db.channels) \in Nat
      /\ DOMAIN db.channels = 1..Len(db.channels) /\ ChannelsInOrder(db.channels)
      /\ \A i \in 1..Len(db.channels) : db.channels[i] \in Channels
  BY ElementOfSeq DEF Guided, ListsType, Lists, Sorted
<1>1. CASE dir.shape = "root"
  <2>1. k \in 1..3 /\ w.next = k + 1 /\ (k + 1 \in 1..3 \/ RootWalk(k + 1) = NoWalk)
    BY <1>1, RootWalkFacts DEF Reached
  <2>2. r = RootWalk(k + 1)
    BY <1>1, <2>1 DEF PCGetDirNextFile, WithLists
  <2>3. k + 1 \in 1..3 => Reached(dir, RootWalk(k + 1), k + 1) /\ RootWalk(k + 1) # NoWalk
    <3>1. ASSUME k + 1 \in 1..3
          PROVE  RootWalk(k + 1) # NoWalk
      <4>1. RootWalk(k + 1).entry = Top(rootDirs[k + 1])
        BY <3>1, RootWalkFacts
      <4>2. rootDirs[k + 1] # "none"
        BY <3>1 DEF rootDirs
      <4>3. Top(rootDirs[k + 1]).shape = rootDirs[k + 1] /\ NoWalk.entry.shape = "none"
        BY DEF Top, Object, NoWalk
      <4>. QED  BY <4>1, <4>2, <4>3
    <3>. QED  BY <1>1, <3>1 DEF Reached
  <2>4. ~(k + 1 \in 1..3) => k = 3
    BY <2>1
  <2>. HIDE DEF r
  <2>. QED  BY <1>1, <2>1, <2>2, <2>3, <2>4 DEF Files, r
<1>2. ASSUME dir.shape \in {"Channels", "EPG"}
      PROVE  IF r = NoWalk THEN k = Files(dir) ELSE Reached(dir, r, k + 1)
  <2>. DEFINE shape == IF dir.shape = "EPG" THEN "guide" ELSE "channel"
              list == db.channels
  <2>1. r = IF w.next = End THEN NoWalk ELSE ChannelWalk(list, Position(list, w.next), shape)
    <3>1. CASE dir.shape = "Channels"
      BY <3>1 DEF PCGetDirNextFile, WithLists
    <3>2. CASE dir.shape = "EPG"
      BY <3>2 DEF PCGetDirNextFile, WithLists
    <3>. QED  BY <1>2, <3>1, <3>2
  <2>2. Len(Listing(dir)) = Len(list)
    BY <1>0, <1>2, ListingFacts
  <2>3. k \in 1..Len(list) /\ w = ChannelWalk(list, k, shape)
    BY <1>2 DEF Reached
  <2>4. shape \in {"channel", "guide"}
    OBVIOUS
  <2>s. shape = IF dir.shape = "EPG" THEN "guide" ELSE "channel"
    OBVIOUS
  <2>. HIDE DEF r, shape
  <2>5. w.next = IF k = Len(list) THEN End ELSE list[k + 1]
    BY <1>0, <2>3, <2>4, ChannelWalkAt
  <2>6. CASE k = Len(list)
    <3>1. r = NoWalk
      BY <2>1, <2>5, <2>6
    <3>. QED  BY <1>2, <2>2, <2>6, <3>1 DEF Files
  <2>7. CASE k # Len(list)
    <3>1. k + 1 \in 1..Len(list) /\ w.next = list[k + 1] /\ w.next # End
      <4>1. k + 1 \in 1..Len(list) /\ w.next = list[k + 1]
        BY <1>0, <2>3, <2>5, <2>7
      <4>. QED  BY <1>0, <4>1, VirtualDirectoryAssumption
    <3>2. Position(list, w.next) = k + 1
      <4>. DEFINE p == Position(list, w.next)
      <4>1. p \in 1..Len(list) /\ list[p] = list[k + 1]
        <5>1. Holds(list, w.next)
          BY <1>0, <3>1 DEF Holds
        <5>2. p # 0
          BY <1>0, <5>1, PositionFacts
        <5>. QED  BY <1>0, <3>1, <5>2, PositionFacts
      <4>. HIDE DEF p
      <4>2. p = k + 1 \/ p < k + 1 \/ k + 1 < p
        BY <3>1, <4>1
      <4>3. ~(p < k + 1) /\ ~(k + 1 < p)
        BY <1>0, <3>1, <4>1 DEF ChannelsInOrder
      <4>. QED  BY <4>2, <4>3 DEF p
    <3>3. Reached(dir, ChannelWalk(list, k + 1, shape), k + 1)
      BY <1>2, <2>s, <3>1 DEF Reached
    <3>4. r = ChannelWalk(list, k + 1, shape)
      BY <2>1, <3>1, <3>2
    <3>5. r # NoWalk
      BY <1>0, <2>4, <3>1, <3>4, ChannelWalkAt
    <3>. QED  BY <3>3, <3>4, <3>5
  <2>. QED  BY <2>6, <2>7
<1>3. ASSUME dir.shape \in {"guide", "day"}
      PROVE  IF r = NoWalk THEN k = Files(dir) ELSE Reached(dir, r, k + 1)
  <2>. DEFINE e == w.next
              found == IF dir.shape = "guide" THEN nextEpgDay(db.programs[dir.channel], e, now)
                       ELSE nextEpgEvent(db.programs[dir.channel], e, dir.day, now)
              T == Programmes(dir)
  <2>1. /\ ischannel(db, dir.channel) /\ dir.channel \in Channels
        /\ Listing(dir) = [n \in 1..Cardinality(T) |->
                                   IF dir.shape = "guide" THEN DayEntry(dir.channel, ByStart(T)[n])
                                   ELSE EventEntry(dir, ByStart(T)[n])]
    BY <1>3, ListingFacts
  <2>2. e \in T
    BY <1>3 DEF Reached
  <2>3. Earliest({q \in T : Programme[q].start > Programme[e].start}, found.at)
    <3>1. CASE dir.shape = "guide"
      BY <2>1, <2>2, <3>1, NextDay
    <3>2. CASE dir.shape = "day"
      BY <2>1, <2>2, <3>2, NextOfDay
    <3>. QED  BY <1>3, <3>1, <3>2
  <2>4. r = EpgWalk(db, dir, found).walk
    <3>1. CASE dir.shape = "guide"
      BY <2>1, <3>1 DEF PCGetDirNextFile
    <3>2. CASE dir.shape = "day"
      BY <2>1, <3>2 DEF PCGetDirNextFile
    <3>. QED  BY <1>3, <3>1, <3>2
  <2>. DEFINE walk == EpgWalk(db, dir, found).walk
  <2>. HIDE DEF found
  <2>5. IF walk = NoWalk THEN k = Cardinality(T) ELSE Reached(dir, walk, k + 1)
    <3>. DEFINE U == {q \in T : Programme[q].start > Programme[e].start}
    <3>1. \E later : /\ Earliest(later, found.at)
                     /\ \A q : q \in later <=> q \in Programmes(dir)
                                              /\ Programme[q].start > Programme[w.next].start
      <4>1. Earliest(U, found.at)
        BY <2>3
      <4>2. \A q : q \in U <=> q \in Programmes(dir) /\ Programme[q].start > Programme[w.next].start
        OBVIOUS
      <4>. HIDE DEF U
      <4>. QED  BY <4>1, <4>2
    <3>2. PICK later : /\ Earliest(later, found.at)
                       /\ \A q : q \in later <=> q \in Programmes(dir)
                                              /\ Programme[q].start > Programme[w.next].start
      BY <3>1
    <3>3. PICK f : f = found
      OBVIOUS
    <3>4. dir.channel \in Channels
      BY <2>1
    <3>5. IF EpgWalk(db, dir, f).walk = NoWalk THEN k = Cardinality(Programmes(dir))
          ELSE Reached(dir, EpgWalk(db, dir, f).walk, k + 1)
      <4>1. dir.shape \in {"guide", "day"}
        BY <1>3
      <4>. HIDE DEF walk, T, e, r, U
      <4>2. Earliest(later, f.at)
        BY <3>2, <3>3
      <4>3. \A q : q \in later <=> q \in Programmes(dir) /\ Programme[q].start > Programme[w.next].start
        BY <3>2
      <4>. QED  BY <4>1, <4>2, <4>3, <3>4, NextOfGuide
    <3>. QED  BY <3>3, <3>5
  <2>. HIDE DEF r, walk
  <2>6. Len(Listing(dir)) = Cardinality(T)
    BY <2>1, ProgrammesFacts, FS_CardinalityType
  <2>7. r = walk
    BY <2>4 DEF walk
  <2>. QED  BY <1>3, <2>5, <2>6, <2>7 DEF Files
<1>. QED  BY <1>1, <1>2, <1>3, ListingFacts

-----------------------------------------------------------------------------
(* The ID of an entry leads back to its directory.                         *)

LEMMA FrontIs ==
  ASSUME NEW S, NEW s \in Seq(S), NEW q \in Seq(S), Len(s) = Len(q) + 1,
         \A i \in 1..Len(q) : s[i] = q[i]
  PROVE  Front(s) = q
<1>1. Len(q) \in Nat /\ Len(s) - 1 = Len(q) /\ \A i \in 1..Len(q) : s[i] \in S /\ 1 + i - 1 = i
  BY ElementOfSeq
<1>2. 1 \in 1..(Len(s) + 1) /\ Len(q) \in 0..Len(s)
  BY <1>1
<1>3. /\ SubSeq(s, 1, Len(q)) \in Seq(S)
      /\ Len(SubSeq(s, 1, Len(q))) = IF 1 <= Len(q) THEN Len(q) - 1 + 1 ELSE 0
      /\ \A i \in 1..(Len(q) - 1 + 1) : SubSeq(s, 1, Len(q))[i] = s[1 + i - 1]
  BY <1>1, <1>2, SubSeqProperties
<1>4. Front(s) = SubSeq(s, 1, Len(q))
  BY <1>1 DEF Front
<1>. DEFINE f == SubSeq(s, 1, Len(q))
<1>5. Len(q) - 1 + 1 = Len(q) /\ (~(1 <= Len(q)) => Len(q) = 0)
  BY <1>1
<1>6. f \in Seq(S) /\ Len(f) = Len(q) /\ \A i \in 1..Len(q) : f[i] = q[i]
  BY <1>1, <1>3, <1>5
<1>. HIDE DEF f
<1>7. f = q
  BY <1>6, SeqEqual
<1>. QED  BY <1>4, <1>7 DEF f

Below(dir, o) ==
  \E S : /\ Path(o) \in Seq(S) /\ Path(dir) \in Seq(S) /\ Len(Path(o)) = Len(Path(dir)) + 1
         /\ \A i \in 1..Len(Path(dir)) : Path(o)[i] = Path(dir)[i]

LEMMA ParentOfEntry ==
  ASSUME NEW dir, Canonical(dir), NEW o, o # Root, Below(dir, o)
  PROVE  PathObject(filepath(parentID(o))) = dir
<1>1. PICK S : /\ Path(o) \in Seq(S) /\ Path(dir) \in Seq(S) /\ Len(Path(o)) = Len(Path(dir)) + 1
               /\ \A i \in 1..Len(Path(dir)) : Path(o)[i] = Path(dir)[i]
  BY DEF Below
<1>. DEFINE p == Path(o)
            q == Path(dir)
<1>. HIDE DEF p, q
<1>2. Front(p) = q
  BY <1>1, FrontIs DEF p, q
<1>3. parentID(o) = <<0>> \o q
  BY <1>2 DEF parentID, p
<1>4. filepath(parentID(o)) = q
  BY <1>1, <1>3, TailAfter DEF filepath, q
<1>. QED  BY <1>4 DEF Canonical, q

LEMMA PathsBelow ==
  ASSUME NEW dir, Canonical(dir)
  PROVE  /\ dir = Root => \A k \in 1..3 : Below(dir, Top(rootDirs[k]))
         /\ dir.shape = "Channels" => \A c \in Channels : Below(dir, ChannelItem(c))
         /\ dir.shape = "EPG" => \A c \in Channels : Below(dir, GuideOf(c))
         /\ dir.shape = "guide" => \A n \in Nat : Below(dir, DayOfGuide(dir.channel, n))
         /\ dir.shape = "day" => \A n \in Nat : Below(dir, Airing(dir.channel, dir.day, n))
<1>1. ASSUME dir = Root, NEW k \in 1..3
      PROVE  Below(dir, Top(rootDirs[k]))
  <2>. DEFINE n == rootDirs[k]
  <2>1. n \in {"Channels", "EPG", "VOD"}
    BY DEF rootDirs
  <2>. HIDE DEF n
  <2>2. Path(Top(n)) = <<n>> /\ Path(dir) = <<>>
    BY <1>1, <2>1 DEF Path, Top, Object, Root
  <2>3. <<n>> \in Seq({n}) /\ <<>> \in Seq({n}) /\ Len(<<n>>) = 1 /\ Len(<<>>) = 0
    OBVIOUS
  <2>4. 1 = 0 + 1 /\ \A i \in 1..0 : <<n>>[i] = <<>>[i]
    OBVIOUS
  <2>. QED  BY <2>2, <2>3, <2>4 DEF Below, n
<1>2. ASSUME NEW n \in {"Channels", "EPG"}, dir.shape = n, NEW c, NEW o, Path(o) = <<n, c>>
      PROVE  Below(dir, o)
  <2>1. Path(dir) = <<n>>
    BY <1>2 DEF Path
  <2>2. <<n, c>> \in Seq({n, c}) /\ <<n>> \in Seq({n, c}) /\ Len(<<n, c>>) = 2 /\ Len(<<n>>) = 1
    OBVIOUS
  <2>3. 2 = 1 + 1 /\ \A i \in 1..1 : <<n, c>>[i] = <<n>>[i]
    OBVIOUS
  <2>. QED  BY <1>2, <2>1, <2>2, <2>3 DEF Below
<1>3. ASSUME dir.shape = "Channels", NEW c \in Channels
      PROVE  Below(dir, ChannelItem(c))
  <2>1. Path(ChannelItem(c)) = <<"Channels", c>>
    BY DEF Path, ChannelItem, Object
  <2>. QED  BY <1>2, <1>3, <2>1
<1>4. ASSUME dir.shape = "EPG", NEW c \in Channels
      PROVE  Below(dir, GuideOf(c))
  <2>1. Path(GuideOf(c)) = <<"EPG", c>>
    BY DEF Path, GuideOf, Object
  <2>. QED  BY <1>2, <1>4, <2>1
<1>5. ASSUME dir.shape = "guide", NEW n \in Nat
      PROVE  Below(dir, DayOfGuide(dir.channel, n))
  <2>. DEFINE c == dir.channel
              S == {"EPG", c, n}
  <2>1. Path(DayOfGuide(c, n)) = <<"EPG", c, n>> /\ Path(dir) = <<"EPG", c>>
    BY <1>5 DEF Path, DayOfGuide, Object
  <2>. HIDE DEF c
  <2>2. /\ <<"EPG", c, n>> \in Seq(S) /\ <<"EPG", c>> \in Seq(S)
        /\ Len(<<"EPG", c, n>>) = 3 /\ Len(<<"EPG", c>>) = 2
    OBVIOUS
  <2>3. 3 = 2 + 1 /\ \A i \in 1..2 : <<"EPG", c, n>>[i] = <<"EPG", c>>[i]
    OBVIOUS
  <2>. HIDE DEF S
  <2>. QED  BY <2>1, <2>2, <2>3 DEF Below, c
<1>6. ASSUME dir.shape = "day", NEW n \in Nat
      PROVE  Below(dir, Airing(dir.channel, dir.day, n))
  <2>. DEFINE c == dir.channel
              d == dir.day
              S == {"EPG", c, d, n}
  <2>1. Path(Airing(c, d, n)) = <<"EPG", c, d, n>> /\ Path(dir) = <<"EPG", c, d>>
    BY <1>6 DEF Path, Airing, Object
  <2>. HIDE DEF c, d
  <2>2. /\ <<"EPG", c, d, n>> \in Seq(S) /\ <<"EPG", c, d>> \in Seq(S)
        /\ Len(<<"EPG", c, d, n>>) = 4 /\ Len(<<"EPG", c, d>>) = 3
    OBVIOUS
  <2>3. 4 = 3 + 1 /\ \A i \in 1..3 : <<"EPG", c, d, n>>[i] = <<"EPG", c, d>>[i]
    OBVIOUS
  <2>. HIDE DEF S
  <2>. QED  BY <2>1, <2>2, <2>3 DEF Below, c, d
<1>. QED  BY <1>1, <1>3, <1>4, <1>5, <1>6

(* The entry a walk has reached is the one that is listed there.           *)
LEMMA ReachedEntry ==
  ASSUME Guided, NEW dir, Canonical(dir), PCGetFileDirType(db, dir) = 2,
         NEW w, NEW k \in Nat, Reached(dir, w, k)
  PROVE  IF dir.shape = "root" /\ k = 3 THEN ~ProceedWithDirEntry(db, w.entry)
         ELSE /\ k \in 1..Len(Listing(dir)) /\ (dir.shape = "root" => k < 3)
              /\ Listing(dir)[k] = w.entry /\ ProceedWithDirEntry(db, w.entry)
              /\ PathObject(filepath(parentID(w.entry))) = dir
<1>. DEFINE o == w.entry
<1>0. /\ db.channels \in Seq(Channels) /\ Len(db.channels) \in Nat
      /\ DOMAIN db.channels = 1..Len(db.channels)
      /\ \A i \in 1..Len(db.channels) : db.channels[i] \in Channels
  BY ElementOfSeq DEF Guided, ListsType, Lists
<1>r. Root.shape = "root"
  BY CanonicalEntries
<1>1. CASE dir.shape = "root"
  <2>1. k \in 1..3 /\ o = Top(rootDirs[k]) /\ dir = Root
    BY <1>1, RootWalkFacts, ListingFacts DEF Reached
  <2>2. Listing(dir) = <<Top("Channels"), Top("EPG")>>
    BY <1>1, ListingFacts
  <2>3. k = 3 => ~ProceedWithDirEntry(db, o)
    <3>1. k = 3 => o.shape = "VOD"
      BY <2>1 DEF rootDirs, Top, Object
    <3>. QED  BY <3>1 DEF ProceedWithDirEntry, PCGetFileDirType
  <2>4. ASSUME k # 3
        PROVE  /\ k \in 1..2 /\ k < 3 /\ Listing(dir)[k] = o /\ ProceedWithDirEntry(db, o) /\ o # Root
    <3>1. (k = 1 /\ o = Top("Channels")) \/ (k = 2 /\ o = Top("EPG"))
      BY <2>1, <2>4 DEF rootDirs
    <3>2. o.shape \in {"Channels", "EPG"}
      BY <3>1 DEF Top, Object
    <3>3. o # Root
      BY <1>r, <3>2
    <3>4. ProceedWithDirEntry(db, o)
      BY <3>2 DEF ProceedWithDirEntry, PCGetFileDirType
    <3>. QED  BY <2>2, <3>1, <3>3, <3>4
  <2>5. Len(Listing(dir)) = 2
    BY <2>2
  <2>6. k # 3 => PathObject(filepath(parentID(o))) = dir
    BY <2>1, <2>4, ParentOfEntry, PathsBelow
  <2>. QED  BY <1>1, <2>1, <2>3, <2>4, <2>5, <2>6
<1>2. CASE dir.shape \in {"Channels", "EPG"}
  <2>. DEFINE shape == IF dir.shape = "EPG" THEN "guide" ELSE "channel"
              c == db.channels[k]
  <2>1. k \in 1..Len(db.channels) /\ w = ChannelWalk(db.channels, k, shape)
    BY <1>2 DEF Reached
  <2>2. o = Object(shape, c, 0, 0)
    <3>1. shape \in {"guide", "channel"}
      OBVIOUS
    <3>. HIDE DEF shape
    <3>. QED  BY <1>0, <2>1, <3>1, ChannelWalkAt
  <2>3. k \in 1..Len(Listing(dir)) /\ Listing(dir)[k] = o
    BY <1>0, <1>2, <2>1, <2>2, ListingFacts
  <2>4. c \in Channels /\ ischannel(db, c)
    BY <1>0, <2>1 DEF ischannel
  <2>. HIDE DEF c
  <2>5. o.shape = shape /\ o.channel = c
    BY <2>2 DEF Object
  <2>6. o # Root
    BY <1>r, <2>5
  <2>7. ProceedWithDirEntry(db, o)
    BY <2>4, <2>5 DEF ProceedWithDirEntry, PCGetFileDirType
  <2>8. Below(dir, o)
    BY <1>2, <2>2, <2>4, PathsBelow DEF ChannelItem, GuideOf
  <2>9. PathObject(filepath(parentID(o))) = dir
    BY <2>6, <2>8, ParentOfEntry
  <2>. QED  BY <1>2, <2>3, <2>7, <2>9
<1>3. CASE dir.shape \in {"guide", "day"}
  <2>. DEFINE T == Programmes(dir)
              e == w.next
              c == dir.channel
  <2>1. e \in T /\ k = Rank(T, e)
        /\ o = IF dir.shape = "guide" THEN DayEntry(c, e) ELSE EventEntry(dir, e)
    BY <1>3 DEF Reached
  <2>2. /\ ischannel(db, c) /\ c \in Channels
        /\ Listing(dir) = [n \in 1..Cardinality(T) |->
                                   IF dir.shape = "guide" THEN DayEntry(c, ByStart(T)[n])
                                   ELSE EventEntry(dir, ByStart(T)[n])]
    BY <1>3, ListingFacts
  <2>3. /\ T \subseteq Events /\ k \in 1..Cardinality(T) /\ ByStart(T)[k] = e
        /\ Cardinality(T) \in Nat
    BY <2>1, <2>2, ProgrammesFacts, Ranks
  <2>4. e \in Events /\ DayOf(e) \in Nat /\ Programme[e].id \in Nat
    BY <2>1, <2>3, Days, Starts
  <2>. HIDE DEF T, e
  <2>5. k \in 1..Len(Listing(dir)) /\ Listing(dir)[k] = o
    BY <2>1, <2>2, <2>3
  <2>6. o.shape = (IF dir.shape = "guide" THEN "day" ELSE "event") /\ o.channel = c
    BY <1>3, <2>1 DEF DayEntry, EventEntry, DayOfGuide, Airing, Object
  <2>7. o # Root
    BY <1>r, <2>6
  <2>8. ProceedWithDirEntry(db, o)
    BY <2>2, <2>6 DEF ProceedWithDirEntry, PCGetFileDirType
  <2>9. Below(dir, o)
    BY <1>3, <2>1, <2>4, PathsBelow DEF DayEntry, EventEntry
  <2>10. PathObject(filepath(parentID(o))) = dir
    BY <2>7, <2>9, ParentOfEntry
  <2>. QED  BY <1>3, <2>5, <2>8, <2>10
<1>. QED  BY <1>1, <1>2, <1>3, ListingFacts

-----------------------------------------------------------------------------
(* What a call of the Browse leaves as it was.                             *)

Steady == Swept(db, db', now) /\ now' = now

(* The objects of a channel that may be listed.                            *)
Owned(o) == o.shape \in {"channel", "event", "guide", "day"} => o.channel \in Channels

LEMMA OwnedFacts ==
  ASSUME Guided, NEW dir
  PROVE  /\ PCGetFileDirType(db, dir) # 0 => Owned(dir)
         /\ Canonical(dir) /\ PCGetFileDirType(db, dir) = 2 =>
              \A n \in 1..Len(Listing(dir)) :
                /\ Owned(Listing(dir)[n])
                /\ Listing(dir)[n].shape = "guide" => dir.shape = "EPG"
<1>1. /\ db \in Lists /\ db.channels \in Seq(Channels) /\ Len(db.channels) \in Nat
      /\ \A i \in 1..Len(db.channels) : db.channels[i] \in Channels
  BY ElementOfSeq DEF Guided, ListsType, Lists
<1>2. PCGetFileDirType(db, dir) # 0 => Owned(dir)
  BY <1>1, Listed DEF PCGetFileDirType, Owned
<1>3. ASSUME Canonical(dir), PCGetFileDirType(db, dir) = 2, NEW n \in 1..Len(Listing(dir))
      PROVE  /\ Owned(Listing(dir)[n])
             /\ Listing(dir)[n].shape = "guide" => dir.shape = "EPG"
  <2>1. CASE dir.shape = "root"
    <3>1. Listing(dir) = <<Top("Channels"), Top("EPG")>>
      BY <1>3, <2>1, ListingFacts
    <3>2. Listing(dir)[n] = Top("Channels") \/ Listing(dir)[n] = Top("EPG")
      BY <1>3, <3>1
    <3>3. Listing(dir)[n].shape \in {"Channels", "EPG"}
      BY <3>2 DEF Top, Object
    <3>. QED  BY <3>3 DEF Owned
  <2>2. CASE dir.shape \in {"Channels", "EPG"}
    <3>1. Listing(dir) = [i \in 1..Len(db.channels) |->
                            Object(IF dir.shape = "EPG" THEN "guide" ELSE "channel",
                                   db.channels[i], 0, 0)]
      BY <1>3, <2>2, ListingFacts
    <3>2. n \in 1..Len(db.channels)
      BY <1>1, <1>3, <3>1
    <3>3. Listing(dir)[n] = Object(IF dir.shape = "EPG" THEN "guide" ELSE "channel",
                                   db.channels[n], 0, 0)
      BY <3>1, <3>2
    <3>4. /\ Listing(dir)[n].shape = IF dir.shape = "EPG" THEN "guide" ELSE "channel"
          /\ Listing(dir)[n].channel \in Channels
      BY <1>1, <3>2, <3>3 DEF Object
    <3>. QED  BY <3>4 DEF Owned
  <2>3. CASE dir.shape \in {"guide", "day"}
    <3>. DEFINE s == ByStart(Programmes(dir))
    <3>1. /\ dir.channel \in Channels
          /\ Listing(dir) = [i \in 1..Cardinality(Programmes(dir)) |->
                               IF dir.shape = "guide" THEN DayEntry(dir.channel, s[i])
                               ELSE EventEntry(dir, s[i])]
      BY <1>3, <2>3, ListingFacts
    <3>2. Cardinality(Programmes(dir)) \in Nat
      BY <3>1, ProgrammesFacts, FS_CardinalityType
    <3>. HIDE DEF s
    <3>3. n \in 1..Cardinality(Programmes(dir))
      BY <1>3, <3>1, <3>2
    <3>4. Listing(dir)[n] = IF dir.shape = "guide" THEN DayEntry(dir.channel, s[n])
                            ELSE EventEntry(dir, s[n])
      BY <3>1, <3>3
    <3>5. Listing(dir)[n].shape \in {"day", "event"} /\ Listing(dir)[n].channel = dir.channel
      BY <3>4 DEF DayEntry, EventEntry, DayOfGuide, Airing, Object
    <3>. QED  BY <3>1, <3>5 DEF Owned
  <2>. QED  BY <1>3, <2>1, <2>2, <2>3, ListingFacts
<1>. QED  BY <1>2, <1>3

LEMMA SteadyLists ==
  ASSUME Guided, Steady
  PROVE  /\ db'.channels = db.channels /\ \A c : ischannel(db', c) <=> ischannel(db, c)
         /\ \A c \in Channels : Live(c)' = Live(c)
         /\ \A o : PCGetFileDirType(db', o) = PCGetFileDirType(db, o)
         /\ NothingOver => NothingOver'
<1>0. db'.channels = db.channels /\ now' = now
  BY DEF Steady, Swept
<1>1. ASSUME NEW c \in Channels
      PROVE  /\ \A e : Holds(db'.programs[c], e) => Holds(db.programs[c], e)
             /\ \A e : Holds(db.programs[c], e) /\ ~Over(e, now) => Holds(db'.programs[c], e)
  <2>1. db.programs[c] \in Seq(Events) /\ Left(db.programs[c], db'.programs[c], now)
    BY DEF Guided, ListsType, Lists, Steady, Swept
  <2>. QED  BY <2>1, LeftFacts
<1>2. \A c : ischannel(db', c) <=> ischannel(db, c)
  BY <1>0 DEF ischannel
<1>3. ASSUME NEW c \in Channels
      PROVE  Live(c)' = Live(c)
  <2>1. Live(c) = {e \in Events : ~Over(e, now) /\ Holds(db.programs[c], e)}
    BY DEF Live, Holds
  <2>2. Live(c)' = {e \in Events : ~Over(e, now) /\ Holds(db'.programs[c], e)}
    BY <1>0 DEF Live, Holds
  <2>. QED  BY <1>1, <2>1, <2>2
<1>4. \A o : PCGetFileDirType(db', o) = PCGetFileDirType(db, o)
  BY <1>2 DEF PCGetFileDirType
<1>5. ASSUME NothingOver
      PROVE  NothingOver'
  <2>1. ASSUME NEW c \in Channels, NEW i \in DOMAIN db'.programs[c]
        PROVE  ~Over(db'.programs[c][i], now)
    <3>1. Holds(db'.programs[c], db'.programs[c][i])
      BY <2>1 DEF Holds
    <3>2. Holds(db.programs[c], db'.programs[c][i])
      BY <1>1, <2>1, <3>1
    <3>. QED  BY <1>5, <3>2 DEF Holds, NothingOver
  <2>. QED  BY <1>0, <2>1 DEF NothingOver
<1>. QED  BY <1>0, <1>2, <1>3, <1>4, <1>5

LEMMA SteadyDirectory ==
  ASSUME Guided, Steady, NEW dir, Owned(dir)
  PROVE  /\ Listing(dir)' = Listing(dir)
         /\ \A w, k : Reached(dir, w, k) => Reached(dir, w, k)'
         /\ \A e : dir.shape \in {"channel", "event"} /\ Described(dir, e) => Described(dir, e)'
<1>0. /\ db'.channels = db.channels /\ now' = now
      /\ \A c \in Channels : Live(c)' = Live(c)
  BY SteadyLists DEF Steady
<1>1. ASSUME dir.shape \in {"guide", "day"}
      PROVE  Programmes(dir)' = Programmes(dir)
  <2>1. dir.channel \in Channels
    BY <1>1 DEF Owned
  <2>2. Live(dir.channel)' = Live(dir.channel)
    BY <1>0, <2>1
  <2>. QED  BY <1>0, <2>2 DEF Programmes
<1>2. Listing(dir)' = Listing(dir)
  <2>1. CASE dir.shape \in {"guide", "day"}
    <3>1. ByStart(Programmes(dir))' = ByStart(Programmes(dir))
      BY <1>1, <2>1
    <3>. QED  BY <1>0, <3>1 DEF Listing
  <2>2. CASE dir.shape \notin {"guide", "day"}
    BY <1>0, <2>2 DEF Listing
  <2>. QED  BY <2>1, <2>2
<1>3. ASSUME NEW w, NEW k, Reached(dir, w, k)
      PROVE  Reached(dir, w, k)'
  BY <1>0, <1>1, <1>3 DEF Reached
<1>4. ASSUME NEW e, dir.shape \in {"channel", "event"}, Described(dir, e)
      PROVE  Described(dir, e)'
  <2>1. Live(dir.channel)' = Live(dir.channel)
    BY <1>0, <1>4 DEF Owned
  <2>. QED  BY <1>4, <2>1 DEF Described
<1>. QED  BY <1>2, <1>3, <1>4

LEMMA SteadyShows ==
  ASSUME Guided, Steady, NEW o, Owned(o), NEW s, Shows(s, o), b'.dir = b.dir, b'.meta = b.meta
  PROVE  Shows(s, o)'
<1>1. /\ Listing(o)' = Listing(o)
      /\ \A e : o.shape \in {"channel", "event"} /\ Described(o, e) => Described(o, e)'
  BY SteadyDirectory
<1>. QED  BY <1>1 DEF Shows

-----------------------------------------------------------------------------
(* What is answered of an entry.                                           *)

Right(o, n, e) ==
  IF o.shape \in {"channel", "event"} THEN Described(o, e)
  ELSE o.shape # "EPG" => n = Len(Listing(o))

LEMMA NothingCounted ==
  ASSUME Guided, NEW o, Canonical(o), PCGetFileDirType(db, o) = 2,
         o.shape = "guide" => NothingOver
  PROVE  LET r == PCGetDirFirstFile(db, o, o = Root, now).walk IN
         IF r = NoWalk THEN Right(o, 0, NoEvent) ELSE Reached(o, r, 1)
<1>. DEFINE delimited == o = Root
            r == PCGetDirFirstFile(db, o, delimited, now).walk
<1>1. Root.shape = "root" /\ delimited \in BOOLEAN
  BY CanonicalEntries
<1>2. o.shape \in {"root", "Channels", "EPG", "guide", "day"}
  BY ListingFacts
<1>3. CASE o.shape = "EPG"
  <2>1. ~delimited
    BY <1>1, <1>3
  <2>2. r = NoWalk
    BY <1>3, <2>1 DEF PCGetDirFirstFile, WithLists
  <2>. HIDE DEF r
  <2>. QED  BY <1>3, <2>2 DEF Right, r
<1>4. CASE o.shape # "EPG"
  <2>. HIDE DEF delimited
  <2>1. IF r = NoWalk THEN Files(o) = 0 ELSE Reached(o, r, 1)
    BY <1>1, <1>4, FirstReached
  <2>. HIDE DEF r
  <2>2. Files(o) = 0 => Right(o, 0, NoEvent)
    BY <1>2 DEF Files, Right
  <2>. QED  BY <2>1, <2>2 DEF r, delimited
<1>. QED  BY <1>3, <1>4

LEMMA CountedOn ==
  ASSUME Guided, NEW o, Canonical(o), PCGetFileDirType(db, o) = 2,
         NEW w, NEW n \in Nat, Reached(o, w, n + 1)
  PROVE  LET r == PCGetDirNextFile(db, o, w, now).walk
             counted == IF ProceedWithDirEntry(db, w.entry) THEN n + 1 ELSE n
         IN IF r = NoWalk THEN Right(o, counted, NoEvent) ELSE Reached(o, r, counted + 1)
<1>. DEFINE r == PCGetDirNextFile(db, o, w, now).walk
            counted == IF ProceedWithDirEntry(db, w.entry) THEN n + 1 ELSE n
            k == n + 1
<1>1. o.shape \in {"root", "Channels", "EPG", "guide", "day"}
  BY ListingFacts
<1>2. k \in Nat /\ k = n + 1
  OBVIOUS
<1>3. IF r = NoWalk THEN k = Files(o) ELSE Reached(o, r, k + 1)
  <2>. HIDE DEF k
  <2>1. Reached(o, w, k)
    BY <1>2
  <2>. HIDE DEF r
  <2>. QED  BY <1>2, <2>1, NextReached DEF r
<1>4. IF o.shape = "root" /\ k = 3 THEN ~ProceedWithDirEntry(db, w.entry)
      ELSE /\ k \in 1..Len(Listing(o)) /\ (o.shape = "root" => k < 3)
           /\ ProceedWithDirEntry(db, w.entry)
  <2>. HIDE DEF k
  <2>1. Reached(o, w, k)
    BY <1>2
  <2>. QED  BY <1>2, <2>1, ReachedEntry
<1>5. CASE o.shape = "root" /\ k = 3
  <2>1. counted = 2
    BY <1>4, <1>5
  <2>2. r = NoWalk
    <3>1. Reached(o, r, k + 1) => k + 1 \in 1..3
      BY <1>5 DEF Reached
    <3>. HIDE DEF r
    <3>. QED  BY <1>3, <1>5, <3>1
  <2>3. Len(Listing(o)) = 2
    <3>1. Listing(o) = <<Top("Channels"), Top("EPG")>>
      BY <1>5, ListingFacts
    <3>. QED  BY <3>1
  <2>. HIDE DEF r, counted
  <2>. QED  BY <1>5, <2>1, <2>2, <2>3 DEF Right, r, counted
<1>6. CASE ~(o.shape = "root" /\ k = 3)
  <2>1. counted = k
    BY <1>4, <1>6
  <2>2. o.shape = "root" => k < 3
    BY <1>4, <1>6
  <2>. HIDE DEF r, counted, k
  <2>3. r = NoWalk => o.shape # "root" /\ counted = Len(Listing(o))
    BY <1>3, <2>1, <2>2, <1>2 DEF Files
  <2>. QED  BY <1>1, <1>3, <2>1, <2>3 DEF Right, r, counted
<1>. QED  BY <1>5, <1>6

LEMMA DescribedWell ==
  ASSUME Guided, NEW o, PCGetFileDirType(db, o) \notin {0, 2}
  PROVE  Right(o, 0, GetMetaData(db, o, now).at)
<1>. DEFINE c == o.channel
            list == db.programs[c]
            sought == IF o.shape = "channel" THEN Events
                      ELSE {q \in Events : Programme[q].id = o.id}
            at == GetMetaData(db, o, now).at
            L == {q \in Live(c) : o.shape = "channel" \/ Programme[q].id = o.id}
            S == {q \in Events : Holds(list, q) /\ ~Over(q, now) /\ q \in sought}
<1>1. o.shape \in {"channel", "event"} /\ ischannel(db, c)
  BY DEF PCGetFileDirType
<1>2. /\ db \in Lists /\ c \in Channels /\ now \in Nat
      /\ list \in Seq(Events) /\ StartsInOrder(list)
  <2>1. db \in Lists /\ now \in Nat
    BY ContentDirectoryAssumption DEF Guided, ListsType
  <2>2. c \in Channels /\ list \in Seq(Events)
    BY <1>1, <2>1, Listed
  <2>. QED  BY <2>1, <2>2 DEF Guided, Sorted
<1>3. at = Sweep(list, 1, now, sought).at
  BY <1>1 DEF GetMetaData, EpgDataNow, EpgData
<1>4. Earliest(S, Sweep(list, 1, now, sought).at)
  <2>. HIDE DEF list, sought
  <2>. QED  BY <1>2, SweepFindsEarliest
<1>5. L = S
  <2>1. \A e : e \in Live(c) <=> e \in Events /\ Holds(list, e) /\ ~Over(e, now)
    BY <1>2, LiveFacts
  <2>2. \A q \in Events : q \in sought <=> o.shape = "channel" \/ Programme[q].id = o.id
    OBVIOUS
  <2>. HIDE DEF list, sought, c
  <2>. QED  BY <2>1, <2>2
<1>. HIDE DEF S, at
<1>6. Described(o, at)
  BY <1>3, <1>4, <1>5 DEF Described
<1>. QED  BY <1>1, <1>6 DEF Right, at

(* An entry whose answer is right.                                         *)
LEMMA RightShown ==
  ASSUME NEW o, Canonical(o), NEW n, NEW e, Right(o, n, e),
         o # Root => PathObject(filepath(parentID(o))) = b.dir \/ b.meta
  PROVE  Shows([id |-> cpId(o), parent |-> parentID(o), children |-> n, airing |-> e], o)
<1>. DEFINE s == [id |-> cpId(o), parent |-> parentID(o), children |-> n, airing |-> e]
<1>1. s.id = cpId(o) /\ s.parent = parentID(o) /\ s.children = n /\ s.airing = e
  OBVIOUS
<1>2. PathObject(filepath(cpId(o))) = o
  BY PathOfID DEF Canonical
<1>. HIDE DEF s
<1>3. Shows(s, o)
  BY <1>1, <1>2 DEF Shows, Right
<1>. QED  BY <1>3 DEF s

-----------------------------------------------------------------------------
(* The inductive invariant of a Browse that nothing disturbs.              *)

(* What a number of entries gives of a window.                             *)
Taken(n, si, rc) ==
  IF n <= si THEN 0 ELSE IF rc = 0 \/ n - si <= rc THEN n - si ELSE rc

(* The entries behind the walk of the requested directory have been        *)
(* answered as far as they are in the window.                              *)
ShownSoFar ==
  /\ Len(b.shown) = Taken(b.tm, b.si, b.rc) /\ b.tm <= Len(Listing(b.dir))
  /\ \A i \in DOMAIN b.shown : Shows(b.shown[i], Listing(b.dir)[b.si + i])

(* TotalMatches counts the entries behind the walk; ./VOD is walked over   *)
(* and not counted.                                                        *)
WalkedSoFar ==
  /\ b.pc = "open" => b.tm = 0
  /\ b.pc \in {"entry", "didl", "count"} => Reached(b.dir, b.walk, b.tm + 1)
  /\ b.pc \in {"didl", "count"} => /\ b.tm + 1 \in 1..Len(Listing(b.dir))
                                   /\ b.entry = Listing(b.dir)[b.tm + 1]
  /\ b.pc = "next" => \E k \in Nat : /\ Reached(b.dir, b.walk, k)
                                     /\ b.tm = IF b.dir.shape = "root" /\ k = 3 THEN 2 ELSE k
  /\ b.pc = "answer" => b.tm = Len(Listing(b.dir))

(* The metadata of one object.                                             *)
OneObject ==
  /\ b.entry = b.dir /\ b.si = 0 /\ b.rc = 0 /\ b.pc \in {"didl", "count", "answer"}
  /\ b.pc # "answer" => b.shown = <<>>
  /\ b.pc = "answer" => Len(b.shown) = 1 /\ Shows(b.shown[1], b.dir)

Exact ==
  quiet =>
    /\ b.pc # "idle"
    /\ b.dir.shape \notin {"Channels", "day"} => NothingOver
    /\ b.pc \in {"open", "entry", "next", "didl"} => b.count = 0
    /\ b.pc = "didl" => PCGetFileDirType(db, b.entry) # 0
    /\ b.pc = "count" => /\ PCGetFileDirType(db, b.entry) = 2
                         /\ Reached(b.entry, b.inner, b.count + 1) /\ InWindow(b)
    /\ IF b.meta THEN OneObject
       ELSE PCGetFileDirType(db, b.dir) = 2 /\ ShownSoFar /\ WalkedSoFar

LEMMA TakenFacts ==
  ASSUME NEW n \in Nat, NEW si \in Nat, NEW rc \in Nat
  PROVE  /\ Taken(n, si, rc) \in Nat /\ Taken(0, si, rc) = 0
         /\ Taken(n, si, rc) # 0 => si + Taken(n, si, rc) <= n
         /\ n >= si /\ (Taken(n, si, rc) < rc \/ rc = 0) =>
              /\ Taken(n + 1, si, rc) = Taken(n, si, rc) + 1
              /\ si + Taken(n, si, rc) + 1 = n + 1
         /\ ~(n >= si /\ (Taken(n, si, rc) < rc \/ rc = 0)) =>
              Taken(n + 1, si, rc) = Taken(n, si, rc)
BY DEF Taken

LEMMA ListingLength ==
  ASSUME Guided, NEW dir, Canonical(dir), PCGetFileDirType(db, dir) = 2
  PROVE  Len(Listing(dir)) \in Nat /\ DOMAIN Listing(dir) = 1..Len(Listing(dir))
<1>1. Len(db.channels) \in Nat
  BY DEF Guided, ListsType, Lists
<1>2. CASE dir.shape = "root"
  BY <1>2, ListingFacts
<1>3. CASE dir.shape \in {"Channels", "EPG"}
  BY <1>1, <1>3, ListingFacts
<1>4. CASE dir.shape \in {"guide", "day"}
  <2>1. dir.channel \in Channels
    BY <1>4, ListingFacts
  <2>2. Cardinality(Programmes(dir)) \in Nat
    BY <2>1, ProgrammesFacts, FS_CardinalityType
  <2>3. \E f : Listing(dir) = [n \in 1..Cardinality(Programmes(dir)) |-> f[n]]
    <3>. DEFINE f == [n \in 1..Cardinality(Programmes(dir)) |->
                                   IF dir.shape = "guide"
                                   THEN DayEntry(dir.channel, ByStart(Programmes(dir))[n])
                                   ELSE EventEntry(dir, ByStart(Programmes(dir))[n])]
    <3>1. Listing(dir) = f /\ f = [n \in 1..Cardinality(Programmes(dir)) |-> f[n]]
      BY <1>4, ListingFacts
    <3>. HIDE DEF f
    <3>. QED  BY <3>1
  <2>. QED  BY <2>2, <2>3
<1>. QED  BY <1>2, <1>3, <1>4, ListingFacts

LEMMA ShownOn ==
  ASSUME Guided, Steady, b \in BrowseType, Canonical(b.dir), PCGetFileDirType(db, b.dir) = 2,
         ShownSoFar, b.nr = Len(b.shown),
         b'.dir = b.dir, b'.meta = b.meta, b'.si = b.si, b'.rc = b.rc,
         \/ b'.shown = b.shown /\ b'.tm = b.tm
         \/ b'.shown = b.shown /\ b'.tm = b.tm + 1 /\ ~InWindow(b)
              /\ b.tm + 1 \in 1..Len(Listing(b.dir))
         \/ /\ b'.tm = b.tm + 1 /\ InWindow(b) /\ b.tm + 1 \in 1..Len(Listing(b.dir))
            /\ \E s : b'.shown = Append(b.shown, s) /\ Shows(s, Listing(b.dir)[b.tm + 1])
  PROVE  ShownSoFar'
<1>. DEFINE L == Listing(b.dir)
            n == Taken(b.tm, b.si, b.rc)
<1>1. /\ b.tm \in Nat /\ b.si \in Nat /\ b.rc \in Nat /\ b.nr \in Nat /\ b.shown \in Seq(Answers)
      /\ DOMAIN b.shown = 1..Len(b.shown)
  BY BrowseFields
<1>2. /\ Len(b.shown) = n /\ b.nr = n /\ b.tm <= Len(L) /\ Len(L) \in Nat
      /\ \A i \in 1..n : Shows(b.shown[i], L[b.si + i])
  BY <1>1, ListingLength DEF ShownSoFar
<1>3. /\ n \in Nat /\ (n # 0 => b.si + n <= b.tm)
      /\ InWindow(b) => Taken(b.tm + 1, b.si, b.rc) = n + 1 /\ b.si + n + 1 = b.tm + 1
      /\ ~InWindow(b) => Taken(b.tm + 1, b.si, b.rc) = n
  <2>1. /\ n \in Nat /\ (n # 0 => b.si + n <= b.tm)
        /\ b.tm >= b.si /\ (n < b.rc \/ b.rc = 0) =>
             Taken(b.tm + 1, b.si, b.rc) = n + 1 /\ b.si + n + 1 = b.tm + 1
        /\ ~(b.tm >= b.si /\ (n < b.rc \/ b.rc = 0)) => Taken(b.tm + 1, b.si, b.rc) = n
    BY <1>1, TakenFacts
  <2>2. InWindow(b) <=> b.tm >= b.si /\ (n < b.rc \/ b.rc = 0)
    BY <1>2 DEF InWindow
  <2>. QED  BY <2>1, <2>2
<1>4. Listing(b.dir)' = L
  <2>1. Owned(b.dir)
    BY OwnedFacts
  <2>. QED  BY <2>1, SteadyDirectory
<1>5. \A i \in 1..Len(L) : Owned(L[i])
  BY OwnedFacts
<1>. HIDE DEF L, n
<1>6. \A s, o : Owned(o) /\ Shows(s, o) => Shows(s, o)'
  BY SteadyShows
<1>7. \A i \in 1..n : \A s, o : s = b.shown[i] /\ o = L[b.si + i] => Shows(s, o)'
  <2>1. ASSUME NEW i \in 1..n
        PROVE  b.si + i \in 1..Len(L)
    <3>1. i \in Nat /\ i >= 1 /\ i <= n /\ n # 0
      BY <1>3, <2>1
    <3>2. b.si + n <= b.tm /\ b.tm <= Len(L) /\ Len(L) \in Nat /\ n \in Nat
      BY <1>2, <1>3, <3>1
    <3>. QED  BY <1>1, <3>1, <3>2
  <2>. QED  BY <1>2, <1>5, <1>6, <2>1
<1>8. CASE b'.shown = b.shown /\ b'.tm = b.tm
  BY <1>1, <1>2, <1>4, <1>7, <1>8 DEF ShownSoFar, L, n
<1>9. CASE /\ b'.shown = b.shown /\ b'.tm = b.tm + 1 /\ ~InWindow(b)
           /\ b.tm + 1 \in 1..Len(L)
  <2>1. Taken(b'.tm, b'.si, b'.rc) = n
    BY <1>3, <1>9
  <2>2. b'.tm <= Len(L)
    BY <1>1, <1>2, <1>9
  <2>. QED  BY <1>1, <1>2, <1>4, <1>7, <1>9, <2>1, <2>2 DEF ShownSoFar, L
<1>10. ASSUME b'.tm = b.tm + 1, InWindow(b), b.tm + 1 \in 1..Len(L),
              NEW s, b'.shown = Append(b.shown, s), Shows(s, L[b.tm + 1])
       PROVE  ShownSoFar'
  <2>1. Taken(b'.tm, b'.si, b'.rc) = n + 1 /\ b.si + n + 1 = b.tm + 1
    BY <1>3, <1>10
  <2>2. b'.tm <= Len(L)
    BY <1>1, <1>2, <1>10
  <2>3. /\ Len(b'.shown) = n + 1 /\ DOMAIN b'.shown = 1..(n + 1)
        /\ \A i \in 1..n : b'.shown[i] = b.shown[i]
        /\ b'.shown[n + 1] = s
    <3>. DEFINE S == Answers \cup {s}
    <3>1. b.shown \in Seq(S) /\ s \in S
      BY <1>1, SeqMonotonic
    <3>. HIDE DEF S
    <3>. QED  BY <1>2, <1>3, <1>10, <3>1, AppendProperties
  <2>4. \A o : o = L[b.tm + 1] => Shows(s, o)'
    BY <1>5, <1>6, <1>10
  <2>5. ASSUME NEW i \in 1..(n + 1)
        PROVE  Shows(b.shown[i], Listing(b.dir)[b.si + i])'
    <3>1. CASE i \in 1..n
      BY <1>4, <1>7, <2>3, <3>1 DEF L
    <3>2. CASE i = n + 1
      <4>1. b.si + i = b.tm + 1
        BY <1>1, <1>3, <2>1, <3>2
      <4>. QED  BY <1>4, <2>3, <2>4, <3>2, <4>1 DEF L
    <3>. QED  BY <1>3, <2>5, <3>1, <3>2
  <2>. QED  BY <1>4, <2>1, <2>2, <2>3, <2>5 DEF ShownSoFar, L
<1>. QED  BY <1>8, <1>9, <1>10 DEF L

-----------------------------------------------------------------------------
(* The steps of a Browse that nothing disturbs.                            *)

LEMMA EntryFacts ==
  ASSUME Guided, Browsing, Exact, quiet, b.pc \in {"didl", "count"}
  PROVE  /\ PCGetFileDirType(db, b.entry) # 0 /\ Owned(b.entry) /\ Canonical(b.entry)
         /\ b.entry.shape = "guide" => NothingOver
         /\ b.entry # Root => PathObject(filepath(parentID(b.entry))) = b.dir \/ b.meta
         /\ ~b.meta => ~(b.dir.shape = "root" /\ b.tm + 1 = 3)
<1>1. Canonical(b.dir) /\ Canonical(b.entry) /\ b.tm \in Nat
  BY BrowseFields DEF Browsing
<1>2. PCGetFileDirType(db, b.entry) # 0
  BY DEF Exact
<1>3. Owned(b.entry)
  BY <1>2, OwnedFacts
<1>4. CASE b.meta
  <2>1. b.entry = b.dir
    BY <1>4 DEF Exact, OneObject
  <2>. QED  BY <1>1, <1>2, <1>3, <1>4, <2>1 DEF Exact
<1>5. CASE ~b.meta
  <2>1. /\ PCGetFileDirType(db, b.dir) = 2 /\ Reached(b.dir, b.walk, b.tm + 1)
        /\ b.tm + 1 \in 1..Len(Listing(b.dir)) /\ b.entry = Listing(b.dir)[b.tm + 1]
        /\ b.dir.shape \notin {"Channels", "day"} => NothingOver
    BY <1>5 DEF Exact, WalkedSoFar
  <2>. DEFINE k == b.tm + 1
  <2>2. k \in Nat
    BY <1>1
  <2>3. b.entry = b.walk.entry
    BY <1>5 DEF Browsing, Walking
  <2>4. ~(b.dir.shape = "root" /\ k = 3)
    <3>1. ASSUME b.dir.shape = "root"
          PROVE  Len(Listing(b.dir)) = 2
      <4>1. Listing(b.dir) = <<Top("Channels"), Top("EPG")>>
        BY <1>1, <2>1, <3>1, ListingFacts
      <4>. QED  BY <4>1
    <3>. QED  BY <2>1, <3>1
  <2>5. Reached(b.dir, b.walk, k)
    BY <2>1
  <2>6. b.entry.shape = "guide" => b.dir.shape = "EPG"
    BY <1>1, <2>1, OwnedFacts
  <2>. HIDE DEF k
  <2>7. PathObject(filepath(parentID(b.entry))) = b.dir
    BY <1>1, <2>1, <2>2, <2>3, <2>4, <2>5, ReachedEntry
  <2>. QED  BY <1>1, <1>2, <1>3, <2>1, <2>4, <2>6, <2>7 DEF k
<1>. QED  BY <1>4, <1>5

(* What holds of the lists after a step that held before it.               *)
LEMMA StillExact ==
  ASSUME Guided, Browsing, Exact, quiet, Steady, b'.dir = b.dir
  PROVE  /\ b'.dir.shape \notin {"Channels", "day"} => NothingOver'
         /\ \A o : PCGetFileDirType(db', o) = PCGetFileDirType(db, o)
         /\ PCGetFileDirType(db, b.dir) = 2 =>
              /\ Listing(b.dir)' = Listing(b.dir)
              /\ \A k : Reached(b.dir, b.walk, k) /\ b'.walk = b.walk => Reached(b.dir, b.walk, k)'
<1>1. /\ b.dir.shape \notin {"Channels", "day"} => NothingOver
  BY DEF Exact
<1>2. ASSUME PCGetFileDirType(db, b.dir) = 2
      PROVE  /\ Listing(b.dir)' = Listing(b.dir)
             /\ \A k : Reached(b.dir, b.walk, k) /\ b'.walk = b.walk => Reached(b.dir, b.walk, k)'
  <2>1. Owned(b.dir)
    BY <1>2, OwnedFacts
  <2>2. \A o : Owned(o) => /\ Listing(o)' = Listing(o)
                           /\ \A w, k : Reached(o, w, k) => Reached(o, w, k)'
    BY SteadyDirectory
  <2>. QED  BY <2>1, <2>2
<1>. QED  BY <1>1, <1>2, SteadyLists

LEMMA ExactEmit ==
  ASSUME Guided, Browsing, Exact, quiet, Steady, quiet' = quiet,
         b.pc \in {"didl", "count"}, InWindow(b),
         NEW n \in Nat, NEW e \in Nat, Emit(n, e), Right(b.entry, n, e)
  PROVE  Exact'
<1>. DEFINE s == [id |-> cpId(b.entry), parent |-> parentID(b.entry), children |-> n, airing |-> e]
            p == AfterEntry
            q == Append(b.shown, s)
            n1 == b.nr + 1
            m1 == b.tm + 1
<1>1. /\ b \in BrowseType /\ b.nr = Len(b.shown) /\ Canonical(b.dir) /\ Canonical(b.entry)
      /\ b.tm \in Nat /\ b.shown \in Seq(Answers)
  BY BrowseFields DEF Browsing
<1>2. /\ PCGetFileDirType(db, b.entry) # 0 /\ Owned(b.entry)
      /\ b.entry # Root => PathObject(filepath(parentID(b.entry))) = b.dir \/ b.meta
      /\ ~b.meta => ~(b.dir.shape = "root" /\ b.tm + 1 = 3)
  BY EntryFacts
<1>3. Shows(s, b.entry)
  BY <1>1, <1>2, RightShown
<1>4. b' = [b EXCEPT !.shown = q, !.nr = n1, !.tm = m1, !.inner = NoWalk, !.count = 0, !.pc = p]
  BY DEF Emit
<1>5. p = IF b.meta THEN "answer" ELSE "next"
  BY DEF AfterEntry
<1>6. q = Append(b.shown, s) /\ m1 = b.tm + 1
  OBVIOUS
<1>. HIDE DEF s, p, q, n1, m1
<1>7. /\ b'.pc = p /\ b'.dir = b.dir /\ b'.meta = b.meta /\ b'.entry = b.entry /\ b'.walk = b.walk
      /\ b'.si = b.si /\ b'.rc = b.rc /\ b'.tm = m1 /\ b'.count = 0 /\ b'.shown = q
  BY <1>1, <1>4 DEF BrowseType
<1>8. CASE b.meta
  <2>1. /\ b.entry = b.dir /\ b.si = 0 /\ b.rc = 0 /\ b.shown = <<>>
    BY <1>8 DEF Exact, OneObject
  <2>2. Len(b'.shown) = 1 /\ b'.shown[1] = s
    BY <1>6, <1>7, <2>1
  <2>3. \A o, x : Owned(o) /\ Shows(x, o) => Shows(x, o)'
    BY <1>7, SteadyShows
  <2>4. Shows(b.shown[1], b.dir)'
    BY <1>2, <1>3, <1>7, <2>1, <2>2, <2>3
  <2>5. OneObject'
    BY <1>5, <1>7, <1>8, <2>1, <2>2, <2>4 DEF OneObject
  <2>. QED  BY <1>5, <1>7, <1>8, <2>5, StillExact DEF Exact
<1>9. CASE ~b.meta
  <2>1. /\ PCGetFileDirType(db, b.dir) = 2 /\ Reached(b.dir, b.walk, b.tm + 1) /\ ShownSoFar
        /\ b.tm + 1 \in 1..Len(Listing(b.dir)) /\ b.entry = Listing(b.dir)[b.tm + 1]
    BY <1>9 DEF Exact, WalkedSoFar
  <2>2. ShownSoFar'
    BY <1>1, <1>3, <1>6, <1>7, <2>1, ShownOn
  <2>3. PCGetFileDirType(db', b'.dir) = 2
    BY <1>7, <2>1, StillExact
  <2>4. \A k : k = m1 => Reached(b.dir, b.walk, k)'
    BY <1>6, <1>7, <2>1, StillExact
  <2>5. WalkedSoFar'
    <3>1. m1 \in Nat
      BY <1>1, <1>6
    <3>2. b'.tm = IF b'.dir.shape = "root" /\ m1 = 3 THEN 2 ELSE m1
      BY <1>2, <1>6, <1>7, <1>9
    <3>3. b'.pc = "next"
      BY <1>5, <1>7, <1>9
    <3>4. \E k \in Nat : /\ Reached(b.dir, b.walk, k)'
                         /\ b'.tm = IF b'.dir.shape = "root" /\ k = 3 THEN 2 ELSE k
      BY <2>4, <3>1, <3>2
    <3>. QED  BY <3>3, <3>4 DEF WalkedSoFar
  <2>. QED  BY <1>5, <1>7, <1>9, <2>2, <2>3, <2>5, StillExact DEF Exact
<1>. QED  BY <1>8, <1>9

(* The walk of the requested directory goes on.                            *)
LEMMA ExactWalk ==
  ASSUME Guided, Browsing, Exact, quiet, Steady, quiet' = quiet, b.pc \in {"open", "next"},
         NEW walk, b' = [b EXCEPT !.walk = walk, !.pc = IF walk = NoWalk THEN "answer" ELSE "entry"],
         IF walk = NoWalk THEN b.tm = Len(Listing(b.dir)) ELSE Reached(b.dir, walk, b.tm + 1)
  PROVE  Exact'
<1>. DEFINE p == IF walk = NoWalk THEN "answer" ELSE "entry"
<1>1. /\ b \in BrowseType /\ b.nr = Len(b.shown) /\ Canonical(b.dir) /\ b.tm \in Nat
  BY BrowseFields DEF Browsing
<1>2. b' = [b EXCEPT !.walk = walk, !.pc = p] /\ p \in {"answer", "entry"}
  OBVIOUS
<1>3. p = "answer" => walk = NoWalk
  OBVIOUS
<1>4. p = "entry" => walk # NoWalk
  OBVIOUS
<1>. HIDE DEF p
<1>5. /\ b'.pc = p /\ b'.dir = b.dir /\ b'.meta = b.meta /\ b'.walk = walk /\ b'.count = b.count
      /\ b'.si = b.si /\ b'.rc = b.rc /\ b'.tm = b.tm /\ b'.shown = b.shown
  BY <1>1, <1>2 DEF BrowseType
<1>6. /\ ~b.meta /\ PCGetFileDirType(db, b.dir) = 2 /\ ShownSoFar /\ b.count = 0
  BY DEF Exact, OneObject
<1>7. ShownSoFar'
  BY <1>1, <1>5, <1>6, ShownOn
<1>8. PCGetFileDirType(db', b'.dir) = 2 /\ Listing(b.dir)' = Listing(b.dir)
  BY <1>5, <1>6, StillExact
<1>9. WalkedSoFar'
  <2>1. ASSUME p = "entry"
        PROVE  \A k : k = b.tm + 1 => Reached(b.dir, b.walk, k)'
    <3>1. Reached(b.dir, walk, b.tm + 1)
      BY <1>4, <2>1
    <3>2. Owned(b.dir)
      BY <1>6, OwnedFacts
    <3>3. \A o, w, k : Owned(o) /\ Reached(o, w, k) => Reached(o, w, k)'
      BY SteadyDirectory
    <3>. QED  BY <1>5, <3>1, <3>2, <3>3
  <2>2. ASSUME p = "answer"
        PROVE  b'.tm = Len(Listing(b.dir))'
    BY <1>3, <1>5, <1>8, <2>2
  <2>. QED  BY <1>2, <1>5, <2>1, <2>2 DEF WalkedSoFar
<1>. QED  BY <1>2, <1>5, <1>6, <1>7, <1>8, <1>9, StillExact DEF Exact

LEMMA ExactOpen ==
  ASSUME Guided, Browsing, Exact, quiet, Steady, OpenDir
  PROVE  Exact'
<1>. DEFINE w == PCGetDirFirstFile(db, b.dir, TRUE, now).walk
<1>1. /\ b.pc = "open" /\ quiet' = quiet
      /\ b' = [b EXCEPT !.walk = w, !.pc = IF w = NoWalk THEN "answer" ELSE "entry"]
  BY DEF OpenDir
<1>2. /\ Canonical(b.dir) /\ PCGetFileDirType(db, b.dir) = 2 /\ b.tm = 0
      /\ b.dir.shape = "guide" => NothingOver
  BY <1>1 DEF Browsing, Exact, OneObject, WalkedSoFar
<1>3. IF w = NoWalk THEN Files(b.dir) = 0 ELSE Reached(b.dir, w, 1)
  <2>. HIDE DEF w
  <2>. QED  BY <1>2, FirstReached DEF w
<1>. HIDE DEF w
<1>4. IF w = NoWalk THEN b.tm = Len(Listing(b.dir)) ELSE Reached(b.dir, w, b.tm + 1)
  BY <1>2, <1>3 DEF Files
<1>. QED  BY <1>1, <1>4, ExactWalk

LEMMA ExactNext ==
  ASSUME Guided, Browsing, Exact, quiet, Steady, NextEntry, b'.pc # "undefined"
  PROVE  Exact'
<1>. DEFINE w == PCGetDirNextFile(db, b.dir, b.walk, now).walk
<1>1. /\ b.pc = "next" /\ quiet' = quiet
      /\ b' = [b EXCEPT !.walk = w, !.pc = IF w = NoWalk THEN "answer" ELSE "entry"]
  <2>1. Dangling(db, b.dir, b.walk) => b' = [b EXCEPT !.pc = "undefined"]
    BY DEF NextEntry, At
  <2>2. ~Dangling(db, b.dir, b.walk)
    BY <2>1 DEF Browsing, BrowseType
  <2>. QED  BY <2>2 DEF NextEntry
<1>2. /\ Canonical(b.dir) /\ PCGetFileDirType(db, b.dir) = 2 /\ b.tm \in Nat
      /\ \E k \in Nat : /\ Reached(b.dir, b.walk, k)
                        /\ b.tm = IF b.dir.shape = "root" /\ k = 3 THEN 2 ELSE k
  BY <1>1, BrowseFields DEF Browsing, Exact, OneObject, WalkedSoFar
<1>3. PICK k \in Nat : /\ Reached(b.dir, b.walk, k)
                       /\ b.tm = IF b.dir.shape = "root" /\ k = 3 THEN 2 ELSE k
  BY <1>2
<1>4. IF w = NoWalk THEN k = Files(b.dir) ELSE Reached(b.dir, w, k + 1)
  <2>. HIDE DEF w
  <2>. QED  BY <1>2, <1>3, NextReached DEF w
<1>5. b.dir.shape = "root" => /\ Len(Listing(b.dir)) = 2
                              /\ \A j : Reached(b.dir, w, j) => j \in 1..3
  <2>1. ASSUME b.dir.shape = "root"
        PROVE  Len(Listing(b.dir)) = 2
    <3>1. Listing(b.dir) = <<Top("Channels"), Top("EPG")>>
      BY <1>2, <2>1, ListingFacts
    <3>. QED  BY <3>1
  <2>2. ASSUME b.dir.shape = "root", NEW j, Reached(b.dir, w, j)
        PROVE  j \in 1..3
    <3>. HIDE DEF w
    <3>. QED  BY <2>2 DEF Reached
  <2>. QED  BY <2>1, <2>2
<1>. HIDE DEF w
<1>6. IF w = NoWalk THEN b.tm = Len(Listing(b.dir)) ELSE Reached(b.dir, w, b.tm + 1)
  <2>1. CASE b.dir.shape = "root"
    <3>1. w # NoWalk => k # 3
      BY <1>4, <1>5, <2>1
    <3>2. w = NoWalk => k = 3
      BY <1>4, <2>1 DEF Files
    <3>3. k = 3 => b.tm = Len(Listing(b.dir))
      BY <1>3, <1>5, <2>1
    <3>4. k # 3 => b.tm = k
      BY <1>3
    <3>. QED  BY <1>4, <3>1, <3>2, <3>3, <3>4
  <2>2. CASE b.dir.shape # "root"
    <3>1. b.tm = k
      BY <1>3, <2>2
    <3>. QED  BY <1>4, <2>2, <3>1 DEF Files
  <2>. QED  BY <2>1, <2>2
<1>. QED  BY <1>1, <1>6, ExactWalk

(* An entry is taken up, or passed over: only ./VOD is.                    *)
LEMMA ExactEntry ==
  ASSUME Guided, Browsing, Exact, quiet, Steady, Entry
  PROVE  Exact'
<1>1. /\ b \in BrowseType /\ b.nr = Len(b.shown) /\ Canonical(b.dir) /\ b.tm \in Nat
  BY BrowseFields DEF Browsing
<1>2. /\ b.pc = "entry" /\ quiet' = quiet
      /\ IF ProceedWithDirEntry(db, b.walk.entry)
         THEN b' = [b EXCEPT !.entry = b.walk.entry, !.pc = "didl"]
         ELSE b' = [b EXCEPT !.pc = "next"]
  BY DEF Entry
<1>3. /\ b'.dir = b.dir /\ b'.meta = b.meta /\ b'.walk = b.walk /\ b'.count = b.count
      /\ b'.si = b.si /\ b'.rc = b.rc /\ b'.tm = b.tm /\ b'.shown = b.shown
      /\ IF ProceedWithDirEntry(db, b.walk.entry) THEN b'.pc = "didl" /\ b'.entry = b.walk.entry
         ELSE b'.pc = "next"
  BY <1>1, <1>2 DEF BrowseType
<1>4. /\ ~b.meta /\ PCGetFileDirType(db, b.dir) = 2 /\ ShownSoFar /\ b.count = 0
      /\ Reached(b.dir, b.walk, b.tm + 1)
  BY <1>2 DEF Exact, OneObject, WalkedSoFar
<1>5. ShownSoFar'
  BY <1>1, <1>3, <1>4, ShownOn
<1>6. /\ PCGetFileDirType(db', b'.dir) = 2 /\ Listing(b.dir)' = Listing(b.dir)
      /\ \A k : k = b.tm + 1 => Reached(b.dir, b.walk, k)'
      /\ \A o : PCGetFileDirType(db', o) = PCGetFileDirType(db, o)
  BY <1>3, <1>4, StillExact
<1>7. IF b.dir.shape = "root" /\ b.tm + 1 = 3 THEN ~ProceedWithDirEntry(db, b.walk.entry)
      ELSE /\ b.tm + 1 \in 1..Len(Listing(b.dir)) /\ Listing(b.dir)[b.tm + 1] = b.walk.entry
           /\ ProceedWithDirEntry(db, b.walk.entry)
  <2>1. PICK k \in Nat : k = b.tm + 1
    BY <1>1
  <2>. QED  BY <1>1, <1>4, <2>1, ReachedEntry
<1>8. CASE ProceedWithDirEntry(db, b.walk.entry)
  <2>1. PCGetFileDirType(db', b'.entry) # 0
    BY <1>3, <1>6, <1>8 DEF ProceedWithDirEntry
  <2>2. WalkedSoFar'
    BY <1>3, <1>6, <1>7, <1>8 DEF WalkedSoFar
  <2>. QED  BY <1>3, <1>4, <1>5, <1>6, <1>8, <2>1, <2>2, StillExact DEF Exact
<1>9. CASE ~ProceedWithDirEntry(db, b.walk.entry)
  <2>1. b'.pc = "next" /\ b.dir.shape = "root" /\ b.tm + 1 = 3 /\ b'.tm = 2
    BY <1>1, <1>3, <1>7, <1>9
  <2>2. \E k \in Nat : /\ Reached(b.dir, b.walk, k)'
                       /\ b'.tm = IF b'.dir.shape = "root" /\ k = 3 THEN 2 ELSE k
    BY <1>3, <1>6, <2>1
  <2>3. WalkedSoFar'
    BY <2>1, <2>2 DEF WalkedSoFar
  <2>. QED  BY <1>3, <1>4, <1>5, <1>6, <2>1, <2>3, StillExact DEF Exact
<1>. QED  BY <1>8, <1>9

(* An entry outside the window is counted and not answered.                *)
LEMMA ExactSkip ==
  ASSUME Guided, Browsing, Exact, quiet, Steady, Skipped
  PROVE  Exact'
<1>. DEFINE p == AfterEntry
            m1 == b.tm + 1
<1>1. /\ b \in BrowseType /\ b.nr = Len(b.shown) /\ Canonical(b.dir) /\ b.tm \in Nat /\ b.rc \in Nat
  BY BrowseFields DEF Browsing
<1>2. b.pc = "didl" /\ ~InWindow(b) /\ b' = [b EXCEPT !.tm = m1, !.pc = p] /\ quiet' = quiet
  BY DEF Skipped
<1>3. ~b.meta
  BY <1>1, <1>2 DEF Exact, OneObject, InWindow
<1>4. p = "next" /\ m1 = b.tm + 1 /\ m1 \in Nat
  BY <1>1, <1>3 DEF AfterEntry
<1>. HIDE DEF p, m1
<1>5. /\ b'.pc = p /\ b'.dir = b.dir /\ b'.meta = b.meta /\ b'.walk = b.walk /\ b'.count = b.count
      /\ b'.si = b.si /\ b'.rc = b.rc /\ b'.tm = m1 /\ b'.shown = b.shown
  BY <1>1, <1>2 DEF BrowseType
<1>6. /\ PCGetFileDirType(db, b.dir) = 2 /\ ShownSoFar /\ b.count = 0
      /\ Reached(b.dir, b.walk, b.tm + 1) /\ b.tm + 1 \in 1..Len(Listing(b.dir))
  BY <1>2, <1>3 DEF Exact, WalkedSoFar
<1>7. ShownSoFar'
  BY <1>1, <1>2, <1>4, <1>5, <1>6, ShownOn
<1>8. ~(b.dir.shape = "root" /\ b.tm + 1 = 3)
  BY <1>2, <1>3, EntryFacts
<1>9. /\ PCGetFileDirType(db', b'.dir) = 2 /\ \A k : k = m1 => Reached(b.dir, b.walk, k)'
  BY <1>4, <1>5, <1>6, StillExact
<1>10. \E k \in Nat : /\ Reached(b.dir, b.walk, k)'
                      /\ b'.tm = IF b'.dir.shape = "root" /\ k = 3 THEN 2 ELSE k
  BY <1>4, <1>5, <1>8, <1>9
<1>11. WalkedSoFar'
  BY <1>4, <1>5, <1>10 DEF WalkedSoFar
<1>. QED  BY <1>3, <1>4, <1>5, <1>6, <1>7, <1>9, <1>11, StillExact DEF Exact

(* The children of an entry are counted.                                   *)
LEMMA ExactCount ==
  ASSUME Guided, Browsing, Exact, quiet, Steady, quiet' = quiet,
         b.pc \in {"didl", "count"}, InWindow(b), PCGetFileDirType(db, b.entry) = 2,
         NEW w, NEW n \in Nat, b' = [b EXCEPT !.inner = w, !.count = n, !.pc = "count"],
         Reached(b.entry, w, n + 1)
  PROVE  Exact'
<1>1. /\ b \in BrowseType /\ b.nr = Len(b.shown) /\ Canonical(b.dir) /\ b.tm \in Nat
  BY BrowseFields DEF Browsing
<1>2. /\ b'.pc = "count" /\ b'.dir = b.dir /\ b'.meta = b.meta /\ b'.entry = b.entry
      /\ b'.walk = b.walk /\ b'.inner = w /\ b'.count = n
      /\ b'.si = b.si /\ b'.rc = b.rc /\ b'.tm = b.tm /\ b'.nr = b.nr /\ b'.shown = b.shown
  BY <1>1 DEF BrowseType
<1>3. PCGetFileDirType(db', b'.entry) = 2 /\ InWindow(b')
  BY <1>2, StillExact DEF InWindow
<1>4. Reached(b.entry, b.inner, b.count + 1)'
  <2>1. Owned(b.entry)
    BY OwnedFacts
  <2>2. \A o, x, k : Owned(o) /\ Reached(o, x, k) => Reached(o, x, k)'
    BY SteadyDirectory
  <2>. QED  BY <1>2, <2>1, <2>2
<1>5. CASE b.meta
  <2>1. OneObject'
    BY <1>2, <1>5 DEF Exact, OneObject
  <2>. QED  BY <1>2, <1>3, <1>4, <1>5, <2>1, StillExact DEF Exact
<1>6. CASE ~b.meta
  <2>1. /\ PCGetFileDirType(db, b.dir) = 2 /\ Reached(b.dir, b.walk, b.tm + 1) /\ ShownSoFar
        /\ b.tm + 1 \in 1..Len(Listing(b.dir)) /\ b.entry = Listing(b.dir)[b.tm + 1]
    BY <1>6 DEF Exact, WalkedSoFar
  <2>2. ShownSoFar'
    BY <1>1, <1>2, <2>1, ShownOn
  <2>3. /\ PCGetFileDirType(db', b'.dir) = 2 /\ Listing(b.dir)' = Listing(b.dir)
        /\ \A k : k = b.tm + 1 => Reached(b.dir, b.walk, k)'
    BY <1>2, <2>1, StillExact
  <2>4. WalkedSoFar'
    BY <1>2, <2>1, <2>3 DEF WalkedSoFar
  <2>. QED  BY <1>2, <1>3, <1>4, <1>6, <2>2, <2>3, <2>4, StillExact DEF Exact
<1>. QED  BY <1>5, <1>6

LEMMA ExactCountFirst ==
  ASSUME Guided, Browsing, Exact, quiet, Steady, CountFirst
  PROVE  Exact'
<1>. DEFINE w == PCGetDirFirstFile(db, b.entry, b.entry = Root, now).walk
<1>1. /\ b.pc = "didl" /\ quiet' = quiet /\ InWindow(b) /\ PCGetFileDirType(db, b.entry) = 2
      /\ IF w = NoWalk THEN Emit(0, NoEvent) ELSE b' = [b EXCEPT !.inner = w, !.pc = "count"]
  BY DEF CountFirst
<1>2. b \in BrowseType /\ Canonical(b.entry) /\ b.count = 0
  BY <1>1 DEF Browsing, Exact
<1>3. IF w = NoWalk THEN Right(b.entry, 0, NoEvent) ELSE Reached(b.entry, w, 1)
  <2>. HIDE DEF w
  <2>1. b.entry.shape = "guide" => NothingOver
    BY <1>1, EntryFacts
  <2>. QED  BY <1>1, <1>2, <2>1, NothingCounted DEF w
<1>. HIDE DEF w
<1>4. CASE w = NoWalk
  BY <1>1, <1>3, <1>4, ExactEmit DEF NoEvent
<1>5. CASE w # NoWalk
  <2>1. b' = [b EXCEPT !.inner = w, !.count = 0, !.pc = "count"]
    <3>1. b' = [b EXCEPT !.inner = w, !.pc = "count"]
      BY <1>1, <1>5
    <3>2. [b EXCEPT !.inner = w, !.pc = "count"] = [b EXCEPT !.inner = w, !.count = 0, !.pc = "count"]
      BY <1>2 DEF BrowseType
    <3>. QED  BY <3>1, <3>2
  <2>2. Reached(b.entry, w, 0 + 1)
    BY <1>3, <1>5
  <2>. QED  BY <1>1, <2>1, <2>2, ExactCount
<1>. QED  BY <1>4, <1>5

LEMMA ExactCountNext ==
  ASSUME Guided, Browsing, Exact, quiet, Steady, CountNext, b'.pc # "undefined"
  PROVE  Exact'
<1>. DEFINE w == PCGetDirNextFile(db, b.entry, b.inner, now).walk
            n == IF ProceedWithDirEntry(db, b.inner.entry) THEN b.count + 1 ELSE b.count
<1>0. b \in BrowseType /\ Canonical(b.entry) /\ b.count \in Nat
  BY BrowseFields DEF Browsing
<1>1. /\ b.pc = "count" /\ quiet' = quiet
      /\ IF w = NoWalk THEN Emit(n, NoEvent) ELSE b' = [b EXCEPT !.inner = w, !.count = n]
  <2>1. Dangling(db, b.entry, b.inner) => b' = [b EXCEPT !.pc = "undefined"]
    BY DEF CountNext, At
  <2>2. ~Dangling(db, b.entry, b.inner)
    BY <1>0, <2>1 DEF BrowseType
  <2>. QED  BY <2>2 DEF CountNext
<1>2. /\ InWindow(b) /\ PCGetFileDirType(db, b.entry) = 2
      /\ Reached(b.entry, b.inner, b.count + 1)
  BY <1>1 DEF Exact
<1>3. IF w = NoWalk THEN Right(b.entry, n, NoEvent) ELSE Reached(b.entry, w, n + 1)
  BY <1>0, <1>2, CountedOn
<1>4. n \in Nat
  BY <1>0
<1>. HIDE DEF w, n
<1>5. CASE w = NoWalk
  BY <1>1, <1>2, <1>3, <1>4, <1>5, ExactEmit DEF NoEvent
<1>6. CASE w # NoWalk
  <2>1. b' = [b EXCEPT !.inner = w, !.count = n, !.pc = "count"]
    <3>1. b' = [b EXCEPT !.inner = w, !.count = n]
      BY <1>1, <1>6
    <3>2. [b EXCEPT !.inner = w, !.count = n] = [b EXCEPT !.inner = w, !.count = n, !.pc = "count"]
      BY <1>0, <1>1 DEF BrowseType
    <3>. QED  BY <3>1, <3>2
  <2>. QED  BY <1>1, <1>2, <1>3, <1>4, <1>6, <2>1, ExactCount
<1>. QED  BY <1>5, <1>6

(* An item is described.                                                   *)
LEMMA ExactDescribe ==
  ASSUME Guided, Browsing, Exact, quiet, Steady, Describe, b'.pc # "undefined"
  PROVE  Exact'
<1>. DEFINE e == GetMetaData(db, b.entry, now).at
<1>0. b \in BrowseType
  BY DEF Browsing
<1>1. /\ b.pc = "didl" /\ quiet' = quiet /\ InWindow(b) /\ PCGetFileDirType(db, b.entry) # 2
      /\ Emit(0, e)
  <2>1. \/ b' = [b EXCEPT !.pc = "undefined"]
        \/ Emit(0, e)
    BY DEF Describe, At
  <2>2. b' # [b EXCEPT !.pc = "undefined"]
    BY <1>0 DEF BrowseType
  <2>. HIDE DEF e
  <2>. QED  BY <2>1, <2>2 DEF Describe
<1>2. PCGetFileDirType(db, b.entry) \notin {0, 2}
  BY <1>1, EntryFacts
<1>3. Right(b.entry, 0, e)
  BY <1>2, DescribedWell
<1>4. e \in Nat
  <2>1. db \in Lists /\ now \in Nat
    BY ContentDirectoryAssumption DEF Guided, ListsType
  <2>2. e \in Events \cup {NoEvent}
    BY <2>1, MetaDataFacts
  <2>3. Events \subseteq Nat /\ NoEvent \in Nat
    BY GuideAssumption DEF NoEvent
  <2>. QED  BY <2>2, <2>3
<1>. HIDE DEF e
<1>. QED  BY <1>1, <1>3, <1>4, ExactEmit

(* It begins at the first entry.                                           *)
LEMMA ExactBegins ==
  ASSUME Guided, Browsing, NEW o \in Requested, NEW meta \in BOOLEAN, NEW w \in Windows,
         CdsBrowse(cpId(o), meta, w), quiet'
  PROVE  Exact'
<1>. DEFINE si == IF meta THEN 0 ELSE w[1]
            rc == IF meta THEN 0 ELSE w[2]
            p == IF meta THEN "didl" ELSE "open"
            type == PCGetFileDirType(db, o)
<1>1. Canonical(o) /\ o \in Entries
  BY ContentDirectoryAssumption DEF Canonical
<1>2. PathObject(filepath(cpId(o))) = o
  BY <1>1, PathOfID DEF Canonical
<1>3. si \in Nat /\ rc \in Nat /\ p \in Phases /\ (meta => si = 0 /\ rc = 0)
  BY ContentDirectoryAssumption DEF Phases
<1>4. /\ b' = [Idle EXCEPT !.dir = o, !.entry = o, !.meta = meta, !.si = si, !.rc = rc, !.pc = p]
      /\ quiet' = Settled(o) /\ db' = db /\ now' = now
      /\ type = 2 \/ (type = 1 /\ meta)
  BY <1>2 DEF CdsBrowse, lists
<1>5. p = IF meta THEN "didl" ELSE "open"
  OBVIOUS
<1>6. Idle \in BrowseType /\ Idle.tm = 0 /\ Idle.shown = <<>> /\ Idle.count = 0
  BY IdleType DEF Idle
<1>. HIDE DEF si, rc, p
<1>7. /\ b'.dir = o /\ b'.entry = o /\ b'.meta = meta /\ b'.pc = p /\ b'.si = si /\ b'.rc = rc
      /\ b'.tm = 0 /\ b'.shown = <<>> /\ b'.count = 0
  BY <1>1, <1>3, <1>4, <1>6 DEF BrowseType
<1>8. o.shape \notin {"Channels", "day"} => NothingOver
  BY <1>4 DEF Settled, NothingOver
<1>9. /\ \A q : PCGetFileDirType(db', q) = PCGetFileDirType(db, q)
      /\ NothingOver => NothingOver'
  BY <1>4 DEF NothingOver
<1>10. CASE meta
  <2>1. OneObject'
    BY <1>3, <1>5, <1>7, <1>10 DEF OneObject
  <2>. QED  BY <1>4, <1>5, <1>7, <1>8, <1>9, <1>10, <2>1 DEF Exact
<1>11. CASE ~meta
  <2>1. type = 2
    BY <1>4, <1>11
  <2>2. Listing(o)' = Listing(o) /\ Len(Listing(o)) \in Nat
    <3>1. Steady
      <4>1. db \in Lists
        BY DEF Guided, ListsType
      <4>. QED  BY <1>4, <4>1, SweptSame DEF Steady
    <3>2. Owned(o)
      BY <2>1, OwnedFacts
    <3>. QED  BY <1>1, <2>1, <3>1, <3>2, SteadyDirectory, ListingLength
  <2>3. Taken(0, si, rc) = 0 /\ Len(<<>>) = 0 /\ DOMAIN <<>> = {}
    BY <1>3, TakenFacts
  <2>4. 0 <= Len(Listing(o))
    BY <2>2
  <2>5. ShownSoFar'
    BY <1>7, <2>2, <2>3, <2>4 DEF ShownSoFar
  <2>6. WalkedSoFar'
    BY <1>5, <1>7, <1>11 DEF WalkedSoFar
  <2>. QED  BY <1>4, <1>5, <1>7, <1>8, <1>9, <1>11, <2>1, <2>5, <2>6 DEF Exact
<1>. QED  BY <1>10, <1>11

LEMMA ExactStep ==
  ASSUME Guided, Browsing, Undisturbed, Exact, [Next]_vars
  PROVE  Exact'
<1>1. CASE UNCHANGED vars
  <2>1. db' = db /\ now' = now /\ b' = b /\ quiet' = quiet
    BY <1>1 DEF vars
  <2>2. /\ \A c : Live(c)' = Live(c)
        /\ NothingOver' <=> NothingOver
    BY <2>1 DEF Live, NothingOver
  <2>3. \A o : Programmes(o)' = Programmes(o)
    BY <2>1, <2>2 DEF Programmes
  <2>4. /\ \A o : Listing(o)' = Listing(o)
        /\ \A o, w, k : Reached(o, w, k)' <=> Reached(o, w, k)
    BY <2>1, <2>3 DEF Listing, Reached
  <2>5. \A s, o : Shows(s, o)' <=> Shows(s, o)
    BY <2>1, <2>2, <2>4 DEF Shows, Described
  <2>6. (OneObject' <=> OneObject) /\ (ShownSoFar' <=> ShownSoFar) /\ (WalkedSoFar' <=> WalkedSoFar)
    BY <2>1, <2>4, <2>5 DEF OneObject, ShownSoFar, WalkedSoFar
  <2>. QED  BY <2>1, <2>2, <2>4, <2>6 DEF Exact, InWindow
<1>2. ASSUME ~UNCHANGED vars
      PROVE  Exact'
  <2>. SUFFICES ASSUME quiet'
                PROVE  Exact'
    BY DEF Exact
  <2>1. ~\E c \in Channels : chandump(c)
    BY DEF chandump
  <2>2. ~\E e \in Events : epg_event(e)
    BY DEF epg_event
  <2>3. ~Tick /\ ~destroy_lists /\ ~Answer
    BY DEF Tick, destroy_lists, Answer
  <2>4. ASSUME NEW o \in Requested, NEW meta \in BOOLEAN, NEW w \in Windows,
               CdsBrowse(cpId(o), meta, w)
        PROVE  Exact'
    BY <2>4, ExactBegins
  <2>5. ASSUME BrowseStep
        PROVE  Exact'
    <3>1. Steady /\ quiet
      <4>1. ListsType
        BY DEF Guided
      <4>2. Swept(db, db', now) /\ now' = now
        BY <2>5, <4>1, BrowseSweeps
      <4>3. quiet' = quiet
        BY <2>3, <2>5 DEF BrowseStep, OpenDir, Entry, NextEntry, Skipped, CountFirst, CountNext,
                          Describe
      <4>. QED  BY <4>2, <4>3 DEF Steady
    <3>2. b'.pc # "undefined"
      BY UndisturbedStep DEF Undisturbed
    <3>. QED  BY <2>3, <2>5, <3>1, <3>2, ExactOpen, ExactEntry, ExactNext, ExactSkip,
                 ExactCountFirst, ExactCountNext, ExactDescribe DEF BrowseStep
  <2>. QED  BY <1>2, <2>1, <2>2, <2>3, <2>4, <2>5 DEF Next
<1>. QED  BY <1>1, <1>2

(* The entries of a window, and as many as the counters let through.       *)
LEMMA PageFacts ==
  ASSUME NEW list, Len(list) \in Nat, DOMAIN list = 1..Len(list), NEW si \in Nat, NEW rc \in Nat
  PROVE  /\ Len(Page(list, si, rc)) = Taken(Len(list), si, rc)
         /\ DOMAIN Page(list, si, rc) = 1..Taken(Len(list), si, rc)
         /\ \A i \in 1..Taken(Len(list), si, rc) : Page(list, si, rc)[i] = list[si + i]
<1>. DEFINE n == Taken(Len(list), si, rc)
            inside == {i \in DOMAIN list : si < i /\ (rc = 0 \/ i <= si + rc)}
<1>1. n \in Nat
  BY TakenFacts
<1>2. inside = (si + 1)..(si + n)
  BY DEF Taken
<1>3. Cardinality((si + 1)..(si + n)) = n
  <2>. HIDE DEF n
  <2>1. si + 1 \in Int /\ si + n \in Int
    BY <1>1
  <2>2. Cardinality((si + 1)..(si + n)) = IF si + 1 > si + n THEN 0 ELSE (si + n) - (si + 1) + 1
    BY <2>1, FS_Interval
  <2>. QED  BY <1>1, <2>2
<1>4. Page(list, si, rc) = [i \in 1..n |-> list[si + i]]
  <2>1. Page(list, si, rc) = [i \in 1..Cardinality(inside) |-> list[si + i]]
    BY DEF Page
  <2>. HIDE DEF n, inside
  <2>. QED  BY <1>2, <1>3, <2>1
<1>. HIDE DEF n
<1>5. \A f : f = [i \in 1..n |-> list[si + i]] => Len(f) = n /\ DOMAIN f = 1..n
  BY <1>1
<1>. QED  BY <1>1, <1>4, <1>5 DEF n

LEMMA ExactPages == Guided /\ Browsing /\ Exact => PageIsExact
<1>. SUFFICES ASSUME Guided, Browsing, Exact, b.pc = "answer", quiet
              PROVE  LET page == IF b.meta THEN <<b.dir>> ELSE Page(Listing(b.dir), b.si, b.rc)
                     IN /\ Len(b.shown) = Len(page)
                        /\ \A i \in DOMAIN page : Shows(b.shown[i], page[i])
                        /\ ~b.meta => b.tm = Len(Listing(b.dir))
  BY DEF PageIsExact
<1>1. CASE b.meta
  <2>1. Len(b.shown) = 1 /\ Shows(b.shown[1], b.dir)
    BY <1>1 DEF Exact, OneObject
  <2>2. Len(<<b.dir>>) = 1 /\ DOMAIN <<b.dir>> = {1} /\ <<b.dir>>[1] = b.dir
    OBVIOUS
  <2>. QED  BY <1>1, <2>1, <2>2
<1>2. CASE ~b.meta
  <2>. DEFINE L == Listing(b.dir)
              n == Taken(Len(L), b.si, b.rc)
  <2>1. /\ PCGetFileDirType(db, b.dir) = 2 /\ b.tm = Len(L) /\ Len(b.shown) = n
        /\ \A i \in DOMAIN b.shown : Shows(b.shown[i], L[b.si + i])
    BY <1>2 DEF Exact, ShownSoFar, WalkedSoFar
  <2>2. /\ b.si \in Nat /\ b.rc \in Nat /\ b.shown \in Seq(Answers)
        /\ Len(L) \in Nat /\ DOMAIN L = 1..Len(L)
    BY <2>1, BrowseFields, ListingLength DEF Browsing
  <2>. HIDE DEF L
  <2>3. /\ Len(Page(L, b.si, b.rc)) = n /\ DOMAIN Page(L, b.si, b.rc) = 1..n
        /\ \A i \in 1..n : Page(L, b.si, b.rc)[i] = L[b.si + i]
    BY <2>2, PageFacts
  <2>4. DOMAIN b.shown = 1..n
    BY <2>1, <2>2
  <2>. HIDE DEF n
  <2>. QED  BY <1>2, <2>1, <2>3, <2>4 DEF L
<1>. QED  BY <1>1, <1>2

(* A Browse that nothing disturbs answers with exactly the entries of the  *)
(* window that was asked for, in their order, each with the ID that leads  *)
(* back to it, the right parent and the number of its children or the      *)
(* programme that is on, and with the number of all entries as             *)
(* TotalMatches (CdsBrowse, ProcessDir, DirectoryEntryToDidl,              *)
(* PCGetDirFirstFile, PCGetDirNextFile, the walks of the guide).           *)
THEOREM PagesAreExact == Spec => []PageIsExact
<1>1. Init => Exact
  BY DEF Init, Exact
<1>2. Init => Undisturbed
  BY DEF Init, Undisturbed
<1>. QED  BY <1>1, <1>2, ExactStep, ExactPages, UndisturbedStep, GuidedStart, GuidedStep,
             BrowsingStart, BrowsingStep, PTL DEF Spec
=============================================================================
