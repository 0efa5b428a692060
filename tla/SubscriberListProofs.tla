------------------------ MODULE SubscriberListProofs ------------------------
(***************************************************************************)
(* The pointer operations of SubscriberList do to the set of linked        *)
(* records what their names say, and keep the lists well formed.           *)
(***************************************************************************)
EXTENDS SubscriberList, FiniteSetTheorems, TLAPS

(* What a walk meets is closed under Next, and is the least such set.      *)
LEMMA LinkedIsLeast ==
  ASSUME NEW L \in ListState, NEW s \in Services
  PROVE  /\ Linked(L, s) \subseteq Nodes
         /\ Closed(L, s, Linked(L, s))
         /\ \A S \in SUBSET Nodes : Closed(L, s, S) => Linked(L, s) \subseteq S
<1>1. Linked(L, s) \subseteq Nodes
  BY DEF Linked
<1>2. \A S \in SUBSET Nodes : Closed(L, s, S) => Linked(L, s) \subseteq S
  BY DEF Linked
<1>3. L.head[s] # NULL => L.head[s] \in Linked(L, s)
  BY DEF Linked, Closed, ListState, Pointer
<1>4. ASSUME NEW n \in Linked(L, s), L.next[n] # NULL
      PROVE  L.next[n] \in Linked(L, s)
  BY <1>4, <1>1 DEF Linked, Closed, ListState, Pointer
<1>5. QED
  BY <1>1, <1>2, <1>3, <1>4 DEF Closed

(* A list depends only on its head and on the Next of its records.         *)
LEMMA LinkedFrame ==
  ASSUME NEW L \in ListState, NEW K \in ListState, NEW s \in Services,
         K.head[s] = L.head[s],
         \A n \in Linked(L, s) : K.next[n] = L.next[n]
  PROVE  Linked(K, s) = Linked(L, s)
<1>1. Closed(K, s, Linked(L, s))
  BY LinkedIsLeast DEF Closed
<1>2. Linked(K, s) \subseteq Linked(L, s)
  BY <1>1, LinkedIsLeast
<1>3. Closed(L, s, Linked(K, s))
  BY <1>2, LinkedIsLeast DEF Closed
<1>4. Linked(L, s) \subseteq Linked(K, s)
  BY <1>3, LinkedIsLeast
<1>5. QED
  BY <1>2, <1>4

LEMMA EmptyListsAreWellFormed ==
  /\ EmptyLists \in ListState
  /\ \A s \in Services : Linked(EmptyLists, s) = {}
  /\ WellFormed(EmptyLists)
<1>1. EmptyLists \in ListState
  BY DEF EmptyLists, ListState, Pointer
<1>2. ASSUME NEW s \in Services
      PROVE  Linked(EmptyLists, s) = {}
  <2>1. Closed(EmptyLists, s, {})
    BY DEF Closed, EmptyLists
  <2>2. QED
    BY <2>1, <1>1, LinkedIsLeast
<1>3. TotalsCount(EmptyLists)
  BY <1>2, FS_EmptySet DEF TotalsCount, EmptyLists
<1>4. QED
  BY <1>1, <1>2, <1>3
  DEF WellFormed, HeadHasNoPrevious, PreviousUndoesNext, ListsDisjoint, EmptyLists

(* Among linked records, only the head has no Previous, and no record is   *)
(* its own successor.                                                      *)
LEMMA OnlyTheHeadHasNoPrevious ==
  ASSUME NEW L \in ListState, NEW s \in Services, NEW n \in Linked(L, s),
         HeadHasNoPrevious(L), PreviousUndoesNext(L)
  PROVE  /\ L.head[s] = n <=> L.prev[n] = NULL
         /\ L.prev[n] # n /\ L.next[n] # n
         /\ L.prev[n] # NULL => L.prev[n] \in Linked(L, s) /\ L.next[L.prev[n]] = n
         /\ L.next[n] # NULL => L.next[n] \in Linked(L, s) /\ L.prev[L.next[n]] = n
<1>1. n \in Nodes /\ n # NULL
  BY LinkedIsLeast, ListAssumption
<1>2. ASSUME L.head[s] # n
      PROVE  \E m \in Linked(L, s) : m # n /\ L.next[m] = n
  <2>1. SUFFICES ASSUME \A m \in Linked(L, s) : m # n => L.next[m] # n
                 PROVE  FALSE
    OBVIOUS
  <2>2. Closed(L, s, Linked(L, s) \ {n})
    BY <2>1, <1>2, LinkedIsLeast DEF Closed
  <2>3. QED
    BY <2>2, LinkedIsLeast
<1>3. L.head[s] # n => L.prev[n] # NULL /\ L.prev[n] # n
  BY <1>1, <1>2, LinkedIsLeast, ListAssumption DEF PreviousUndoesNext
<1>4. L.head[s] = n => L.prev[n] = NULL
  BY <1>1 DEF HeadHasNoPrevious
<1>5. L.prev[n] # n
  BY <1>1, <1>3, <1>4
<1>6. L.next[n] # NULL => L.next[n] \in Linked(L, s) /\ L.prev[L.next[n]] = n
  BY LinkedIsLeast DEF Closed, PreviousUndoesNext
<1>7. QED
  BY <1>1, <1>3, <1>4, <1>5, <1>6 DEF PreviousUndoesNext

(* Freeing a record no list holds changes no list.                         *)
LEMMA ScrubKeepsLists ==
  ASSUME NEW L \in ListState, NEW n \in Nodes,
         \A s \in Services : n \notin Linked(L, s),
         WellFormed(L)
  PROVE  /\ Scrub(L, n) \in ListState
         /\ \A s \in Services : Linked(Scrub(L, n), s) = Linked(L, s)
         /\ WellFormed(Scrub(L, n))
         /\ Scrub(L, n).total = L.total /\ Scrub(L, n).head = L.head
<1> DEFINE K == Scrub(L, n)
<1>1. /\ K \in ListState
      /\ K.head = L.head /\ K.total = L.total
      /\ \A m \in Nodes : m # n => K.next[m] = L.next[m] /\ K.prev[m] = L.prev[m]
  BY DEF Scrub, ListState, Pointer
<1>2. \A s \in Services : Linked(K, s) = Linked(L, s)
  BY <1>1, LinkedFrame, LinkedIsLeast
<1>3. HeadHasNoPrevious(K)
  BY <1>1, LinkedIsLeast DEF HeadHasNoPrevious, WellFormed, Closed
<1>4. PreviousUndoesNext(K)
  <2> SUFFICES ASSUME NEW s \in Services, NEW m \in Linked(L, s)
               PROVE  /\ K.next[m] # NULL => K.prev[K.next[m]] = m
                      /\ K.prev[m] # NULL => /\ K.prev[m] \in Linked(L, s)
                                             /\ K.next[K.prev[m]] = m
    BY <1>2 DEF PreviousUndoesNext
  <2>1. m \in Nodes /\ m # n
    BY LinkedIsLeast
  <2>2. L.next[m] # NULL => L.next[m] \in Linked(L, s)
    BY LinkedIsLeast DEF Closed
  <2>3. QED
    BY <1>1, <2>1, <2>2, LinkedIsLeast DEF WellFormed, PreviousUndoesNext
<1>5. ListsDisjoint(K) /\ TotalsCount(K)
  BY <1>1, <1>2 DEF WellFormed, ListsDisjoint, TotalsCount
<1>6. QED
  BY <1>1, <1>2, <1>3, <1>4, <1>5 DEF WellFormed

LEMMA LinkedIsFinite ==
  ASSUME NEW L \in ListState, NEW s \in Services
  PROVE  IsFiniteSet(Linked(L, s))
  BY LinkedIsLeast, ListAssumption, FS_Subset

(* InsertHead links exactly the new record, in front.                      *)
LEMMA InsertHeadLinks ==
  ASSUME NEW L \in ListState, NEW s \in Services, NEW n \in Nodes,
         \A r \in Services : n \notin Linked(L, r),
         WellFormed(L)
  PROVE  /\ InsertHead(L, s, n) \in ListState
         /\ Linked(InsertHead(L, s, n), s) = Linked(L, s) \cup {n}
         /\ \A r \in Services : r # s => Linked(InsertHead(L, s, n), r) = Linked(L, r)
         /\ WellFormed(InsertHead(L, s, n))
         /\ InsertHead(L, s, n).total = [L.total EXCEPT ![s] = @ + 1]
<1> DEFINE K == InsertHead(L, s, n)
           old == L.head[s]
<1>1. /\ K \in ListState
      /\ K.head = [L.head EXCEPT ![s] = n]
      /\ K.total = [L.total EXCEPT ![s] = @ + 1]
      /\ K.next = [L.next EXCEPT ![n] = old]
      /\ K.prev = [m \in Nodes |-> IF m = n THEN NULL
                                   ELSE IF m = old THEN n ELSE L.prev[m]]
  BY ListAssumption DEF InsertHead, ListState, Pointer
<1>2. \A r \in Services : Linked(L, r) \subseteq Nodes /\ Closed(L, r, Linked(L, r))
  BY LinkedIsLeast
<1>3. old # NULL => old \in Linked(L, s) /\ old # n
  BY <1>2 DEF Closed
<1>h. K.head[s] = n /\ \A r \in Services : r # s => K.head[r] = L.head[r]
  BY <1>1 DEF ListState
<1>n. K.next[n] = old /\ \A m \in Nodes : m # n => K.next[m] = L.next[m]
  BY <1>1 DEF ListState
<1>4. Linked(K, s) \subseteq Linked(L, s) \cup {n}
  <2>1. Closed(K, s, Linked(L, s) \cup {n})
    BY <1>2, <1>3, <1>h, <1>n DEF Closed
  <2>2. QED
    BY <2>1, <1>1, <1>2, LinkedIsLeast
<1>5. Linked(L, s) \cup {n} \subseteq Linked(K, s)
  <2>1. Closed(K, s, Linked(K, s))
    BY <1>1, LinkedIsLeast
  <2>2. n \in Linked(K, s)
    BY <2>1, <1>h, ListAssumption DEF Closed
  <2>3. old # NULL => old \in Linked(K, s)
    BY <2>1, <2>2, <1>n DEF Closed
  <2>4. Closed(L, s, Linked(L, s) \cap Linked(K, s))
    BY <2>1, <2>3, <1>2, <1>n DEF Closed
  <2>5. QED
    BY <2>2, <2>4, <1>2, LinkedIsLeast
<1>6. \A r \in Services : r # s => Linked(K, r) = Linked(L, r)
  <2> SUFFICES ASSUME NEW r \in Services, r # s
               PROVE  Linked(K, r) = Linked(L, r)
    OBVIOUS
  <2>1. K.head[r] = L.head[r] /\ \A m \in Linked(L, r) : K.next[m] = L.next[m]
    BY <1>2, <1>h, <1>n
  <2>2. K \in ListState
    BY <1>1
  <2> HIDE DEF K
  <2>3. QED
    BY <2>1, <2>2, LinkedFrame
<1>7. HeadHasNoPrevious(K)
  <2> SUFFICES ASSUME NEW r \in Services, K.head[r] # NULL
               PROVE  K.prev[K.head[r]] = NULL
    BY DEF HeadHasNoPrevious
  <2>1. CASE r = s
    BY <2>1, <1>1, <1>h
  <2>2. CASE r # s
    <3>1. K.head[r] = L.head[r] /\ L.head[r] \in Linked(L, r)
      BY <2>2, <1>h, <1>2 DEF Closed
    <3>2. L.head[r] # n /\ L.head[r] # old
      BY <3>1, <2>2, <1>2, <1>3 DEF WellFormed, ListsDisjoint
    <3>3. QED
      BY <3>1, <3>2, <1>1, <1>2 DEF WellFormed, HeadHasNoPrevious
  <2>3. QED
    BY <2>1, <2>2
<1>8. PreviousUndoesNext(K)
  <2> SUFFICES ASSUME NEW r \in Services, NEW m \in Linked(K, r)
               PROVE  /\ K.next[m] # NULL => K.prev[K.next[m]] = m
                      /\ K.prev[m] # NULL => /\ K.prev[m] \in Linked(K, r)
                                             /\ K.next[K.prev[m]] = m
    BY DEF PreviousUndoesNext
  <2>1. CASE m = n
    <3>1. r = s
      BY <2>1, <1>6
    <3>2. QED
      BY <2>1, <3>1, <1>1, <1>3, <1>n, <1>2
  <2>2. CASE m # n
    <3>1. m \in Linked(L, r) /\ m \in Nodes
      BY <2>2, <1>2, <1>4, <1>6
    <3>2. /\ L.prev[m] = NULL <=> L.head[r] = m
          /\ L.prev[m] # NULL => L.prev[m] \in Linked(L, r) /\ L.next[L.prev[m]] = m
          /\ L.next[m] # NULL => L.next[m] \in Linked(L, r) /\ L.prev[L.next[m]] = m
      BY <3>1, OnlyTheHeadHasNoPrevious DEF WellFormed
    <3>3. old # NULL => L.prev[old] = NULL
      BY DEF WellFormed, HeadHasNoPrevious
    <3>4. ASSUME K.next[m] # NULL PROVE K.prev[K.next[m]] = m
      BY <3>4, <3>1, <3>2, <3>3, <2>2, <1>1, <1>2, <1>n, ListAssumption
    <3>5. ASSUME K.prev[m] # NULL
          PROVE  K.prev[m] \in Linked(K, r) /\ K.next[K.prev[m]] = m
      <4>1. CASE m = old
        <5>1. r = s
          BY <4>1, <3>1, <1>2, <1>3, ListAssumption DEF WellFormed, ListsDisjoint
        <5>2. QED
          BY <4>1, <5>1, <2>2, <3>1, <1>1, <1>5, <1>n
      <4>2. CASE m # old
        <5>1. K.prev[m] = L.prev[m]
          BY <4>2, <2>2, <3>1, <1>1
        <5>2. L.prev[m] \in Linked(L, r) /\ L.prev[m] # n
          BY <5>1, <3>2, <3>5
        <5>3. QED
          BY <5>1, <5>2, <3>2, <3>5, <1>2, <1>5, <1>6, <1>n
      <4>3. QED
        BY <4>1, <4>2
    <3>6. QED
      BY <3>4, <3>5
  <2>3. QED
    BY <2>1, <2>2
<1>9. ListsDisjoint(K)
  BY <1>4, <1>6 DEF WellFormed, ListsDisjoint
<1>10. TotalsCount(K)
  <2>1. Cardinality(Linked(L, s) \cup {n}) = Cardinality(Linked(L, s)) + 1
    BY LinkedIsFinite, FS_AddElement
  <2>2. Linked(K, s) = Linked(L, s) \cup {n}
    BY <1>4, <1>5
  <2>3. \A r \in Services : L.total[r] = Cardinality(Linked(L, r))
    BY DEF WellFormed, TotalsCount
  <2>4. K.total[s] = L.total[s] + 1 /\ \A r \in Services : r # s => K.total[r] = L.total[r]
    BY <1>1 DEF ListState
  <2> HIDE DEF K
  <2>5. QED
    BY <2>1, <2>2, <2>3, <2>4, <1>6 DEF TotalsCount
<1>11. QED
  BY <1>1, <1>4, <1>5, <1>6, <1>7, <1>8, <1>9, <1>10 DEF WellFormed

(* Unlink takes exactly the one record out.                                *)
LEMMA UnlinkRemoves ==
  ASSUME NEW L \in ListState, NEW s \in Services, NEW n \in Linked(L, s),
         WellFormed(L)
  PROVE  /\ Unlink(L, s, n) \in ListState
         /\ Linked(Unlink(L, s, n), s) = Linked(L, s) \ {n}
         /\ \A r \in Services : r # s => Linked(Unlink(L, s, n), r) = Linked(L, r)
         /\ WellFormed(Unlink(L, s, n))
         /\ Unlink(L, s, n).total = [L.total EXCEPT ![s] = @ - 1]
         /\ L.total[s] > 0
<1> DEFINE K == Unlink(L, s, n)
           succ == L.next[n]
           pred == L.prev[n]
<1>0. \A r \in Services : Linked(L, r) \subseteq Nodes /\ Closed(L, r, Linked(L, r))
  BY LinkedIsLeast
<1>p. \A r \in Services : \A m \in Linked(L, r) :
        /\ L.head[r] = m <=> L.prev[m] = NULL
        /\ L.prev[m] # m /\ L.next[m] # m
        /\ L.prev[m] # NULL => L.prev[m] \in Linked(L, r) /\ L.next[L.prev[m]] = m
        /\ L.next[m] # NULL => L.next[m] \in Linked(L, r) /\ L.prev[L.next[m]] = m
  BY OnlyTheHeadHasNoPrevious DEF WellFormed
<1>d. \A r \in Services : r # s => Linked(L, r) \cap Linked(L, s) = {}
  BY DEF WellFormed, ListsDisjoint
<1>1. /\ K \in ListState
      /\ K.head = [L.head EXCEPT ![s] = IF @ = n THEN succ ELSE @]
      /\ K.total = [L.total EXCEPT ![s] = @ - 1]
      /\ K.next = [m \in Nodes |-> IF m = n THEN NULL
                                   ELSE IF m = pred THEN succ ELSE L.next[m]]
      /\ K.prev = [m \in Nodes |-> IF m = n THEN NULL
                                   ELSE IF m = succ THEN pred ELSE L.prev[m]]
  <2>1. n \in Nodes /\ succ \in Pointer /\ pred \in Pointer
    BY <1>0 DEF ListState
  <2>2. K = [head  |-> [L.head  EXCEPT ![s] = IF @ = n THEN succ ELSE @],
             total |-> [L.total EXCEPT ![s] = @ - 1],
             next  |-> K.next,
             prev  |-> [m \in Nodes |-> IF m = n THEN NULL
                                   ELSE IF m = succ THEN pred ELSE L.prev[m]]]
    BY DEF Unlink
  <2>3. K.next = [m \in Nodes |-> IF m = n THEN NULL
                                   ELSE IF m = pred THEN succ ELSE L.next[m]]
    <3>1. \A m \in Nodes : L.next[m] = n /\ m \in Linked(L, s) => m = pred
      BY <1>p, <2>1, ListAssumption
    <3>2. pred # NULL => pred \in Linked(L, s) /\ L.next[pred] = n /\ pred # n
      BY <1>p
    <3>3. QED
      BY <2>1, <3>1, <3>2, ListAssumption DEF Unlink
  <2> HIDE DEF K
  <2>4. K.next \in [Nodes -> Pointer]
    BY <2>1, <2>3 DEF ListState, Pointer
  <2>5. QED
    BY <2>1, <2>2, <2>3, <2>4 DEF ListState, Pointer
<1> HIDE DEF K
<1>h. /\ K.head[s] = IF L.head[s] = n THEN succ ELSE L.head[s]
      /\ \A r \in Services : r # s => K.head[r] = L.head[r]
  BY <1>1 DEF ListState
<1>n. \A m \in Nodes : m # n => K.next[m] = IF m = pred THEN succ ELSE L.next[m]
  BY <1>1
<1>v. \A m \in Nodes : m # n => K.prev[m] = IF m = succ THEN pred ELSE L.prev[m]
  BY <1>1
<1>4. Linked(K, s) \subseteq Linked(L, s) \ {n}
  <2>1. succ # NULL => succ \in Linked(L, s) \ {n}
    BY <1>p
  <2>2. K.head[s] # NULL => K.head[s] \in Linked(L, s) \ {n}
    BY <2>1, <1>0, <1>h DEF Closed
  <2>3. ASSUME NEW m \in Linked(L, s) \ {n}, K.next[m] # NULL
        PROVE  K.next[m] \in Linked(L, s) \ {n}
    BY <2>1, <2>3, <1>0, <1>p, <1>n
  <2>4. Closed(K, s, Linked(L, s) \ {n})
    BY <2>2, <2>3 DEF Closed
  <2>5. K \in ListState /\ Linked(L, s) \ {n} \subseteq Nodes
    BY <1>0, <1>1
  <2>6. QED
    BY <2>4, <2>5, LinkedIsLeast
<1>5. Linked(L, s) \ {n} \subseteq Linked(K, s)
  <2> DEFINE S == Linked(K, s)
  <2>1. Closed(K, s, S)
    BY <1>1, LinkedIsLeast
  <2>2. L.head[s] # n => L.head[s] = NULL \/ L.head[s] \in S
    BY <2>1, <1>h DEF Closed
  <2>3. \A m \in S : m # pred /\ L.next[m] # NULL => L.next[m] \in S
    BY <2>1, <1>0, <1>4, <1>n DEF Closed
  <2> HIDE DEF S
  <2>4. S \subseteq Linked(L, s) \ {n}
    BY <1>4 DEF S
  <2>5. L.head[s] = n \/ pred \in S
    <3>1. SUFFICES ASSUME L.head[s] # n, pred \notin S
                   PROVE  FALSE
      OBVIOUS
    <3>2. Closed(L, s, S)
      BY <3>1, <2>2, <2>3 DEF Closed
    <3>3. S \subseteq Nodes
      BY <2>4, <1>0
    <3>4. QED
      BY <3>2, <3>3, <2>4, LinkedIsLeast
  <2>6. succ # NULL => succ \in S
    <3>1. CASE L.head[s] = n
      BY <3>1, <2>1, <1>h DEF Closed, S
    <3>2. CASE L.head[s] # n
      <4>1. pred \in S /\ pred # n /\ pred \in Nodes
        BY <3>2, <2>4, <2>5, <1>0
      <4>2. K.next[pred] = succ
        BY <4>1, <1>n
      <4>3. QED
        BY <4>1, <4>2, <2>1 DEF Closed, S
    <3>3. QED
      BY <3>1, <3>2
  <2>7. \A m \in S : m = pred => L.next[m] = n
    BY <2>4, <1>0, <1>p, ListAssumption
  <2>8. Closed(L, s, S \cup {n})
    BY <2>2, <2>3, <2>6, <2>7 DEF Closed
  <2>9. S \cup {n} \subseteq Nodes
    BY <2>4, <1>0
  <2>10. Linked(L, s) \subseteq S \cup {n}
    BY <2>8, <2>9, LinkedIsLeast
  <2>11. QED
    BY <2>10 DEF S
<1>6. \A r \in Services : r # s => Linked(K, r) = Linked(L, r)
  <2> SUFFICES ASSUME NEW r \in Services, r # s
               PROVE  Linked(K, r) = Linked(L, r)
    OBVIOUS
  <2>1. K.head[r] = L.head[r]
    BY <1>h
  <2>2. pred = NULL \/ pred \in Linked(L, s)
    BY <1>p
  <2>3. \A m \in Linked(L, r) : m \in Nodes /\ m # n /\ m # pred
    BY <2>2, <1>0, <1>d, ListAssumption
  <2>4. \A m \in Linked(L, r) : K.next[m] = L.next[m]
    BY <2>3, <1>n
  <2>5. K \in ListState
    BY <1>1
  <2>6. QED
    BY <2>1, <2>4, <2>5, LinkedFrame
<1>7. HeadHasNoPrevious(K)
  <2> SUFFICES ASSUME NEW r \in Services, K.head[r] # NULL
               PROVE  K.prev[K.head[r]] = NULL
    BY DEF HeadHasNoPrevious
  <2>1. CASE r = s /\ L.head[s] = n
    <3>1. K.head[r] = succ /\ pred = NULL /\ succ # n /\ succ \in Nodes
      BY <2>1, <1>0, <1>h, <1>p
    <3>2. QED
      BY <3>1, <1>v
  <2>2. CASE r # s \/ L.head[s] # n
    <3>1. K.head[r] = L.head[r] /\ L.head[r] \in Linked(L, r) /\ L.head[r] \in Nodes
      BY <2>2, <1>h, <1>0 DEF Closed
    <3>2. L.prev[L.head[r]] = NULL
      BY <3>1, <1>p
    <3>3. L.head[r] # n
      BY <2>2, <3>1, <1>d
    <3>4. L.head[r] # succ
      BY <3>1, <3>2, <1>0, <1>p, ListAssumption
    <3>5. QED
      BY <3>1, <3>2, <3>3, <3>4, <1>v
  <2>3. QED
    BY <2>1, <2>2
<1>8. PreviousUndoesNext(K)
  <2> SUFFICES ASSUME NEW r \in Services, NEW m \in Linked(K, r)
               PROVE  /\ K.next[m] # NULL => K.prev[K.next[m]] = m
                      /\ K.prev[m] # NULL => /\ K.prev[m] \in Linked(K, r)
                                             /\ K.next[K.prev[m]] = m
    BY DEF PreviousUndoesNext
  <2>0. Linked(K, s) = Linked(L, s) \ {n}
    BY <1>4, <1>5
  <2>1. m \in Linked(L, r) /\ m # n /\ m \in Nodes
    BY <2>0, <1>0, <1>6, <1>d
  <2>2. /\ n # NULL /\ m # NULL
        /\ pred # NULL => pred \in Linked(L, s) /\ L.next[pred] = n /\ pred # n
        /\ succ # NULL => succ \in Linked(L, s) /\ L.prev[succ] = n /\ succ # n
    BY <2>1, <1>0, <1>p, ListAssumption
  <2>3. /\ L.prev[m] # NULL => L.prev[m] \in Linked(L, r) /\ L.next[L.prev[m]] = m
        /\ L.next[m] # NULL => L.next[m] \in Linked(L, r) /\ L.prev[L.next[m]] = m
    BY <2>1, <1>p
  <2>4. \A k \in Linked(L, r) : k \in Linked(L, s) => r = s
    BY <1>d
  <2>5. \A k \in Linked(L, r) : k # n => k \in Linked(K, r)
    BY <2>0, <1>6
  <2>6. ASSUME K.next[m] # NULL PROVE K.prev[K.next[m]] = m
    <3>1. CASE m = pred
      BY <3>1, <2>1, <2>2, <2>6, <1>0, <1>n, <1>v
    <3>2. CASE m # pred
      <4>1. K.next[m] = L.next[m] /\ L.next[m] \in Nodes
        BY <3>2, <2>1, <2>3, <2>6, <1>0, <1>n
      <4>2. L.next[m] # n /\ L.next[m] # succ
        BY <3>2, <4>1, <2>1, <2>2, <2>3, <2>6
      <4>3. QED
        BY <4>1, <4>2, <2>3, <2>6, <1>v
    <3>3. QED
      BY <3>1, <3>2
  <2>7. ASSUME K.prev[m] # NULL
        PROVE  K.prev[m] \in Linked(K, r) /\ K.next[K.prev[m]] = m
    <3>1. CASE m = succ
      <4>1. K.prev[m] = pred /\ pred \in Nodes /\ pred \in Linked(L, s) /\ pred # n
        BY <3>1, <2>1, <2>2, <2>7, <1>0, <1>v
      <4>2. r = s
        BY <3>1, <2>1, <2>2, <2>4
      <4>3. QED
        BY <4>1, <4>2, <3>1, <2>5, <1>n
    <3>2. CASE m # succ
      <4>1. K.prev[m] = L.prev[m] /\ L.prev[m] \in Linked(L, r) /\ L.prev[m] \in Nodes
        BY <3>2, <2>1, <2>3, <2>7, <1>0, <1>v
      <4>2. L.prev[m] # n /\ L.prev[m] # pred
        BY <3>2, <4>1, <2>1, <2>2, <2>3, <2>7
      <4>3. QED
        BY <4>1, <4>2, <2>3, <2>5, <2>7, <1>n
    <3>3. QED
      BY <3>1, <3>2
  <2>8. QED
    BY <2>6, <2>7
<1>9. ListsDisjoint(K)
  <2>1. \A r \in Services : Linked(K, r) \subseteq Linked(L, r)
    BY <1>4, <1>6
  <2>2. QED
    BY <2>1 DEF WellFormed, ListsDisjoint
<1>10. TotalsCount(K) /\ L.total[s] > 0
  <2>1. IsFiniteSet(Linked(L, s)) /\ IsFiniteSet(Linked(L, s) \ {n})
    BY LinkedIsFinite, FS_Subset
  <2>2. /\ Cardinality(Linked(L, s) \ {n}) = Cardinality(Linked(L, s)) - 1
        /\ Cardinality(Linked(L, s) \ {n}) \in Nat
        /\ Cardinality(Linked(L, s)) \in Nat
    BY <2>1, FS_RemoveElement, FS_CardinalityType
  <2>3. Linked(K, s) = Linked(L, s) \ {n}
    BY <1>4, <1>5
  <2>4. \A r \in Services : L.total[r] = Cardinality(Linked(L, r))
    BY DEF WellFormed, TotalsCount
  <2>5. K.total[s] = L.total[s] - 1 /\ \A r \in Services : r # s => K.total[r] = L.total[r]
    BY <1>1 DEF ListState
  <2>6. L.total[s] > 0
    BY <2>2, <2>4
  <2>7. QED
    BY <2>2, <2>3, <2>4, <2>5, <2>6, <1>6 DEF TotalsCount
<1>11. QED
  BY <1>1, <1>4, <1>5, <1>6, <1>7, <1>8, <1>9, <1>10 DEF WellFormed, K

(* A record that is alone on its list: UpnpExpireSubscriberInfo comes to   *)
(* an end, and writes what UpnpRemoveSubscriberInfo would.                 *)
LEMMA ExpireAlone ==
  ASSUME NEW L \in ListState, NEW s \in Services, NEW n \in Linked(L, s),
         WellFormed(L), L.total[s] <= 1
  PROVE  /\ ~ExpireSpins(L, n) /\ ~ExpireRefuses(L, n)
         /\ L.next[n] = NULL
         /\ Expire(L, n) = Unlink(L, s, n)
<1>1. /\ Linked(L, s) \subseteq Nodes /\ n \in Nodes
      /\ Closed(L, s, Linked(L, s))
  BY LinkedIsLeast
<1>2. Linked(L, s) = {n}
  <2>1. IsFiniteSet(Linked(L, s)) /\ IsFiniteSet(Linked(L, s) \ {n})
    BY LinkedIsFinite, FS_Subset
  <2>2. /\ Cardinality(Linked(L, s) \ {n}) = Cardinality(Linked(L, s)) - 1
        /\ Cardinality(Linked(L, s) \ {n}) \in Nat
        /\ Cardinality(Linked(L, s)) \in Nat
    BY <2>1, FS_RemoveElement, FS_CardinalityType
  <2>3. Cardinality(Linked(L, s)) <= 1
    BY DEF WellFormed, TotalsCount
  <2>4. Cardinality(Linked(L, s) \ {n}) = 0
    BY <2>2, <2>3
  <2>5. Linked(L, s) \ {n} = {}
    BY <2>1, <2>4, FS_EmptySet
  <2>6. QED
    BY <2>5
<1>3. L.next[n] = NULL
  BY <1>2, OnlyTheHeadHasNoPrevious DEF WellFormed
<1>4. L.head[s] = n /\ L.prev[n] = NULL
  BY <1>2, OnlyTheHeadHasNoPrevious DEF WellFormed
<1>5. Ancestors(L, n) = {n}
  <2>1. {n} \in SUBSET Nodes /\ \A k \in {n} : L.prev[k] # NULL => L.prev[k] \in {n}
    BY <1>1, <1>4
  <2>2. QED
    BY <2>1, <1>1 DEF Ancestors
<1>6. ~ExpireSpins(L, n) /\ ~ExpireRefuses(L, n)
  BY <1>4, <1>5 DEF ExpireSpins, ExpireRefuses
<1>7. (CHOOSE m \in Ancestors(L, n) : L.prev[m] = NULL) = n
  BY <1>4, <1>5
<1>8. \A r \in Services : L.head[r] = n <=> r = s
  <2>1. \A r \in Services : L.head[r] = n => n \in Linked(L, r)
    BY <1>1, LinkedIsLeast, ListAssumption DEF Closed
  <2>2. QED
    BY <2>1, <1>4 DEF WellFormed, ListsDisjoint
<1>9. Expire(L, n) =
        [head  |-> [r \in Services |-> IF r = s THEN NULL ELSE L.head[r]],
         total |-> [r \in Services |-> IF r = s THEN L.total[r] - 1 ELSE L.total[r]],
         next  |-> [m \in Nodes |-> L.next[m]],
         prev  |-> [m \in Nodes |-> L.prev[m]]]
  BY <1>3, <1>4, <1>7, <1>8, ListAssumption DEF Expire
<1>10. Unlink(L, s, n) =
        [head  |-> [r \in Services |-> IF r = s THEN NULL ELSE L.head[r]],
         total |-> [r \in Services |-> IF r = s THEN L.total[r] - 1 ELSE L.total[r]],
         next  |-> [m \in Nodes |-> L.next[m]],
         prev  |-> [m \in Nodes |-> L.prev[m]]]
  <2>1. [L.head EXCEPT ![s] = IF @ = n THEN NULL ELSE @]
          = [r \in Services |-> IF r = s THEN NULL ELSE L.head[r]]
    BY <1>4 DEF ListState
  <2>2. [L.total EXCEPT ![s] = @ - 1]
          = [r \in Services |-> IF r = s THEN L.total[r] - 1 ELSE L.total[r]]
    BY DEF ListState
  <2>3. \A m \in Nodes : ~(L.next[m] = n /\ m \in Linked(L, s)) /\ m # NULL
    BY <1>1, <1>2, <1>3, ListAssumption
  <2>4. QED
    BY <1>3, <1>4, <2>1, <2>2, <2>3 DEF Unlink
<1>11. QED
  BY <1>3, <1>6, <1>9, <1>10
=============================================================================
