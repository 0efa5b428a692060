-------------------------- MODULE WebClientProofs --------------------------
(***************************************************************************)
(* Theorems about the HTTP client: where the object of a server is, which  *)
(* connections are watched by a timer, how many the client believes idle,  *)
(* and what the sinks have been told when it is destroyed.                 *)
(***************************************************************************)
EXTENDS WebClient, FiniteSetTheorems, SequenceTheorems, TLAPS

-----------------------------------------------------------------------------
(* The inductive invariant.                                                *)

(* Where the backlog and the sockets hold the object of r.                 *)
Waits(r) == {i \in DOMAIN backlog : backlog[i] = r}

Uses(r) == {s \in Sockets : ~Free(s) /\ User(s) = r}

(* An object with requests is in one place, or forgotten.                  *)
InPlace(waits, uses, o, tm) ==
  IF o.queue = <<>>
  THEN waits = {} /\ tm.retry = 0 /\ uses \subseteq {o.socket}
  ELSE \/ tm.retry = 0 /\ uses = {} /\ \E i \in waits : waits = {i}
       \/ tm.retry = 0 /\ waits = {} /\ \E s \in uses : uses = {s}
       \/ tm.retry = 1 /\ waits = {} /\ uses = {}
       \/ tm.retry = 0 /\ waits = {} /\ uses = {} /\ o.socket # NoSocket /\ o.backoff = 1

(* What holds of one remote address: whether the tables know it, where it  *)
(* is, its object and timers, and the requests made and told.              *)
Fits(known, listed, waits, uses, o, tm, n, heard) ==
  /\ ~known => o.queue = <<>> /\ waits = {} /\ uses = {} /\ tm.retry = 0
  /\ InPlace(waits, uses, o, tm)
  /\ known /\ o.queue = <<>> => o.backoff = 1
  /\ tm.idle + (IF listed THEN 1 ELSE 0) = IF known /\ o.queue = <<>> THEN 1 ELSE 0
  /\ 1..n = heard \cup {o.queue[i] : i \in DOMAIN o.queue}

RemoteFits(r) ==
  Fits(HasEntry(table, r), HasEntry(idle, r), Waits(r), Uses(r), object[r], timers[r],
       asked[r], told[r])

(* A socket connects for an object with requests only, and an object       *)
(* remembers the socket it is connected on.                                *)
SocketFits(s) ==
  /\ sock[s].state = "connecting" => Queue(User(s)) # <<>>
  /\ sock[s].state = "connected" => object[User(s)].socket = s /\ object[User(s)].backoff = 1

OneEntryEach(tree) == \A i, j \in DOMAIN tree : tree[i].key = tree[j].key => i = j

Sound == (\A r \in Remotes : RemoteFits(r)) /\ (\A s \in Sockets : SocketFits(s))

IInv ==
  /\ TypeOK /\ OneEntryEach(table) /\ OneEntryEach(idle)
  /\ Running => Sound
  /\ NeverEvictsEarly /\ AllToldAtStop

-----------------------------------------------------------------------------
(* The hash tree.                                                          *)

LEMMA TreeFacts ==
  ASSUME NEW tree \in Seq(Nodes)
  PROVE  /\ Len(tree) \in Nat /\ DOMAIN tree = 1..Len(tree)
         /\ \A i \in DOMAIN tree : tree[i] \in Nodes /\ tree[i].key \in Remotes
<1>1. \A i \in 1..Len(tree) : tree[i] \in Nodes
  BY ElementOfSeq
<1>. QED  BY <1>1 DEF Nodes

LEMMA FindFacts ==
  ASSUME NEW tree, NEW key, HasEntry(tree, key)
  PROVE  FindEntry(tree, key) \in DOMAIN tree /\ tree[FindEntry(tree, key)].key = key
BY DEF HasEntry, FindEntry

(* An entry is added once, and found from then on.                         *)
LEMMA AddFacts ==
  ASSUME NEW tree \in Seq(Nodes), NEW r \in Remotes, ~HasEntry(tree, r)
  PROVE  /\ AddEntry(tree, r, r) \in Seq(Nodes)
         /\ Len(AddEntry(tree, r, r)) = Len(tree) + 1
         /\ \A x : HasEntry(AddEntry(tree, r, r), x) <=> HasEntry(tree, x) \/ x = r
         /\ OneEntryEach(tree) => OneEntryEach(AddEntry(tree, r, r))
<1>. DEFINE node == [key |-> r, value |-> r]
            t == Append(tree, node)
<1>1. AddEntry(tree, r, r) = t
  BY DEF AddEntry
<1>2. node \in Nodes /\ node.key = r
  BY DEF Nodes
<1>3. Len(tree) \in Nat /\ DOMAIN tree = 1..Len(tree)
  BY TreeFacts
<1>. HIDE DEF node
<1>4. /\ t \in Seq(Nodes) /\ Len(t) = Len(tree) + 1
      /\ \A i \in 1..Len(tree) : t[i] = tree[i]
      /\ t[Len(tree) + 1] = node
  BY <1>2, AppendProperties
<1>. HIDE DEF t
<1>5. DOMAIN t = 1..(Len(tree) + 1)
  BY <1>4
<1>6. \A i \in DOMAIN t : (i \in DOMAIN tree /\ t[i] = tree[i]) \/ (i = Len(tree) + 1 /\ t[i] = node)
  BY <1>3, <1>4, <1>5
<1>7. /\ \A i \in DOMAIN tree : i \in DOMAIN t /\ t[i] = tree[i]
      /\ Len(tree) + 1 \in DOMAIN t
  BY <1>3, <1>4, <1>5
<1>8. \A x : HasEntry(t, x) <=> HasEntry(tree, x) \/ x = r
  BY <1>2, <1>4, <1>6, <1>7 DEF HasEntry
<1>9. OneEntryEach(tree) => OneEntryEach(t)
  BY <1>2, <1>6, <1>7 DEF OneEntryEach, HasEntry
<1>. QED  BY <1>1, <1>4, <1>8, <1>9

(* A sequence with one element less.                                       *)
LEMMA RemoveAtPlace ==
  ASSUME NEW T, NEW q \in Seq(T), NEW k \in 1..Len(q)
  PROVE  /\ RemoveAt(q, k) \in Seq(T) /\ Len(RemoveAt(q, k)) = Len(q) - 1
         /\ \A i \in 1..(Len(q) - 1) : RemoveAt(q, k)[i] = q[IF i < k THEN i ELSE i + 1]
<1>1. Len(q) \in Nat /\ \A i \in 1..Len(q) : q[i] \in T
  BY ElementOfSeq
<1>. DEFINE before == SubSeq(q, 1, k - 1)
            after == SubSeq(q, k + 1, Len(q))
            t == before \o after
<1>2. RemoveAt(q, k) = t
  BY Zenon DEF RemoveAt
<1>3. /\ before \in Seq(T) /\ Len(before) = k - 1
      /\ \A i \in 1..(k - 1) : before[i] = q[i]
  BY <1>1, SubSeqProperties
<1>4. /\ after \in Seq(T) /\ Len(after) = Len(q) - k
      /\ \A i \in 1..(Len(q) - k) : after[i] = q[k + i]
  BY <1>1, SubSeqProperties
<1>. HIDE DEF before, after
<1>5. /\ t \in Seq(T) /\ Len(t) = Len(before) + Len(after)
      /\ \A i \in 1..(Len(before) + Len(after)) :
           t[i] = IF i <= Len(before) THEN before[i] ELSE after[i - Len(before)]
  BY <1>3, <1>4, ConcatProperties, Zenon
<1>. HIDE DEF t
<1>6. Len(t) = Len(q) - 1
  BY <1>1, <1>3, <1>4, <1>5
<1>7. \A i \in 1..(Len(q) - 1) : t[i] = IF i <= k - 1 THEN before[i] ELSE after[i - (k - 1)]
  BY <1>1, <1>3, <1>4, <1>5
<1>8. ASSUME NEW i \in 1..(Len(q) - 1)
      PROVE  t[i] = q[IF i < k THEN i ELSE i + 1]
  <2>1. CASE i < k
    BY <1>1, <1>3, <1>7, <2>1
  <2>2. CASE ~(i < k)
    <3>1. i - (k - 1) \in 1..(Len(q) - k) /\ k + (i - (k - 1)) = i + 1 /\ ~(i <= k - 1)
      BY <1>1, <2>2
    <3>2. t[i] = after[i - (k - 1)]
      BY <1>7, <3>1
    <3>. QED  BY <1>4, <2>2, <3>1, <3>2
  <2>. QED  BY <2>1, <2>2
<1>. QED  BY <1>2, <1>5, <1>6, <1>8

(* The one entry of a key is unlinked.                                     *)
LEMMA DeleteFacts ==
  ASSUME NEW tree \in Seq(Nodes), NEW r \in Remotes, OneEntryEach(tree)
  PROVE  /\ DeleteEntry(tree, r) \in Seq(Nodes)
         /\ Len(DeleteEntry(tree, r)) = IF HasEntry(tree, r) THEN Len(tree) - 1 ELSE Len(tree)
         /\ \A x : HasEntry(DeleteEntry(tree, r), x) <=> HasEntry(tree, x) /\ x # r
         /\ OneEntryEach(DeleteEntry(tree, r))
<1>1. Len(tree) \in Nat /\ DOMAIN tree = 1..Len(tree)
  BY TreeFacts
<1>2. CASE ~HasEntry(tree, r)
  BY <1>2 DEF DeleteEntry, HasEntry
<1>3. CASE HasEntry(tree, r)
  <2>1. PICK k \in DOMAIN tree : k = FindEntry(tree, r) /\ tree[k].key = r
    BY <1>3, FindFacts
  <2>. DEFINE t == RemoveAt(tree, k)
  <2>2. DeleteEntry(tree, r) = t /\ k \in 1..Len(tree)
    BY <1>1, <1>3, <2>1 DEF DeleteEntry
  <2>5. /\ t \in Seq(Nodes) /\ Len(t) = Len(tree) - 1
        /\ \A i \in 1..(Len(tree) - 1) : t[i] = tree[IF i < k THEN i ELSE i + 1]
    BY <2>2, RemoveAtPlace
  <2>. HIDE DEF t
  <2>6. DOMAIN t = 1..(Len(tree) - 1)
    BY <2>5
  <2>8. ASSUME NEW i \in DOMAIN t
        PROVE  /\ i < k => i \in DOMAIN tree /\ t[i] = tree[i] /\ i # k
               /\ ~(i < k) => i + 1 \in DOMAIN tree /\ t[i] = tree[i + 1] /\ i + 1 # k
    BY <1>1, <2>2, <2>5, <2>6
  <2>9. ASSUME NEW j \in DOMAIN tree, j # k
        PROVE  \E i \in DOMAIN t : t[i] = tree[j]
    <3>1. CASE j < k
      <4>1. j \in DOMAIN t
        BY <1>1, <2>2, <2>6, <3>1
      <4>. QED  BY <2>8, <3>1, <4>1
    <3>2. CASE ~(j < k)
      <4>1. j - 1 \in DOMAIN t /\ ~(j - 1 < k) /\ (j - 1) + 1 = j
        BY <1>1, <2>2, <2>6, <2>9, <3>2
      <4>. QED  BY <2>8, <4>1
    <3>. QED  BY <3>1, <3>2
  <2>10. \A x : HasEntry(t, x) <=> HasEntry(tree, x) /\ x # r
    <3>1. ASSUME NEW i \in DOMAIN t
          PROVE  \E j \in DOMAIN tree : j # k /\ t[i] = tree[j]
      BY <2>8
    <3>2. \A j \in DOMAIN tree : j # k => tree[j].key # r
      BY <1>1, <2>1 DEF OneEntryEach
    <3>. QED  BY <2>1, <2>9, <3>1, <3>2 DEF HasEntry
  <2>11. OneEntryEach(t)
    <3>. SUFFICES ASSUME NEW i \in DOMAIN t, NEW j \in DOMAIN t, t[i].key = t[j].key
                  PROVE  i = j
      BY DEF OneEntryEach
    <3>. DEFINE f(n) == IF n < k THEN n ELSE n + 1
    <3>1. f(i) \in DOMAIN tree /\ f(j) \in DOMAIN tree /\ t[i] = tree[f(i)] /\ t[j] = tree[f(j)]
      BY <2>8
    <3>2. f(i) = f(j)
      BY <3>1 DEF OneEntryEach
    <3>3. i \in Int /\ j \in Int /\ k \in Int
      BY <2>2, <2>6
    <3>. QED  BY <3>2, <3>3
  <2>. QED  BY <1>3, <2>2, <2>5, <2>10, <2>11
<1>. QED  BY <1>2, <1>3

-----------------------------------------------------------------------------
(* Free sockets have their turns, one each.                                *)
Turn(free, s) == Cardinality({t \in free : t <= s})

LEMMA Turns ==
  ASSUME NEW free \in SUBSET Sockets
  PROVE  /\ IsFiniteSet(free) /\ Cardinality(free) \in Nat
         /\ \A s \in free : Turn(free, s) \in 1..Cardinality(free)
         /\ \A s, u \in free : Turn(free, s) = Turn(free, u) => s = u
         /\ \A n \in 1..Cardinality(free) : \E s \in free : Turn(free, s) = n
<1>0. PoolSize \in Nat /\ Sockets = 1..PoolSize
  BY WebClientAssumption DEF Sockets
<1>1. IsFiniteSet(free) /\ Cardinality(free) \in Nat
  <2>1. IsFiniteSet(Sockets)
    BY <1>0, FS_Interval
  <2>2. IsFiniteSet(free)
    BY <2>1, FS_Subset
  <2>. QED  BY <2>2, FS_CardinalityType
<1>2. ASSUME NEW s \in free
      PROVE  Turn(free, s) \in 1..Cardinality(free)
  <2>. DEFINE T == {t \in free : t <= s}
  <2>1. T \in SUBSET free /\ s \in T
    BY <1>0
  <2>. HIDE DEF T
  <2>2. IsFiniteSet(T) /\ Cardinality(T) <= Cardinality(free) /\ Cardinality(T) \in Nat
    BY <1>1, <2>1, FS_Subset, FS_CardinalityType
  <2>3. Cardinality(T) # 0
    BY <2>1, <2>2, FS_EmptySet
  <2>4. Cardinality(T) \in 1..Cardinality(free)
    BY <1>1, <2>2, <2>3
  <2>. QED  BY <2>4 DEF Turn, T
<1>3. ASSUME NEW s \in free, NEW u \in free, s < u
      PROVE  Turn(free, s) # Turn(free, u)
  <2>. DEFINE S == {t \in free : t <= s}
              U == {t \in free : t <= u}
  <2>0. \A t \in free : t \in Int
    BY <1>0
  <2>1. S \in SUBSET U /\ u \in U /\ u \notin S /\ U \in SUBSET free
    BY <1>3, <2>0
  <2>. HIDE DEF S, U
  <2>2. IsFiniteSet(U)
    BY <1>1, <2>1, FS_Subset
  <2>3. Cardinality(U) = Cardinality(S) => U = S
    BY <2>1, <2>2, FS_Subset
  <2>. QED  BY <2>1, <2>3 DEF Turn, S, U
<1>4. \A s, u \in free : Turn(free, s) = Turn(free, u) => s = u
  <2>1. \A s, u \in free : s = u \/ s < u \/ u < s
    BY <1>0
  <2>. QED  BY <1>3, <2>1
<1>5. \A n \in 1..Cardinality(free) : \E s \in free : Turn(free, s) = n
  <2>. DEFINE places == 1..Cardinality(free)
              f == [s \in free |-> Turn(free, s)]
  <2>1. f \in Injection(free, places)
    BY <1>2, <1>4 DEF Injection, IsInjective
  <2>2. IsFiniteSet(places) /\ Cardinality(places) = Cardinality(free)
    BY <1>1, FS_Interval
  <2>. HIDE DEF f
  <2>3. f \in Surjection(free, places)
    BY <2>1, <2>2, FS_Injection
  <2>. QED  BY <2>3 DEF Surjection, f
<1>. QED  BY <1>1, <1>2, <1>4, <1>5
-----------------------------------------------------------------------------
(* Reading the invariant.                                                  *)


LEMMA Constants ==
  /\ PoolSize \in Nat /\ Sockets = 1..PoolSize /\ NoSocket \notin Sockets
  /\ NoObject \in ObjectType /\ NoObject.queue = <<>>
  /\ NoTimers \in TimersType
  /\ Disconnected \in SockType /\ Disconnected.state = "free"
  /\ \A r \in Remotes : /\ ConnectTo(r) \in SockType /\ ConnectTo(r).state = "connecting"
                        /\ ConnectTo(r).user = r
<1>1. PoolSize \in Nat /\ Sockets = 1..PoolSize /\ NoSocket \notin Sockets
  BY WebClientAssumption DEF Sockets, NoSocket
<1>2. NoObject \in ObjectType /\ NoObject.queue = <<>>
  BY DEF NoObject, ObjectType, AfterPiece
<1>3. /\ NoTimers \in TimersType
      /\ Disconnected \in SockType /\ Disconnected.state = "free"
  BY DEF NoTimers, TimersType, Disconnected, SockType
<1>4. ASSUME NEW r \in Remotes
      PROVE  /\ ConnectTo(r) \in SockType /\ ConnectTo(r).state = "connecting"
             /\ ConnectTo(r).user = r
  <2>. DEFINE wide == [state : {"free", "connecting"}, user : Remotes \cup {NoSocket},
                      due : Nat, reset : BOOLEAN]
  <2>1. Disconnected \in wide
    BY DEF Disconnected
  <2>2. ASSUME NEW k \in wide
        PROVE  /\ [k EXCEPT !.state = "connecting", !.user = r] \in InUse
               /\ [k EXCEPT !.state = "connecting", !.user = r].state = "connecting"
               /\ [k EXCEPT !.state = "connecting", !.user = r].user = r
    BY DEF InUse
  <2>. QED  BY <2>1, <2>2 DEF ConnectTo, SockType
<1>. QED  BY <1>1, <1>2, <1>3, <1>4

LEMMA ObjectFacts ==
  ASSUME NEW o \in ObjectType
  PROVE  /\ o.queue \in Seq(Nat) /\ o.backoff \in Nat
         /\ o.queue # <<>> => /\ Head(o.queue) \in Nat /\ Tail(o.queue) \in Seq(Nat)
                              /\ {o.queue[i] : i \in DOMAIN o.queue} =
                                   {Head(o.queue)} \cup {Tail(o.queue)[i] : i \in DOMAIN Tail(o.queue)}
<1>1. o.queue \in Seq(Nat) /\ o.backoff \in Nat
  BY DEF ObjectType
<1>. DEFINE q == o.queue
<1>. HIDE DEF q
<1>2. ASSUME q \in Seq(Nat), q # <<>>
      PROVE  /\ Head(q) \in Nat /\ Tail(q) \in Seq(Nat)
             /\ {q[i] : i \in DOMAIN q} = {Head(q)} \cup {Tail(q)[i] : i \in DOMAIN Tail(q)}
  <2>1. /\ Len(q) \in Nat /\ Len(q) > 0 /\ DOMAIN q = 1..Len(q)
        /\ Head(q) \in Nat /\ Tail(q) \in Seq(Nat) /\ Len(Tail(q)) = Len(q) - 1
        /\ Head(q) = q[1]
        /\ \A i \in 1..(Len(q) - 1) : Tail(q)[i] = q[i + 1]
    BY <1>2, HeadTailProperties, EmptySeq
  <2>2. DOMAIN Tail(q) = 1..(Len(q) - 1)
    BY <2>1
  <2>3. ASSUME NEW i \in DOMAIN q
        PROVE  q[i] = Head(q) \/ \E j \in DOMAIN Tail(q) : q[i] = Tail(q)[j]
    <3>1. CASE i = 1
      BY <2>1, <3>1
    <3>2. CASE i # 1
      <4>1. i - 1 \in 1..(Len(q) - 1) /\ (i - 1) + 1 = i
        BY <2>1, <3>2
      <4>. QED  BY <2>1, <2>2, <4>1
    <3>. QED  BY <3>1, <3>2
  <2>4. ASSUME NEW j \in DOMAIN Tail(q)
        PROVE  \E i \in DOMAIN q : q[i] = Tail(q)[j]
    <3>1. j + 1 \in DOMAIN q /\ Tail(q)[j] = q[j + 1]
      BY <2>1, <2>2
    <3>. QED  BY <3>1
  <2>5. 1 \in DOMAIN q /\ q[1] = Head(q)
    BY <2>1
  <2>. DEFINE all == {q[i] : i \in DOMAIN q}
              rest == {Tail(q)[i] : i \in DOMAIN Tail(q)}
  <2>6. \A x \in all : x \in {Head(q)} \cup rest
    BY <2>3
  <2>7. \A x \in rest : x \in all
    BY <2>4
  <2>8. Head(q) \in all
    BY <2>5
  <2>. HIDE DEF all, rest
  <2>9. all = {Head(q)} \cup rest
    BY <2>6, <2>7, <2>8
  <2>. QED  BY <2>1, <2>9 DEF all, rest
<1>. QED  BY <1>1, <1>2 DEF q

LEMMA SocketFacts ==
  ASSUME TypeOK, NEW s \in Sockets
  PROVE  /\ sock[s] \in SockType
         /\ ~Free(s) => /\ sock[s] \in InUse
                        /\ User(s) \in Remotes /\ sock[s].due \in Nat /\ sock[s].reset \in BOOLEAN
                        /\ sock[s].state \in {"connecting", "connected"}
                        /\ object[User(s)] \in ObjectType
         /\ sock[s].state = "connecting" => ~Free(s)
         /\ Connected(s) => ~Free(s)
<1>1. sock[s] \in SockType /\ object \in [Remotes -> ObjectType]
  BY DEF TypeOK
<1>2. ~Free(s) => sock[s] \in InUse
  BY <1>1, Constants DEF SockType, Free, InUse
<1>. QED  BY <1>1, <1>2 DEF Free, Connected, User, InUse

(* The object of a socket in use is known and is nowhere else.             *)
LEMMA SocketPlace ==
  ASSUME IInv, Running, NEW s \in Sockets, ~Free(s)
  PROVE  /\ User(s) \in Remotes /\ object[User(s)] \in ObjectType
         /\ HasEntry(table, User(s)) /\ Uses(User(s)) = {s}
         /\ Waits(User(s)) = {} /\ timers[User(s)].retry = 0
         /\ Queue(User(s)) = <<>> => object[User(s)].socket = s /\ Connected(s)
         /\ Connected(s) => object[User(s)].socket = s /\ object[User(s)].backoff = 1
<1>. DEFINE r == User(s)
<1>1. /\ r \in Remotes /\ object[r] \in ObjectType
      /\ sock[s].state \in {"connecting", "connected"}
  BY SocketFacts DEF IInv
<1>2. RemoteFits(r) /\ SocketFits(s) /\ s \in Uses(r)
  BY <1>1 DEF IInv, Sound, Uses
<1>3. Fits(HasEntry(table, r), HasEntry(idle, r), Waits(r), Uses(r), object[r], timers[r],
           asked[r], told[r])
  BY <1>2 DEF RemoteFits
<1>. HIDE DEF r
<1>4. HasEntry(table, r)
  BY <1>2, <1>3 DEF Fits
<1>5. InPlace(Waits(r), Uses(r), object[r], timers[r])
  BY <1>3 DEF Fits
<1>6. Waits(r) = {} /\ timers[r].retry = 0 /\ Uses(r) = {s}
  BY <1>2, <1>5 DEF InPlace
<1>7. Queue(r) = <<>> => object[r].socket = s
  BY <1>2, <1>5 DEF InPlace, Queue
<1>8. /\ Queue(r) = <<>> => Connected(s)
      /\ Connected(s) => object[r].socket = s /\ object[r].backoff = 1
  BY <1>1, <1>2 DEF SocketFits, Queue, Connected, r
<1>. QED  BY <1>1, <1>4, <1>6, <1>7, <1>8 DEF r

-----------------------------------------------------------------------------
(* Types.                                                                  *)
LEMMA ObjectUpdates ==
  ASSUME NEW o \in ObjectType
  PROVE  /\ \A q \in Seq(Nat) : [o EXCEPT !.queue = q] \in ObjectType
         /\ \A s \in Sockets \cup {NoSocket} : [o EXCEPT !.socket = s] \in ObjectType
         /\ \A p \in {"unknown", "yes", "no"} : [o EXCEPT !.pipeline = p] \in ObjectType
         /\ \A n \in Nat : [o EXCEPT !.backoff = n] \in ObjectType
         /\ \A stage \in DOMAIN AfterPiece : [o EXCEPT !.reading = stage] \in ObjectType
<1>1. \A q \in Seq(Nat) : [o EXCEPT !.queue = q] \in ObjectType
  BY DEF ObjectType
<1>2. \A s \in Sockets \cup {NoSocket} : [o EXCEPT !.socket = s] \in ObjectType
  BY DEF ObjectType
<1>3. \A p \in {"unknown", "yes", "no"} : [o EXCEPT !.pipeline = p] \in ObjectType
  BY DEF ObjectType
<1>4. \A n \in Nat : [o EXCEPT !.backoff = n] \in ObjectType
  BY DEF ObjectType
<1>5. \A stage \in DOMAIN AfterPiece : [o EXCEPT !.reading = stage] \in ObjectType
  BY DEF ObjectType
<1>. QED  BY <1>1, <1>2, <1>3, <1>4, <1>5

LEMMA MoreUpdates ==
  ASSUME NEW o \in ObjectType
  PROVE  /\ \A s \in Sockets : [o EXCEPT !.socket = s, !.answered = FALSE, !.backoff = 1] \in ObjectType
         /\ \A s \in Sockets : [o EXCEPT !.socket = s, !.answered = FALSE, !.pipeline = "unknown"] \in ObjectType
         /\ \A q \in Seq(Nat) : [o EXCEPT !.reading = "header", !.answered = TRUE, !.queue = q] \in ObjectType
<1>1. \A s \in Sockets : [o EXCEPT !.socket = s, !.answered = FALSE, !.backoff = 1] \in ObjectType
  BY DEF ObjectType
<1>2. \A s \in Sockets : [o EXCEPT !.socket = s, !.answered = FALSE, !.pipeline = "unknown"] \in ObjectType
  BY DEF ObjectType
<1>3. \A q \in Seq(Nat) : [o EXCEPT !.reading = "header", !.answered = TRUE, !.queue = q] \in ObjectType
  <2>1. "header" \in DOMAIN AfterPiece
    BY DEF AfterPiece
  <2>. QED BY <2>1 DEF ObjectType
<1>. QED BY <1>1, <1>2, <1>3

LEMMA SocketUpdates ==
  ASSUME NEW k \in InUse
  PROVE  /\ \A n \in Nat : [k EXCEPT !.due = n] \in InUse
         /\ [k EXCEPT !.reset = TRUE] \in InUse
         /\ \A n \in Nat : [k EXCEPT !.state = "connected", !.due = n] \in InUse
BY DEF InUse

LEMMA TimersUpdates ==
  ASSUME NEW t \in TimersType
  PROVE  /\ \A n \in Nat : [t EXCEPT !.idle = n] \in TimersType
         /\ \A n \in Nat : [t EXCEPT !.retry = n] \in TimersType
BY DEF TimersType
LEMMA NatQueue == \A n \in Nat : <<n>> \in Seq(Nat)
OBVIOUS

LEMMA TypeStep ==
  ASSUME IInv, [Next]_vars
  PROVE  TypeOK'
<1>0. /\ table \in Seq(Nodes) /\ idle \in Seq(Nodes) /\ idleCount \in Int
      /\ backlog \in Seq(Remotes)
      /\ object \in [Remotes -> ObjectType]
      /\ sock \in [Sockets -> SockType]
      /\ timers \in [Remotes -> TimersType]
      /\ asked \in [Remotes -> Nat] /\ told \in [Remotes -> SUBSET Nat]
      /\ thread \in {"running", "stopped", "deadlock", "evicted", "confused"}
      /\ OneEntryEach(table) /\ OneEntryEach(idle)
  BY DEF IInv, TypeOK
<1>t. TypeOK
  BY DEF IInv
<1>o. \A r \in Remotes : object[r] \in ObjectType
  BY <1>0
<1>c. \A r \in Remotes : /\ timers[r] \in TimersType
                         /\ timers[r].idle \in Nat /\ timers[r].retry \in Nat
  BY <1>0 DEF TimersType
<1>u. InUse \subseteq SockType
  BY DEF InUse, SockType
<1>h. ASSUME NEW r \in Remotes, Queue(r) # <<>>
      PROVE  ToldHead(r) \in [Remotes -> SUBSET Nat]
  <2>1. Head(Queue(r)) \in Nat
    BY <1>0, <1>h, ObjectFacts DEF Queue
  <2>. QED  BY <1>0, <2>1 DEF ToldHead
<1>l. ASSUME NEW s \in Sockets, NEW o \in ObjectType, Lost(s, User(s), o), Running, ~Free(s),
             o.queue = Queue(User(s)),
             UNCHANGED <<tables, timers, asked, thread>>
      PROVE  TypeOK'
  <2>1. User(s) \in Remotes
    BY <1>t, <1>l, SocketFacts
  <2>2. SocketOnLoss(User(s), o) \in SockType
    BY <2>1, Constants DEF SocketOnLoss
  <2>3. [o EXCEPT !.pipeline = "no"] \in ObjectType
    BY ObjectUpdates
  <2>4. told' \in [Remotes -> SUBSET Nat]
    BY <1>0, <1>h, <1>l, <2>1 DEF Lost, ToldOnLoss
  <2>. QED  BY <1>0, <1>l, <2>1, <2>2, <2>3, <2>4 DEF Lost, TypeOK, tables
<1>1. ASSUME NEW r \in Remotes, PipelineRequestEx(r)
      PROVE  TypeOK'
  <2>1. NewRequest(r) \in Nat /\ asked' \in [Remotes -> Nat] /\ told' = told
    BY <1>0, <1>1 DEF PipelineRequestEx, NewRequest
  <2>2. <<NewRequest(r)>> \in Seq(Nat) /\ object[r].queue \in Seq(Nat)
    BY <1>0, <2>1, ObjectFacts, NatQueue
  <2>3. CASE RequestFirst(r)
    <3>1. [NoObject EXCEPT !.queue = <<NewRequest(r)>>] \in ObjectType
      BY <2>2, Constants DEF ObjectType
    <3>2. table' \in Seq(Nodes)
      BY <1>0, <2>3, AddFacts DEF RequestFirst
    <3>3. backlog' \in Seq(Remotes)
      BY <1>0, <2>3, AppendProperties DEF RequestFirst
    <3>. QED  BY <1>0, <2>1, <2>3, <3>1, <3>2, <3>3 DEF RequestFirst, TypeOK
  <2>4. CASE RequestQueued(r)
    <3>1. Append(object[r].queue, NewRequest(r)) \in Seq(Nat)
      BY <2>1, <2>2, AppendProperties
    <3>2. [object[r] EXCEPT !.queue = Append(object[r].queue, NewRequest(r))] \in ObjectType
      BY <1>o, <3>1, ObjectUpdates
    <3>3. object' = [object EXCEPT ![r] = [object[r] EXCEPT !.queue = Append(object[r].queue, NewRequest(r))]]
      BY <2>4 DEF RequestQueued
    <3>. QED  BY <1>0, <2>1, <2>4, <3>2, <3>3 DEF RequestQueued, TypeOK, tables
  <2>5. CASE RequestToIdle(r)
    <3>1. [object[r] EXCEPT !.queue = <<NewRequest(r)>>] \in ObjectType
      BY <1>o, <2>2, ObjectUpdates
    <3>p. object' = [object EXCEPT ![r] = [object[r] EXCEPT !.queue = <<NewRequest(r)>>]]
      BY <2>5 DEF RequestToIdle
    <3>2. object' \in [Remotes -> ObjectType]
      BY <1>0, <3>1, <3>p
    <3>3. idle' \in Seq(Nodes) /\ idleCount' \in Int
      BY <1>0, <2>5, DeleteFacts DEF RequestToIdle, OutOfIdle
    <3>4. timers' \in [Remotes -> TimersType]
      <4>. DEFINE n == IF timers[r].idle = 0 THEN 0 ELSE timers[r].idle - 1
      <4>1. n \in Nat
        BY <1>c
      <4>2. timers' = [timers EXCEPT ![r] = [timers[r] EXCEPT !.idle = n]]
        BY <2>5 DEF RequestToIdle, OutOfIdle
      <4>. HIDE DEF n
      <4>3. [timers[r] EXCEPT !.idle = n] \in TimersType
        BY <1>c, <4>1, TimersUpdates
      <4>. QED  BY <1>0, <4>2, <4>3
    <3>5. backlog' \in Seq(Remotes)
      BY <1>0, <2>5, AppendProperties DEF RequestToIdle
    <3>6. sock' \in [Sockets -> SockType]
      <4>. DEFINE s == object[r].socket
      <4>1. s = NoSocket \/ s \in Sockets
        BY <1>0 DEF ObjectType
      <4>2. CASE s = NoSocket \/ Free(s)
        BY <1>0, <2>5, <4>2 DEF RequestToIdle
      <4>3. CASE s \in Sockets /\ ~Free(s)
        <5>1. sock[s] \in InUse /\ sock[s].due + 1 \in Nat
          BY <1>t, <4>3, SocketFacts
        <5>2. [sock[s] EXCEPT !.due = @ + 1] \in SockType
          BY <1>u, <5>1, SocketUpdates
        <5>3. sock' = [sock EXCEPT ![s] = [sock[s] EXCEPT !.due = @ + 1]]
          BY <2>5, <4>3, Constants DEF RequestToIdle
        <5>. QED  BY <1>0, <5>2, <5>3
      <4>. QED  BY <4>1, <4>2, <4>3
    <3>. QED  BY <1>0, <2>1, <2>5, <3>2, <3>3, <3>4, <3>5, <3>6 DEF RequestToIdle, TypeOK
  <2>. QED  BY <1>1, <2>3, <2>4, <2>5 DEF PipelineRequestEx
<1>2. ASSUME UNCHANGED <<tables, object, sock, timers, ghosts>>,
             thread' \in {"stopped", "deadlock", "evicted", "confused"}
      PROVE  TypeOK'
  BY <1>0, <1>2 DEF TypeOK, tables, ghosts
<1>3. ASSUME NEW r \in Remotes, RetrySink(r), ~Deadlock
      PROVE  TypeOK'
  <2>1. [timers[r] EXCEPT !.retry = @ - 1] \in TimersType
    <3>1. timers[r].retry - 1 \in Nat
      BY <1>c, <1>3 DEF RetrySink
    <3>. QED  BY <1>c, <3>1, TimersUpdates
  <2>p. timers' = [timers EXCEPT ![r] = [timers[r] EXCEPT !.retry = @ - 1]]
    BY <1>3 DEF RetrySink
  <2>2. timers' \in [Remotes -> TimersType]
    BY <1>0, <2>1, <2>p
  <2>3. CASE ~GivesUp(r)
    <3>1. Backoff(r) \in Nat
      BY <1>0, ObjectFacts DEF Backoff
    <3>2. [object[r] EXCEPT !.backoff = Backoff(r)] \in ObjectType
      BY <1>o, <3>1, ObjectUpdates
    <3>p. object' = [object EXCEPT ![r] = [object[r] EXCEPT !.backoff = Backoff(r)]]
      BY <1>3, <2>3 DEF RetrySink
    <3>3. object' \in [Remotes -> ObjectType]
      BY <1>0, <3>2, <3>p
    <3>4. backlog' \in Seq(Remotes)
      <4>1. backlog' = Append(backlog, r)
        BY <1>3, <2>3 DEF RetrySink
      <4>. QED  BY <1>0, <4>1, AppendProperties
    <3>. QED  BY <1>0, <1>3, <2>2, <2>3, <3>3, <3>4 DEF RetrySink, TypeOK, ghosts
  <2>4. CASE GivesUp(r)
    <3>1. table' \in Seq(Nodes) /\ idle' \in Seq(Nodes)
      BY <1>0, <1>3, <2>4, DeleteFacts DEF RetrySink
    <3>2. Abandoned(r) \subseteq Nat
      <4>1. object[r].queue \in Seq(Nat)
        BY <1>0, ObjectFacts
      <4>. QED  BY <4>1, ElementOfSeq, LenProperties DEF Abandoned, Queue
    <3>3. told' \in [Remotes -> SUBSET Nat]
      BY <1>0, <1>3, <2>4, <3>2 DEF RetrySink
    <3>. QED  BY <1>0, <1>3, <2>2, <2>4, <3>1, <3>3, Constants DEF RetrySink, TypeOK
  <2>. QED  BY <2>3, <2>4
<1>4. ASSUME NEW r \in Remotes, TimerSink(r)
      PROVE  TypeOK'
  <2>. DEFINE s == object[r].socket
              v == User(s)
  <2>1. timers' \in [Remotes -> TimersType]
    <3>1. timers[r].idle - 1 \in Nat
      BY <1>c, <1>4 DEF TimerSink
    <3>2. [timers[r] EXCEPT !.idle = @ - 1] \in TimersType
      BY <1>c, <3>1, TimersUpdates
    <3>3. timers' = [timers EXCEPT ![r] = [timers[r] EXCEPT !.idle = @ - 1]]
      BY <1>4 DEF TimerSink
    <3>. QED  BY <1>0, <3>2, <3>3
  <2>2. idle' \in Seq(Nodes) /\ idleCount' \in Int
    <3>1. AddEntry(idle, r, r) \in Seq(Nodes)
      <4>1. RemoteFits(r)
        BY <1>4 DEF IInv, Sound, TimerSink
      <4>2. ~HasEntry(idle, r)
        BY <1>c, <1>4, <4>1 DEF RemoteFits, Fits, TimerSink
      <4>. QED  BY <1>0, <4>2, AddFacts
    <3>. QED  BY <1>0, <1>4, <3>1 DEF TimerSink, IntoIdle
  <2>3. [object[r] EXCEPT !.socket = NoSocket] \in ObjectType
    BY <1>o, ObjectUpdates
  <2>4. CASE Stale(r)
    <3>1. s \in Sockets /\ ~Free(s) /\ v # r
      BY <1>0, <2>4 DEF Stale, ObjectType
    <3>2. v \in Remotes
      BY <1>t, <3>1, SocketFacts
    <3>3. SocketOnLoss(v, object[v]) \in SockType
      BY <3>2, Constants DEF SocketOnLoss
    <3>4. [object[v] EXCEPT !.pipeline = "no"] \in ObjectType
      BY <1>o, <3>2, ObjectUpdates
    <3>5. object' = [object EXCEPT ![r].socket = NoSocket, ![v].pipeline = "no"]
      BY <1>4, <2>4 DEF TimerSink
    <3>6. object' \in [Remotes -> ObjectType]
      BY <1>0, <2>3, <3>1, <3>2, <3>4, <3>5
    <3>7. told' \in [Remotes -> SUBSET Nat]
      <4>1. told' = ToldOnLoss(v, object[v])
        BY <1>4, <2>4 DEF TimerSink
      <4>. QED  BY <1>0, <1>h, <3>2, <4>1 DEF ToldOnLoss, Queue
    <3>8. sock' = [sock EXCEPT ![s] = SocketOnLoss(v, object[v])]
      BY <1>4, <2>4 DEF TimerSink
    <3>9. sock' \in [Sockets -> SockType]
      BY <1>0, <3>1, <3>3, <3>8
    <3>. QED  BY <1>0, <1>4, <2>1, <2>2, <3>6, <3>7, <3>9 DEF TimerSink, TypeOK
  <2>5. CASE ~Stale(r)
    <3>1. sock' = [t \in Sockets |-> IF t = s THEN Disconnected ELSE sock[t]]
      BY <1>4, <2>5 DEF TimerSink
    <3>2. sock' \in [Sockets -> SockType]
      BY <1>0, <3>1, Constants
    <3>3. object' \in [Remotes -> ObjectType] /\ told' = told
      BY <1>0, <1>4, <2>3, <2>5 DEF TimerSink
    <3>. QED  BY <1>0, <1>4, <2>1, <2>2, <3>2, <3>3 DEF TimerSink, TypeOK
  <2>. QED  BY <2>4, <2>5
<1>5. CASE PreProcess
  <2>. DEFINE free == {s \in Sockets : Free(s)}
              turn(s) == Cardinality({t \in free : t <= s})
  <2>1. /\ sock' = [s \in Sockets |-> IF s \in free /\ turn(s) <= Len(backlog)
                                      THEN ConnectTo(backlog[turn(s)]) ELSE sock[s]]
        /\ backlog' = SubSeq(backlog, Cardinality(free) + 1, Len(backlog))
    BY <1>5, Zenon DEF PreProcess
  <2>2. Cardinality(free) \in Nat /\ \A s \in free : turn(s) \in 1..Cardinality(free)
    BY Turns DEF Turn
  <2>. HIDE DEF free, turn
  <2>3. Len(backlog) \in Nat /\ \A i \in 1..Len(backlog) : backlog[i] \in Remotes
    BY <1>0, ElementOfSeq
  <2>4. sock' \in [Sockets -> SockType]
    <3>1. ASSUME NEW s \in Sockets, s \in free, turn(s) <= Len(backlog)
          PROVE  ConnectTo(backlog[turn(s)]) \in SockType
      <4>1. turn(s) \in 1..Len(backlog)
        BY <2>2, <2>3, <3>1
      <4>2. backlog[turn(s)] \in Remotes
        BY <2>3, <4>1
      <4>. QED  BY <4>2, Constants
    <3>. QED  BY <1>0, <2>1, <3>1
  <2>5. backlog' \in Seq(Remotes)
    <3>1. \A i \in (Cardinality(free) + 1)..Len(backlog) : backlog[i] \in Remotes
      BY <2>2, <2>3
    <3>. QED  BY <2>1, <2>2, <2>3, <3>1, SubSeqProperties
  <2>. QED  BY <1>0, <1>5, <2>4, <2>5 DEF PreProcess, TypeOK, ghosts
<1>6. ASSUME NEW s \in Sockets, OnSocket(s), ~Deadlock
      PROVE  TypeOK'
  <2>0. Running
    BY <1>6 DEF OnSocket, Connects, RefusedWritable, RefusedException, PieceArrives,
                AnswerComplete, NextRequestFails, DataDropped, PeerCloses, ResetArrives, Speaks
  <2>. DEFINE r == User(s)
  <2>o. ASSUME ~Free(s)
        PROVE  Opened(s) \in ObjectType /\ Opened(s).queue = Queue(r)
    <3>1. object[r] \in ObjectType
      BY <1>t, <2>o, SocketFacts
    <3>. QED  BY <3>1, MoreUpdates DEF Opened, ObjectType, Queue
  <2>1. CASE Connects(s)
    <3>1. ~Free(s) /\ r \in Remotes
      BY <1>t, <2>1, SocketFacts DEF Connects
    <3>2. sock[s] \in InUse /\ sock[s].due + 1 \in Nat
      BY <1>t, <3>1, SocketFacts
    <3>3. [sock[s] EXCEPT !.state = "connected", !.due = @ + 1] \in SockType
      BY <1>u, <3>2, SocketUpdates
    <3>4. sock' = [sock EXCEPT ![s] = [sock[s] EXCEPT !.state = "connected", !.due = @ + 1]]
      BY <1>0, <2>1 DEF Connects
    <3>5. sock' \in [Sockets -> SockType] /\ object' \in [Remotes -> ObjectType]
      BY <1>0, <2>1, <2>o, <3>1, <3>3, <3>4 DEF Connects
    <3>. QED  BY <1>0, <2>1, <3>5 DEF Connects, TypeOK, tables
  <2>2. CASE RefusedWritable(s)
    <3>1. ~Free(s)
      BY <1>t, <2>2, SocketFacts DEF RefusedWritable
    <3>. QED  BY <1>l, <2>0, <2>2, <2>o, <3>1 DEF RefusedWritable
  <2>3. CASE RefusedException(s)
    <3>1. ~Free(s) /\ r \in Remotes /\ Queue(r) # <<>>
      BY <1>t, <2>0, <2>3, SocketFacts DEF RefusedException, IInv, Sound, SocketFits
    <3>2. [object[r] EXCEPT !.socket = s, !.answered = FALSE, !.pipeline = "unknown"] \in ObjectType
      BY <1>o, <3>1, MoreUpdates
    <3>3. object' = [object EXCEPT ![r] = [object[r] EXCEPT !.socket = s, !.answered = FALSE,
                                                            !.pipeline = "unknown"]]
      BY <1>0, <2>3, <3>1 DEF RefusedException
    <3>4. object' \in [Remotes -> ObjectType] /\ sock' \in [Sockets -> SockType]
      BY <1>0, <2>3, <3>1, <3>2, <3>3, Constants DEF RefusedException
    <3>5. timers' \in [Remotes -> TimersType]
      <4>1. timers[r].retry + 1 \in Nat
        BY <1>c, <3>1
      <4>2. [timers[r] EXCEPT !.retry = @ + 1] \in TimersType
        BY <1>c, <3>1, <4>1, TimersUpdates
      <4>3. timers' = [timers EXCEPT ![r] = [timers[r] EXCEPT !.retry = @ + 1]]
        BY <2>3 DEF RefusedException
      <4>. QED  BY <1>0, <4>2, <4>3
    <3>6. told' \in [Remotes -> SUBSET Nat]
      BY <1>0, <1>h, <2>3, <3>1 DEF RefusedException
    <3>. QED  BY <1>0, <2>3, <3>4, <3>5, <3>6 DEF RefusedException, TypeOK, tables
  <2>4. ASSUME NEW stage \in DOMAIN AfterPiece, PieceArrives(s, stage)
        PROVE  TypeOK'
    <3>1. r \in Remotes
      BY <1>t, <2>4, SocketFacts DEF PieceArrives, Speaks
    <3>2. [object[r] EXCEPT !.reading = stage] \in ObjectType
      BY <1>o, <3>1, ObjectUpdates
    <3>p. object' = [object EXCEPT ![r] = [object[r] EXCEPT !.reading = stage]]
      BY <2>4 DEF PieceArrives
    <3>3. object' \in [Remotes -> ObjectType]
      BY <1>0, <3>2, <3>p
    <3>. QED  BY <1>0, <2>4, <3>3 DEF PieceArrives, TypeOK, tables, ghosts
  <2>5. CASE AnswerComplete(s)
    <3>1. ~Free(s) /\ r \in Remotes /\ Queue(r) # <<>>
      BY <1>t, <2>5, SocketFacts DEF AnswerComplete, Speaks
    <3>2. Tail(object[r].queue) \in Seq(Nat)
      BY <1>0, <3>1, ObjectFacts DEF Queue
    <3>3. ASSUME NEW p \in {"yes", object[r].pipeline}
          PROVE  [Finished(r) EXCEPT !.pipeline = p] \in ObjectType
      <4>1. Finished(r) \in ObjectType
        BY <1>o, <3>1, <3>2, MoreUpdates DEF Finished
      <4>2. p \in {"unknown", "yes", "no"}
        BY <1>o, <3>1 DEF ObjectType
      <4>. QED  BY <4>1, <4>2, ObjectUpdates
    <3>4. \E p \in {"yes", object[r].pipeline} :
             object' = [object EXCEPT ![r] = [Finished(r) EXCEPT !.pipeline = p]]
      BY <2>5 DEF AnswerComplete, Finished
    <3>5. object' \in [Remotes -> ObjectType]
      BY <1>0, <3>3, <3>4
    <3>6. sock[s] \in InUse /\ sock[s].due - 1 \in Nat
      <4>1. sock[s] \in InUse /\ sock[s].due \in Nat
        BY <1>t, <3>1, SocketFacts
      <4>. QED  BY <2>5, <4>1 DEF AnswerComplete, Speaks
    <3>7. \A n \in {sock[s].due, sock[s].due - 1} : [sock[s] EXCEPT !.due = n] \in SockType
      <4>1. \A n \in {sock[s].due, sock[s].due - 1} : n \in Nat
        BY <1>t, <3>1, <3>6, SocketFacts
      <4>. QED  BY <1>u, <3>6, <4>1, SocketUpdates
    <3>p. \E n \in {sock[s].due, sock[s].due - 1} :
             sock' = [sock EXCEPT ![s] = [sock[s] EXCEPT !.due = n]]
      BY <2>5 DEF AnswerComplete
    <3>8. sock' \in [Sockets -> SockType]
      BY <1>0, <3>7, <3>p
    <3>9. timers' \in [Remotes -> TimersType]
      <4>1. timers[r].idle + 1 \in Nat
        BY <1>c, <3>1
      <4>2. [timers[r] EXCEPT !.idle = @ + 1] \in TimersType
        BY <1>c, <3>1, <4>1, TimersUpdates
      <4>3. timers' = timers \/ timers' = [timers EXCEPT ![r] = [timers[r] EXCEPT !.idle = @ + 1]]
        BY <2>5 DEF AnswerComplete
      <4>. QED  BY <1>0, <4>2, <4>3
    <3>. QED  BY <1>0, <1>h, <2>5, <3>1, <3>5, <3>8, <3>9 DEF AnswerComplete, TypeOK, tables
  <2>6. CASE DataDropped(s)
    <3>1. ~Free(s)
      BY <1>t, <2>6, SocketFacts DEF DataDropped, Speaks
    <3>2. sock[s] \in InUse /\ sock[s].due - 1 \in Nat
      <4>1. sock[s] \in InUse /\ sock[s].due \in Nat
        BY <1>t, <3>1, SocketFacts
      <4>. QED  BY <2>6, <4>1 DEF DataDropped, Speaks
    <3>3. [sock[s] EXCEPT !.due = @ - 1] \in SockType
      BY <1>u, <3>2, SocketUpdates
    <3>4. sock' \in [Sockets -> SockType]
      BY <1>0, <2>6, <3>3 DEF DataDropped
    <3>. QED  BY <1>0, <2>6, <3>4 DEF DataDropped, TypeOK, tables, ghosts
  <2>7. CASE PeerCloses(s)
    <3>1. ~Free(s) /\ object[r] \in ObjectType
      BY <1>t, <2>7, SocketFacts DEF PeerCloses
    <3>2. Lost(s, r, object[r]) /\ UNCHANGED <<tables, timers, asked, thread>>
      BY <2>7 DEF PeerCloses
    <3>. QED  BY <1>l, <2>0, <3>1, <3>2 DEF Queue
  <2>8. CASE ResetArrives(s)
    <3>1. ~Free(s)
      BY <1>t, <2>8, SocketFacts DEF ResetArrives
    <3>2. sock[s] \in InUse
      BY <1>t, <3>1, SocketFacts
    <3>3. [sock[s] EXCEPT !.reset = TRUE] \in SockType
      BY <1>u, <3>2, SocketUpdates
    <3>4. sock' \in [Sockets -> SockType]
      BY <1>0, <2>8, <3>3 DEF ResetArrives
    <3>. QED  BY <1>0, <2>8, <3>4 DEF ResetArrives, TypeOK, tables, ghosts
  <2>. QED  BY <1>6, <2>1, <2>2, <2>3, <2>4, <2>5, <2>6, <2>7, <2>8 DEF OnSocket, NextRequestFails
<1>7. CASE DestroyWebClient
  <2>1. CASE backlog # <<>>
    BY <1>0, <1>7, <2>1 DEF DestroyWebClient, TypeOK, tables
  <2>2. CASE backlog = <<>>
    <3>1. table' \in Seq(Nodes) /\ idle' \in Seq(Nodes)
      BY <1>7, <2>2 DEF DestroyWebClient, EmptyTree
    <3>2. object' \in [Remotes -> ObjectType]
      BY <1>o, <1>7, <2>2, Constants DEF DestroyWebClient
    <3>p. sock' \in [Sockets -> SockType] /\ timers' \in [Remotes -> TimersType]
      BY <1>7, <2>2, Constants DEF DestroyWebClient
    <3>3. \A r \in Remotes : Abandoned(r) \subseteq Nat
      <4>. TAKE r \in Remotes
      <4>1. object[r].queue \in Seq(Nat)
        BY <1>0, ObjectFacts
      <4>. QED  BY <4>1, ElementOfSeq, LenProperties DEF Abandoned, Queue
    <3>4. told' \in [Remotes -> SUBSET Nat]
      BY <1>0, <1>7, <2>2, <3>3 DEF DestroyWebClient
    <3>. QED  BY <1>0, <1>7, <2>2, <3>1, <3>2, <3>p, <3>4 DEF DestroyWebClient, TypeOK
  <2>. QED  BY <2>1, <2>2
<1>8. CASE UNCHANGED vars
  BY <1>0, <1>8 DEF vars, tables, ghosts, TypeOK
<1>9. CASE Deadlock
  BY <1>2, <1>9 DEF Deadlock
<1>10. ASSUME NEW r \in Remotes, PipelineRequestFails(r) \/ TimerSinkEvicts(r)
       PROVE  TypeOK'
  BY <1>2, <1>9, <1>10 DEF PipelineRequestFails, TimerSinkEvicts
<1>. QED  BY <1>1, <1>3, <1>4, <1>5, <1>6, <1>7, <1>8, <1>9, <1>10 DEF Next, OnTimer

-----------------------------------------------------------------------------
(* Places.                                                                 *)

LEMMA Present ==
  ASSUME IInv, Running, NEW r \in Remotes
  PROVE  /\ Fits(HasEntry(table, r), HasEntry(idle, r), Waits(r), Uses(r), object[r], timers[r],
                 asked[r], told[r])
         /\ object[r] \in ObjectType /\ timers[r].idle \in Nat /\ timers[r].retry \in Nat
         /\ asked[r] \in Nat /\ told[r] \in SUBSET Nat
<1>1. /\ object[r] \in ObjectType /\ timers[r] \in TimersType
      /\ asked[r] \in Nat /\ told[r] \in SUBSET Nat
  BY DEF IInv, TypeOK
<1>2. timers[r].idle \in Nat /\ timers[r].retry \in Nat
  BY <1>1 DEF TimersType
<1>3. RemoteFits(r)
  BY DEF IInv, Sound
<1>. QED  BY <1>1, <1>2, <1>3 DEF RemoteFits

(* What concerns another address only leaves r as it was.                  *)
LEMMA Undisturbed ==
  ASSUME IInv, Running, NEW r \in Remotes,
         HasEntry(table, r)' <=> HasEntry(table, r), HasEntry(idle, r)' <=> HasEntry(idle, r),
         Waits(r)' = Waits(r), Uses(r)' = Uses(r), object'[r] = object[r],
         timers'[r] = timers[r], asked'[r] = asked[r], told'[r] = told[r]
  PROVE  RemoteFits(r)'
<1>1. Fits(HasEntry(table, r), HasEntry(idle, r), Waits(r), Uses(r), object[r], timers[r],
           asked[r], told[r])
  BY Present
<1>2. Fits(HasEntry(table, r)', HasEntry(idle, r)', Waits(r), Uses(r), object[r], timers[r],
           asked[r], told[r])
  BY <1>1 DEF Fits
<1>. QED  BY <1>2 DEF RemoteFits

LEMMA SamePlaces ==
  /\ backlog' = backlog => \A x : Waits(x)' = Waits(x)
  /\ sock' = sock => \A x : Uses(x)' = Uses(x)
BY DEF Waits, Uses, Free, User

LEMMA AppendWaits ==
  ASSUME TypeOK, NEW r \in Remotes, backlog' = Append(backlog, r)
  PROVE  /\ Waits(r) = {} => Waits(r)' = {Len(backlog) + 1}
         /\ \A x : x # r => Waits(x)' = Waits(x)
<1>. DEFINE n == Len(backlog) + 1
<1>1. backlog \in Seq(Remotes)
  BY DEF TypeOK
<1>2. /\ DOMAIN backlog = 1..Len(backlog) /\ Len(backlog) \in Nat
      /\ DOMAIN backlog' = 1..n
      /\ \A i \in 1..Len(backlog) : backlog'[i] = backlog[i]
      /\ backlog'[n] = r
  BY <1>1, AppendProperties
<1>3. n \in DOMAIN backlog' /\ n \notin DOMAIN backlog
  BY <1>2
<1>4. \A i : i \in DOMAIN backlog' <=> i \in DOMAIN backlog \/ i = n
  BY <1>2
<1>. HIDE DEF n
<1>5. \A i \in DOMAIN backlog : backlog'[i] = backlog[i]
  BY <1>2
<1>. QED  BY <1>2, <1>3, <1>4, <1>5 DEF Waits, n

(* The socket s becomes k.                                                 *)
LEMMA SocketChanges ==
  ASSUME TypeOK, NEW s \in Sockets, NEW k, sock' = [sock EXCEPT ![s] = k]
  PROVE  \A x, t : t \in Uses(x)' <=>
           (t \in Uses(x) /\ t # s) \/ (t = s /\ k.state # "free" /\ k.user = x)
<1>1. sock \in [Sockets -> SockType]
  BY DEF TypeOK
<1>2. sock'[s] = k /\ \A t \in Sockets : t # s => sock'[t] = sock[t]
  BY <1>1
<1>. QED  BY <1>2 DEF Uses, Free, User

(* A step of the socket s that only its own object takes part in.          *)
LEMMA OwnSocketStep ==
  ASSUME IInv, Running, NEW s \in Sockets, ~Free(s), NEW r \in Remotes, User(s) = r, NEW k, NEW o,
         sock' = [sock EXCEPT ![s] = k], object' = [object EXCEPT ![r] = o],
         UNCHANGED <<tables, asked>>,
         \A x \in Remotes : x # r => timers'[x] = timers[x] /\ told'[x] = told[x],
         k.state # "free" => k.user = r,
         k.state = "connecting" => o.queue # <<>>,
         k.state = "connected" => o.socket = s /\ o.backoff = 1,
         Fits(HasEntry(table, r), HasEntry(idle, r), {},
              IF k.state = "free" THEN {} ELSE {s}, o, timers'[r], asked[r],
              told'[r])
  PROVE  Sound'
<1>0. TypeOK
  BY DEF IInv
<1>1. Uses(r) = {s} /\ Waits(r) = {}
  BY SocketPlace
<1>2. object'[r] = o /\ \A x \in Remotes : x # r => object'[x] = object[x]
  BY <1>0 DEF TypeOK
<1>3. sock'[s] = k /\ \A t \in Sockets : t # s => sock'[t] = sock[t]
  BY <1>0 DEF TypeOK
<1>4. /\ table' = table /\ idle' = idle /\ backlog' = backlog /\ asked' = asked
      /\ \A x : Waits(x)' = Waits(x)
      /\ \A x : HasEntry(table, x)' = HasEntry(table, x)
      /\ \A x : HasEntry(idle, x)' = HasEntry(idle, x)
  BY SamePlaces DEF tables
<1>5. \A x, t : t \in Uses(x)' <=>
           (t \in Uses(x) /\ t # s) \/ (t = s /\ k.state # "free" /\ k.user = x)
  BY <1>0, SocketChanges
<1>6. RemoteFits(r)'
  <2>1. Uses(r)' = IF k.state = "free" THEN {} ELSE {s}
    BY <1>1, <1>5
  <2>2. Fits(HasEntry(table, r)', HasEntry(idle, r)', Waits(r)', Uses(r)', object'[r], timers'[r],
             asked'[r], told'[r])
    BY <1>1, <1>2, <1>4, <2>1
  <2>. QED  BY <1>0, <2>2 DEF RemoteFits
<1>7. ASSUME NEW x \in Remotes, x # r
      PROVE  RemoteFits(x)'
  <2>1. Uses(x)' = Uses(x)
    BY <1>5, <1>7 DEF Uses
  <2>. QED  BY <1>2, <1>4, <1>7, <2>1, Undisturbed
<1>8. ASSUME NEW t \in Sockets
      PROVE  SocketFits(t)'
  <2>1. CASE t = s
    BY <1>2, <1>3, <2>1 DEF SocketFits, Queue, User
  <2>2. CASE t # s
    <3>1. sock'[t] = sock[t] /\ SocketFits(t)
      BY <1>3, <2>2 DEF IInv, Sound
    <3>2. CASE Free(t)
      BY <3>1, <3>2 DEF SocketFits, Free
    <3>3. CASE ~Free(t)
      <4>1. User(t) \in Remotes /\ User(t) # r
        BY <1>1, <2>2, <3>3, SocketPlace
      <4>. QED  BY <1>2, <3>1, <4>1 DEF SocketFits, Queue, User
    <3>. QED  BY <3>2, <3>3
  <2>. QED  BY <2>1, <2>2
<1>. QED  BY <1>6, <1>7, <1>8 DEF Sound

-----------------------------------------------------------------------------
(* What happens on a socket.                                               *)

LEMMA OfSocket ==
  ASSUME IInv, Running, NEW s \in Sockets, ~Free(s)
  PROVE  \E r \in Remotes :
           /\ User(s) = r
           /\ Fits(HasEntry(table, r), HasEntry(idle, r), {}, {s}, object[r], timers[r],
                   asked[r], told[r])
           /\ sock[s] \in InUse /\ object[r] \in ObjectType
           /\ sock[s].state = "connecting" => Queue(r) # <<>>
           /\ Connected(s) => object[r].socket = s /\ object[r].backoff = 1
<1>1. sock[s] \in InUse
  BY SocketFacts DEF IInv
<1>2. /\ User(s) \in Remotes /\ object[User(s)] \in ObjectType
      /\ Uses(User(s)) = {s} /\ Waits(User(s)) = {}
      /\ Connected(s) => object[User(s)].socket = s /\ object[User(s)].backoff = 1
  BY SocketPlace
<1>3. Fits(HasEntry(table, User(s)), HasEntry(idle, User(s)), Waits(User(s)), Uses(User(s)),
           object[User(s)], timers[User(s)], asked[User(s)], told[User(s)])
  BY <1>2, Present
<1>4. sock[s].state = "connecting" => Queue(User(s)) # <<>>
  BY DEF IInv, Sound, SocketFits
<1>. QED  BY <1>1, <1>2, <1>3, <1>4

(* What the object of a connection keeps if its queue and its place stay.  *)
LEMMA FitsStill ==
  ASSUME NEW known \in BOOLEAN, NEW listed \in BOOLEAN, NEW s, NEW o, NEW p, NEW tm, NEW n,
         NEW heard, NEW more,
         Fits(known, listed, {}, {s}, o, tm, n, heard),
         p.queue = o.queue, p.queue = <<>> => p.socket = o.socket,
         p.backoff = o.backoff \/ p.backoff = 1,
         more \subseteq {o.queue[i] : i \in DOMAIN o.queue}
  PROVE  /\ Fits(known, listed, {}, {s}, p, tm, n, heard \cup more)
         /\ p.queue = <<>> => Fits(known, listed, {}, {}, p, tm, n, heard \cup more)
<1>1. 1..n = (heard \cup more) \cup {p.queue[i] : i \in DOMAIN p.queue}
  BY DEF Fits
<1>2. known /\ InPlace({}, {s}, o, tm)
  BY DEF Fits
<1>3. InPlace({}, {s}, p, tm) /\ (p.queue = <<>> => InPlace({}, {}, p, tm))
  BY <1>2 DEF InPlace
<1>. QED  BY <1>1, <1>2, <1>3 DEF Fits

LEMMA HeadOfQueue ==
  ASSUME NEW o \in ObjectType, o.queue # <<>>
  PROVE  Head(o.queue) \in {o.queue[i] : i \in DOMAIN o.queue}
BY ObjectFacts

(* A connection is lost, or refused in a way that looks like it.           *)
LEMMA LostStep ==
  ASSUME IInv, Running, NEW s \in Sockets, ~Free(s), NEW o \in ObjectType,
         Lost(s, User(s), o), o.queue = Queue(User(s)), o.socket = s, o.backoff = 1,
         UNCHANGED <<tables, timers, asked>>
  PROVE  Sound'
<1>1. PICK r \in Remotes :
        /\ User(s) = r
        /\ Fits(HasEntry(table, r), HasEntry(idle, r), {}, {s}, object[r], timers[r],
                asked[r], told[r])
        /\ object[r] \in ObjectType
  BY OfSocket
<1>. DEFINE k == SocketOnLoss(r, o)
            p == [o EXCEPT !.pipeline = "no"]
<1>2. /\ p \in ObjectType /\ p.queue = object[r].queue /\ p.socket = s /\ p.backoff = 1
      /\ p.queue = o.queue
  BY <1>1, ObjectUpdates DEF ObjectType, Queue
<1>3. sock' = [sock EXCEPT ![s] = k] /\ object' = [object EXCEPT ![r] = p]
  BY <1>1 DEF Lost
<1>4. IF p.queue = <<>> THEN k.state = "free"
      ELSE k.state = "connecting" /\ k.user = r
  BY <1>2, Constants DEF SocketOnLoss
<1>5. \E more \in SUBSET {object[r].queue[i] : i \in DOMAIN object[r].queue} :
        told' = [told EXCEPT ![r] = told[r] \cup more]
  <2>. DEFINE all == {object[r].queue[i] : i \in DOMAIN object[r].queue}
  <2>0. told \in [Remotes -> SUBSET Nat]
    BY DEF IInv, TypeOK
  <2>1. CASE told' = told
    <3>1. told' = [told EXCEPT ![r] = told[r] \cup {}] /\ {} \in SUBSET all
      BY <2>0, <2>1
    <3>. QED  BY <3>1
  <2>2. CASE told' # told
    <3>1. o.queue # <<>> /\ told' = ToldHead(r)
      BY <1>1, <2>2 DEF Lost, ToldOnLoss
    <3>2. {Head(object[r].queue)} \in SUBSET all
      BY <1>1, <1>2, <3>1, HeadOfQueue
    <3>3. told' = [told EXCEPT ![r] = told[r] \cup {Head(object[r].queue)}]
      BY <3>1 DEF ToldHead, Queue
    <3>. QED  BY <3>2, <3>3
  <2>. QED  BY <2>1, <2>2
<1>6. PICK more \in SUBSET {object[r].queue[i] : i \in DOMAIN object[r].queue} :
        told' = [told EXCEPT ![r] = told[r] \cup more]
  BY <1>5
<1>7. told'[r] = told[r] \cup more /\ \A x \in Remotes : x # r => told'[x] = told[x]
  BY <1>1, <1>6 DEF IInv, TypeOK
<1>. HIDE DEF k, p
<1>8. object[r].queue = <<>> => object[r].socket = s
  BY <1>1 DEF Fits, InPlace
<1>9. /\ Fits(HasEntry(table, r), HasEntry(idle, r), {}, {s}, p, timers[r], asked[r],
              told[r] \cup more)
      /\ p.queue = <<>> => Fits(HasEntry(table, r), HasEntry(idle, r), {}, {}, p, timers[r],
                                asked[r], told[r] \cup more)
  <2>1. HasEntry(table, r) \in BOOLEAN /\ HasEntry(idle, r) \in BOOLEAN
    BY DEF HasEntry
  <2>2. /\ p.queue = object[r].queue /\ (p.queue = <<>> => p.socket = object[r].socket)
        /\ p.backoff = object[r].backoff \/ p.backoff = 1
    BY <1>2, <1>8
  <2>3. more \subseteq {object[r].queue[i] : i \in DOMAIN object[r].queue}
    BY <1>6
  <2>4. Fits(HasEntry(table, r), HasEntry(idle, r), {}, {s}, object[r], timers[r],
             asked[r], told[r])
    BY <1>1
  <2>. QED  BY <2>1, <2>2, <2>3, <2>4, FitsStill, Zenon
<1>10. Fits(HasEntry(table, r), HasEntry(idle, r), {}, IF k.state = "free" THEN {} ELSE {s}, p,
            timers'[r], asked[r], told'[r])
  BY <1>4, <1>7, <1>9
<1>11. /\ k.state # "free" => k.user = r
       /\ k.state = "connecting" => p.queue # <<>>
       /\ k.state # "connected"
       /\ \A x \in Remotes : x # r => timers'[x] = timers[x] /\ told'[x] = told[x]
  BY <1>4, <1>7
<1>. QED  BY <1>1, <1>3, <1>10, <1>11, OwnSocketStep

LEMMA OpenedFacts ==
  ASSUME IInv, NEW s \in Sockets, ~Free(s)
  PROVE  /\ Opened(s) \in ObjectType /\ Opened(s).queue = Queue(User(s))
         /\ Opened(s).socket = s /\ Opened(s).backoff = 1
<1>1. object[User(s)] \in ObjectType
  BY SocketFacts DEF IInv
<1>. QED  BY <1>1, MoreUpdates DEF Opened, ObjectType, Queue

(* A step that leaves the queue of the object of s, its place and its      *)
(* timers as they are.                                                     *)
LEMMA QuietSocketStep ==
  ASSUME IInv, Running, NEW s \in Sockets, ~Free(s), NEW r \in Remotes, User(s) = r, NEW k, NEW p,
         sock' = [sock EXCEPT ![s] = k], object' = [object EXCEPT ![r] = p],
         UNCHANGED <<tables, timers, asked, told>>,
         k.state # "free", k.user = r, k.state = "connecting" => Queue(r) # <<>>,
         k.state = "connected" => p.socket = s /\ p.backoff = 1,
         p.queue = Queue(r), p.backoff = object[r].backoff \/ p.backoff = 1,
         p.queue = <<>> => p.socket = object[r].socket
  PROVE  Sound'
<1>1. Fits(HasEntry(table, r), HasEntry(idle, r), {}, {s}, object[r], timers[r],
           asked[r], told[r])
  BY OfSocket
<1>2. /\ HasEntry(table, r) \in BOOLEAN /\ HasEntry(idle, r) \in BOOLEAN
      /\ {} \subseteq {object[r].queue[i] : i \in DOMAIN object[r].queue}
      /\ p.queue = object[r].queue
  BY DEF HasEntry, Queue
<1>3. Fits(HasEntry(table, r), HasEntry(idle, r), {}, {s}, p, timers[r], asked[r],
           told[r] \cup {})
  BY <1>1, <1>2, FitsStill, Zenon
<1>4. Fits(HasEntry(table, r), HasEntry(idle, r), {}, IF k.state = "free" THEN {} ELSE {s}, p,
           timers'[r], asked[r], told'[r])
  <2>1. told'[r] = told[r] \cup {} /\ timers' = timers
    OBVIOUS
  <2>. QED  BY <1>3, <2>1
<1>5. k.state = "connecting" => p.queue # <<>>
  BY <1>2 DEF Queue
<1>. QED  BY <1>4, <1>5, OwnSocketStep

(* The answer to the head of the queue is complete.                        *)
LEMMA AnswerStep ==
  ASSUME IInv, NEW s \in Sockets, AnswerComplete(s)
  PROVE  Sound'
<1>0. Running /\ ~Free(s) /\ Connected(s) /\ Queue(User(s)) # <<>>
  BY SocketFacts DEF IInv, AnswerComplete, Speaks
<1>1. PICK r \in Remotes :
        /\ User(s) = r
        /\ Fits(HasEntry(table, r), HasEntry(idle, r), {}, {s}, object[r], timers[r],
                asked[r], told[r])
        /\ sock[s] \in InUse /\ object[r] \in ObjectType
        /\ object[r].socket = s /\ object[r].backoff = 1
  BY <1>0, OfSocket
<1>. DEFINE q == object[r].queue
<1>2. /\ q \in Seq(Nat) /\ q # <<>> /\ Head(q) \in Nat /\ Tail(q) \in Seq(Nat)
      /\ {q[i] : i \in DOMAIN q} = {Head(q)} \cup {Tail(q)[i] : i \in DOMAIN Tail(q)}
  BY <1>0, <1>1, ObjectFacts DEF Queue
<1>3. Len(q) > 1 <=> Tail(q) # <<>>
  <2>1. Len(q) \in Nat /\ Len(Tail(q)) = Len(q) - 1 /\ Len(q) > 0
    BY <1>2, HeadTailProperties, EmptySeq
  <2>2. Len(Tail(q)) = 0 <=> Tail(q) = <<>>
    BY <1>2, EmptySeq
  <2>. DEFINE m == Len(q)
              n == Len(Tail(q))
  <2>3. m \in Nat /\ m > 0 /\ n = m - 1 /\ (n = 0 <=> Tail(q) = <<>>)
    BY <2>1, <2>2
  <2>. HIDE DEF m, n
  <2>4. m > 1 <=> Tail(q) # <<>>
    BY <2>3
  <2>. QED  BY <2>4 DEF m
<1>4. \E n \in {sock[s].due, sock[s].due - 1} :
        sock' = [sock EXCEPT ![s] = [sock[s] EXCEPT !.due = n]]
  BY DEF AnswerComplete
<1>5. PICK k : /\ sock' = [sock EXCEPT ![s] = k]
               /\ k.state = "connected" /\ k.user = r
  BY <1>0, <1>1, <1>4 DEF InUse, Connected, User
<1>6. \E p \in {"yes", object[r].pipeline} :
         object' = [object EXCEPT ![r] = [Finished(r) EXCEPT !.pipeline = p]]
  BY <1>1 DEF AnswerComplete, Finished
<1>7. /\ Finished(r) \in ObjectType /\ Finished(r).queue = Tail(q)
      /\ Finished(r).socket = s /\ Finished(r).backoff = 1
  <2>1. Finished(r) \in ObjectType
    BY <1>1, <1>2, MoreUpdates DEF Finished
  <2>2. /\ Finished(r).queue = Tail(object[r].queue)
        /\ Finished(r).socket = object[r].socket /\ Finished(r).backoff = object[r].backoff
    BY <1>1 DEF Finished, ObjectType
  <2>. QED  BY <1>1, <2>1, <2>2
<1>8. PICK p : /\ object' = [object EXCEPT ![r] = p]
               /\ p.queue = Tail(q) /\ p.socket = s /\ p.backoff = 1
  <2>1. PICK v \in {"yes", object[r].pipeline} :
          object' = [object EXCEPT ![r] = [Finished(r) EXCEPT !.pipeline = v]]
    BY <1>6
  <2>. DEFINE p == [Finished(r) EXCEPT !.pipeline = v]
  <2>2. p.queue = Tail(q) /\ p.socket = s /\ p.backoff = 1
    BY <1>7 DEF ObjectType
  <2>. HIDE DEF p
  <2>3. object' = [object EXCEPT ![r] = p]
    BY <2>1 DEF p
  <2>. QED  BY <2>2, <2>3
<1>9. /\ \A x \in Remotes : x # r => timers'[x] = timers[x] /\ told'[x] = told[x]
      /\ told'[r] = told[r] \cup {Head(q)}
  BY <1>1 DEF AnswerComplete, ToldHead, Queue, IInv, TypeOK
<1>10. /\ timers[r].idle \in Nat
       /\ timers'[r].retry = timers[r].retry
       /\ timers'[r].idle = IF Tail(q) # <<>> THEN timers[r].idle ELSE timers[r].idle + 1
  <2>1. timers \in [Remotes -> TimersType] /\ timers[r].idle \in Nat
    BY <1>0, Present DEF IInv, TypeOK
  <2>2. timers' = IF Tail(q) # <<>> THEN timers
                  ELSE [timers EXCEPT ![r] = [timers[r] EXCEPT !.idle = @ + 1]]
    BY <1>1, <1>3 DEF AnswerComplete, Queue
  <2>3. timers[r] \in TimersType
    BY <2>1
  <2>4. CASE Tail(q) # <<>>
    BY <2>1, <2>2, <2>4
  <2>5. CASE Tail(q) = <<>>
    <3>1. timers'[r] = [timers[r] EXCEPT !.idle = @ + 1]
      BY <2>1, <2>2, <2>5
    <3>. QED  BY <2>1, <2>3, <2>5, <3>1 DEF TimersType
  <2>. QED  BY <2>4, <2>5
<1>11. 1..asked[r] = (told[r] \cup {Head(q)}) \cup {Tail(q)[i] : i \in DOMAIN Tail(q)}
  <2>1. 1..asked[r] = told[r] \cup {q[i] : i \in DOMAIN q}
    BY <1>1 DEF Fits
  <2>. QED  BY <1>2, <2>1
<1>12. /\ HasEntry(table, r) /\ timers[r].retry = 0
       /\ timers[r].idle + (IF HasEntry(idle, r) THEN 1 ELSE 0) = 0
  BY <1>1, <1>2 DEF Fits, InPlace
<1>13. Fits(HasEntry(table, r), HasEntry(idle, r), {}, {s}, p, timers'[r], asked[r], told'[r])
  <2>1. InPlace({}, {s}, p, timers'[r])
    BY <1>8, <1>10, <1>12 DEF InPlace
  <2>2. 1..asked[r] = told'[r] \cup {p.queue[i] : i \in DOMAIN p.queue}
    BY <1>8, <1>9, <1>11
  <2>3. timers'[r].idle + (IF HasEntry(idle, r) THEN 1 ELSE 0) =
          IF HasEntry(table, r) /\ p.queue = <<>> THEN 1 ELSE 0
    <3>1. timers[r].idle = 0 /\ ~HasEntry(idle, r)
      BY <1>10, <1>12
    <3>2. p.queue = Tail(q) /\ HasEntry(table, r)
      BY <1>8, <1>12
    <3>3. timers'[r].idle = IF p.queue # <<>> THEN 0 ELSE 1
      BY <1>10, <3>1, <3>2
    <3>. QED  BY <3>1, <3>2, <3>3
  <2>. QED  BY <1>8, <1>12, <2>1, <2>2, <2>3 DEF Fits
<1>14. Fits(HasEntry(table, r), HasEntry(idle, r), {}, IF k.state = "free" THEN {} ELSE {s}, p,
            timers'[r], asked[r], told'[r])
  BY <1>5, <1>13
<1>15. UNCHANGED <<tables, asked>>
  BY DEF AnswerComplete
<1>. QED  BY <1>0, <1>1, <1>5, <1>8, <1>9, <1>14, <1>15, OwnSocketStep

(* The connection is refused: the object waits for its retry timer.        *)
LEMMA RefusedStep ==
  ASSUME IInv, NEW s \in Sockets, RefusedException(s)
  PROVE  Sound'
<1>0. Running /\ ~Free(s) /\ sock[s].state = "connecting"
  BY SocketFacts DEF IInv, RefusedException
<1>1. PICK r \in Remotes :
        /\ User(s) = r
        /\ Fits(HasEntry(table, r), HasEntry(idle, r), {}, {s}, object[r], timers[r],
                asked[r], told[r])
        /\ object[r] \in ObjectType /\ object[r].queue # <<>>
  BY <1>0, OfSocket DEF Queue
<1>. DEFINE p == [object[r] EXCEPT !.socket = s, !.answered = FALSE, !.pipeline = "unknown"]
<1>2. p.queue = object[r].queue /\ p.backoff = object[r].backoff
  BY <1>1 DEF ObjectType
<1>3. sock' = [sock EXCEPT ![s] = Disconnected] /\ object' = [object EXCEPT ![r] = p]
  BY <1>1 DEF RefusedException
<1>. HIDE DEF p
<1>4. /\ timers[r] \in TimersType /\ timers[r].retry = 0
      /\ timers' = [timers EXCEPT ![r] = [timers[r] EXCEPT !.retry = @ + 1]]
  BY <1>1 DEF RefusedException, IInv, TypeOK, Fits, InPlace
<1>5. /\ timers'[r].retry = 1 /\ timers'[r].idle = timers[r].idle
      /\ \A x \in Remotes : x # r => timers'[x] = timers[x]
  <2>1. timers'[r] = [timers[r] EXCEPT !.retry = @ + 1]
        /\ \A x \in Remotes : x # r => timers'[x] = timers[x]
    BY <1>4 DEF IInv, TypeOK
  <2>. QED  BY <1>4, <2>1 DEF TimersType
<1>6. /\ \A x \in Remotes : x # r => told'[x] = told[x]
      /\ told'[r] = told[r] \/ told'[r] = told[r] \cup {Head(object[r].queue)}
  BY <1>1 DEF RefusedException, ToldHead, Queue, IInv, TypeOK
<1>7. Head(object[r].queue) \in {object[r].queue[i] : i \in DOMAIN object[r].queue}
  BY <1>1, HeadOfQueue
<1>8. 1..asked[r] = told'[r] \cup {object[r].queue[i] : i \in DOMAIN object[r].queue}
  <2>1. 1..asked[r] = told[r] \cup {object[r].queue[i] : i \in DOMAIN object[r].queue}
    BY <1>1 DEF Fits
  <2>. QED  BY <1>6, <1>7, <2>1
<1>9. Fits(HasEntry(table, r), HasEntry(idle, r), {}, {}, p, timers'[r], asked[r], told'[r])
  <2>1. InPlace({}, {}, p, timers'[r])
    BY <1>1, <1>2, <1>5 DEF InPlace
  <2>2. /\ HasEntry(table, r)
        /\ timers[r].idle + (IF HasEntry(idle, r) THEN 1 ELSE 0) = 0
    BY <1>1 DEF Fits
  <2>. QED  BY <1>1, <1>2, <1>5, <1>8, <2>1, <2>2 DEF Fits
<1>10. Fits(HasEntry(table, r), HasEntry(idle, r), {},
            IF Disconnected.state = "free" THEN {} ELSE {s}, p, timers'[r], asked[r], told'[r])
  BY <1>9, Constants
<1>11. UNCHANGED <<tables, asked>>
  BY DEF RefusedException
<1>. QED  BY <1>0, <1>1, <1>3, <1>5, <1>6, <1>10, <1>11, Constants, OwnSocketStep

LEMMA SocketStep ==
  ASSUME IInv, NEW s \in Sockets, OnSocket(s), ~Deadlock
  PROVE  Sound'
<1>0. Running
  BY DEF OnSocket, Connects, RefusedWritable, RefusedException, PieceArrives,
         AnswerComplete, NextRequestFails, DataDropped, PeerCloses, ResetArrives, Speaks
<1>a. ~Free(s)
  BY SocketFacts DEF IInv, OnSocket, Connects, RefusedWritable, RefusedException, PieceArrives,
         AnswerComplete, NextRequestFails, DataDropped, PeerCloses, ResetArrives, Speaks
<1>b. PICK r \in Remotes :
        /\ User(s) = r /\ sock[s] \in InUse /\ object[r] \in ObjectType
        /\ sock[s].state = "connecting" => Queue(r) # <<>>
        /\ Connected(s) => object[r].socket = s /\ object[r].backoff = 1
  BY <1>0, <1>a, OfSocket
<1>c. object' = object => object' = [object EXCEPT ![r] = object[r]]
  BY DEF IInv, TypeOK
<1>d. sock' = sock => sock' = [sock EXCEPT ![s] = sock[s]]
  BY DEF IInv, TypeOK
<1>1. CASE Connects(s)
  <2>1. PICK k : /\ sock' = [sock EXCEPT ![s] = k]
                 /\ k.state = "connected" /\ k.user = r
    <3>. DEFINE k == [sock[s] EXCEPT !.state = "connected", !.due = @ + 1]
    <3>1. k.state = "connected" /\ k.user = r
      BY <1>b DEF InUse, User
    <3>. HIDE DEF k
    <3>2. sock' = [sock EXCEPT ![s] = k]
      BY <1>1 DEF Connects, k
    <3>. QED  BY <3>1, <3>2
  <2>2. object' = [object EXCEPT ![r] = Opened(s)] /\ UNCHANGED <<tables, timers, asked, told>>
    BY <1>1, <1>b DEF Connects
  <2>3. /\ Opened(s).queue = Queue(r) /\ Opened(s).socket = s /\ Opened(s).backoff = 1
        /\ Opened(s).queue # <<>>
    BY <1>1, <1>a, <1>b, OpenedFacts DEF Connects
  <2>. QED  BY <1>0, <1>a, <1>b, <2>1, <2>2, <2>3, QuietSocketStep
<1>2. CASE RefusedWritable(s)
  BY <1>0, <1>2, <1>a, OpenedFacts, LostStep DEF RefusedWritable
<1>3. CASE RefusedException(s)
  BY <1>3, RefusedStep
<1>4. ASSUME NEW stage \in DOMAIN AfterPiece, PieceArrives(s, stage)
      PROVE  Sound'
  <2>1. /\ sock' = [sock EXCEPT ![s] = sock[s]] /\ Connected(s)
        /\ UNCHANGED <<tables, timers, asked, told>>
    BY <1>4, <1>d DEF PieceArrives, Speaks, ghosts
  <2>2. PICK p : /\ object' = [object EXCEPT ![r] = p]
                 /\ p.queue = Queue(r) /\ p.socket = object[r].socket
                 /\ p.backoff = object[r].backoff
    <3>. DEFINE p == [object[r] EXCEPT !.reading = stage]
    <3>1. p.queue = Queue(r) /\ p.socket = object[r].socket /\ p.backoff = object[r].backoff
      BY <1>b DEF ObjectType, Queue
    <3>. HIDE DEF p
    <3>2. object' = [object EXCEPT ![r] = p]
      BY <1>4, <1>b DEF PieceArrives, p
    <3>. QED  BY <3>1, <3>2
  <2>3. sock[s].state = "connected" /\ sock[s].user = r
    BY <1>b, <2>1 DEF Connected, User
  <2>. QED  BY <1>0, <1>a, <1>b, <2>1, <2>2, <2>3, QuietSocketStep
<1>5. CASE AnswerComplete(s)
  BY <1>5, AnswerStep
<1>6. CASE DataDropped(s) \/ ResetArrives(s)
  <2>1. /\ object' = [object EXCEPT ![r] = object[r]] /\ Connected(s)
        /\ UNCHANGED <<tables, timers, asked, told>>
    BY <1>6, <1>c DEF DataDropped, ResetArrives, Speaks, ghosts
  <2>2. PICK k : /\ sock' = [sock EXCEPT ![s] = k]
                 /\ k.state = "connected" /\ k.user = r
    BY <1>6, <1>b, <2>1 DEF DataDropped, ResetArrives, InUse, User, Connected
  <2>. QED  BY <1>0, <1>a, <1>b, <2>1, <2>2, QuietSocketStep DEF Queue
<1>7. CASE PeerCloses(s)
  <2>1. /\ Lost(s, User(s), object[User(s)]) /\ Connected(s)
        /\ UNCHANGED <<tables, timers, asked>>
    BY <1>7 DEF PeerCloses
  <2>. QED  BY <1>0, <1>a, <1>b, <2>1, LostStep DEF Queue
<1>. QED  BY <1>1, <1>2, <1>3, <1>4, <1>5, <1>6, <1>7 DEF OnSocket, NextRequestFails

-----------------------------------------------------------------------------
(* Requests.                                                               *)

(* A request is added at the end of the queue q.                           *)
LEMMA QueueGrows ==
  ASSUME NEW q \in Seq(Nat), NEW n \in Nat, NEW heard,
         1..n = heard \cup {q[i] : i \in DOMAIN q}
  PROVE  /\ 1..(n + 1) = heard \cup {Append(q, n + 1)[i] : i \in DOMAIN Append(q, n + 1)}
         /\ Append(q, n + 1) # <<>>
<1>. DEFINE t == Append(q, n + 1)
            before == {q[i] : i \in DOMAIN q}
            after == {t[i] : i \in DOMAIN t}
<1>1. /\ Len(q) \in Nat /\ DOMAIN q = 1..Len(q) /\ DOMAIN t = 1..(Len(q) + 1)
      /\ \A i \in 1..Len(q) : t[i] = q[i]
      /\ t[Len(q) + 1] = n + 1 /\ t # <<>>
  BY AppendProperties
<1>. HIDE DEF t
<1>2. /\ \A i \in DOMAIN t : i \in DOMAIN q \/ i = Len(q) + 1
      /\ \A i \in DOMAIN q : i \in DOMAIN t /\ t[i] = q[i]
      /\ Len(q) + 1 \in DOMAIN t
  BY <1>1
<1>3. after = before \cup {n + 1}
  <2>1. \A x \in after : x \in before \cup {n + 1}
    BY <1>1, <1>2
  <2>2. \A x \in before : x \in after
    BY <1>2
  <2>3. n + 1 \in after
    BY <1>1, <1>2
  <2>. HIDE DEF after, before
  <2>. QED  BY <2>1, <2>2, <2>3
<1>4. 1..(n + 1) = 1..n \cup {n + 1}
  OBVIOUS
<1>. HIDE DEF after, before
<1>5. 1..(n + 1) = heard \cup after
  <2>1. 1..n = heard \cup before
    BY DEF before
  <2>. QED  BY <1>3, <1>4, <2>1
<1>. QED  BY <1>1, <1>5 DEF after, t

LEMMA OneMore == ASSUME NEW n \in Nat PROVE 1..(n + 1) = 1..n \cup {n + 1}
OBVIOUS

LEMMA SingleQueue ==
  ASSUME NEW n
  PROVE  {<<n>>[i] : i \in DOMAIN <<n>>} = {n} /\ <<n>> # <<>>
OBVIOUS

LEMMA NoQueue == {<<>>[i] : i \in DOMAIN <<>>} = {}
OBVIOUS

(* The sockets of others fit if the object of r changes, unless r is on a  *)
(* socket.                                                                 *)
LEMMA OtherSockets ==
  ASSUME IInv, Running, NEW r \in Remotes, NEW o, object' = [object EXCEPT ![r] = o],
         NEW t \in Sockets, sock'[t].state = sock[t].state, sock'[t].user = sock[t].user,
         ~Free(t) /\ User(t) = r => SocketFits(t)'
  PROVE  SocketFits(t)'
<1>1. SocketFits(t) /\ TypeOK
  BY DEF IInv, Sound
<1>2. CASE Free(t)
  BY <1>2 DEF SocketFits, Free
<1>3. CASE ~Free(t) /\ User(t) # r
  <2>1. User(t) \in Remotes
    BY <1>1, <1>3, SocketFacts
  <2>2. object'[User(t)] = object[User(t)]
    BY <1>1, <1>3, <2>1 DEF TypeOK
  <2>. QED  BY <1>1, <2>2 DEF SocketFits, Queue, User
<1>. QED  BY <1>2, <1>3

LEMMA RequestStep ==
  ASSUME IInv, NEW r \in Remotes, PipelineRequestEx(r)
  PROVE  Sound'
<1>0. /\ TypeOK /\ Running /\ OneEntryEach(table) /\ OneEntryEach(idle)
      /\ table \in Seq(Nodes) /\ idle \in Seq(Nodes)
      /\ object \in [Remotes -> ObjectType]
  BY DEF IInv, TypeOK, PipelineRequestEx
<1>1. /\ Fits(HasEntry(table, r), HasEntry(idle, r), Waits(r), Uses(r), object[r], timers[r],
              asked[r], told[r])
      /\ object[r] \in ObjectType /\ timers[r].idle \in Nat /\ timers[r].retry \in Nat
      /\ asked[r] \in Nat /\ told[r] \in SUBSET Nat
      /\ object[r].queue \in Seq(Nat)
  BY <1>0, Present, ObjectFacts
<1>2. /\ NewRequest(r) = asked[r] + 1 /\ told' = told
      /\ asked'[r] = asked[r] + 1 /\ \A x \in Remotes : x # r => asked'[x] = asked[x]
  BY <1>0 DEF PipelineRequestEx, NewRequest, TypeOK
<1>. DEFINE n == asked[r] + 1
<1>3. 1..asked[r] = told[r] \cup {object[r].queue[i] : i \in DOMAIN object[r].queue}
  BY <1>1 DEF Fits
<1>4. object[r].queue = <<>> => 1..n = told[r] \cup {<<n>>[i] : i \in DOMAIN <<n>>}
  <2>. SUFFICES ASSUME object[r].queue = <<>>
                PROVE  1..n = told[r] \cup {n}
    BY SingleQueue
  <2>1. 1..asked[r] = told[r]
    BY <1>3, NoQueue
  <2>. QED  BY <1>1, <2>1, OneMore
<1>5. CASE RequestFirst(r)
  <2>1. /\ ~HasEntry(table, r) /\ table' = AddEntry(table, r, r)
        /\ object' = [object EXCEPT ![r] = [NoObject EXCEPT !.queue = <<NewRequest(r)>>]]
        /\ backlog' = Append(backlog, r)
        /\ idle' = idle /\ sock' = sock /\ timers' = timers
    BY <1>5 DEF RequestFirst
  <2>2. object'[r].queue = <<n>> /\ \A x \in Remotes : x # r => object'[x] = object[x]
    BY <1>0, <1>2, <2>1 DEF NoObject
  <2>3. /\ object[r].queue = <<>> /\ Waits(r) = {} /\ Uses(r) = {} /\ timers[r].retry = 0
        /\ timers[r].idle + (IF HasEntry(idle, r) THEN 1 ELSE 0) = 0
    BY <1>1, <2>1 DEF Fits
  <2>4. \A x : HasEntry(table, x)' <=> HasEntry(table, x) \/ x = r
    BY <1>0, <2>1, AddFacts
  <2>5. Waits(r)' = {Len(backlog) + 1} /\ \A x : x # r => Waits(x)' = Waits(x)
    BY <1>0, <2>1, <2>3, AppendWaits
  <2>6. \A x : Uses(x)' = Uses(x)
    BY <2>1, SamePlaces
  <2>7. RemoteFits(r)'
    <3>1. <<n>> # <<>>
      BY SingleQueue
    <3>2. InPlace(Waits(r)', Uses(r)', object'[r], timers'[r])
      BY <2>1, <2>2, <2>3, <2>5, <2>6, <3>1 DEF InPlace
    <3>3. 1..n = told[r] \cup {object'[r].queue[i] : i \in DOMAIN object'[r].queue}
      BY <1>4, <2>2, <2>3
    <3>4. HasEntry(table, r)'
      BY <2>4
    <3>. QED  BY <1>2, <2>1, <2>2, <2>3, <3>1, <3>2, <3>3, <3>4 DEF RemoteFits, Fits
  <2>8. ASSUME NEW x \in Remotes, x # r
        PROVE  RemoteFits(x)'
    BY <1>0, <1>2, <2>1, <2>2, <2>4, <2>5, <2>6, <2>8, Undisturbed
  <2>9. \A t \in Sockets : ~Free(t) => User(t) # r
    BY <2>3 DEF Uses
  <2>10. \A t \in Sockets : SocketFits(t)'
    BY <1>0, <2>1, <2>9, OtherSockets
  <2>. QED  BY <2>7, <2>8, <2>10 DEF Sound
<1>6. CASE RequestQueued(r)
  <2>. DEFINE o == [object[r] EXCEPT !.queue = Append(object[r].queue, n)]
  <2>1. /\ HasEntry(table, r) /\ object[r].queue # <<>>
        /\ object' = [object EXCEPT ![r] = o]
        /\ table' = table /\ idle' = idle /\ backlog' = backlog /\ sock' = sock /\ timers' = timers
    BY <1>2, <1>6 DEF RequestQueued, tables, Queue
  <2>2. /\ o.queue = Append(object[r].queue, n) /\ o.socket = object[r].socket
        /\ o.backoff = object[r].backoff
    BY <1>1 DEF ObjectType
  <2>. HIDE DEF o
  <2>3. object'[r] = o /\ \A x \in Remotes : x # r => object'[x] = object[x]
    BY <1>0, <2>1
  <2>4. 1..n = told[r] \cup {o.queue[i] : i \in DOMAIN o.queue} /\ o.queue # <<>>
    <3>. DEFINE q == object[r].queue
    <3>1. q \in Seq(Nat) /\ 1..asked[r] = told[r] \cup {q[i] : i \in DOMAIN q}
      BY <1>1, <1>3
    <3>. HIDE DEF q
    <3>2. /\ 1..(asked[r] + 1) = told[r] \cup {Append(q, asked[r] + 1)[i] :
                                                i \in DOMAIN Append(q, asked[r] + 1)}
          /\ Append(q, asked[r] + 1) # <<>>
      BY <1>1, <3>1, QueueGrows, Zenon
    <3>3. o.queue = Append(q, asked[r] + 1)
      BY <2>2 DEF q
    <3>. QED  BY <3>2, <3>3
  <2>5. /\ \A x : Waits(x)' = Waits(x) /\ Uses(x)' = Uses(x)
        /\ \A x : HasEntry(table, x)' = HasEntry(table, x) /\ HasEntry(idle, x)' = HasEntry(idle, x)
    BY <2>1, SamePlaces
  <2>6. Fits(HasEntry(table, r), HasEntry(idle, r), Waits(r), Uses(r), o, timers[r], n, told[r])
    <3>1. InPlace(Waits(r), Uses(r), o, timers[r])
      BY <1>1, <2>1, <2>2, <2>4 DEF Fits, InPlace
    <3>. QED  BY <1>1, <2>1, <2>4, <3>1 DEF Fits
  <2>7. RemoteFits(r)'
    BY <1>2, <2>1, <2>3, <2>5, <2>6 DEF RemoteFits
  <2>8. ASSUME NEW x \in Remotes, x # r
        PROVE  RemoteFits(x)'
    BY <1>0, <1>2, <2>1, <2>3, <2>5, <2>8, Undisturbed
  <2>9. ASSUME NEW t \in Sockets
        PROVE  SocketFits(t)'
    <3>1. SocketFits(t)
      BY <1>0 DEF IInv, Sound
    <3>2. ~Free(t) /\ User(t) = r => SocketFits(t)'
      BY <2>1, <2>2, <2>3, <2>4, <3>1 DEF SocketFits, Queue, User
    <3>. QED  BY <1>0, <2>1, <3>2, OtherSockets
  <2>. QED  BY <2>7, <2>8, <2>9 DEF Sound
<1>7. CASE RequestToIdle(r)
  <2>. DEFINE o == [object[r] EXCEPT !.queue = <<n>>]
              m == IF timers[r].idle = 0 THEN 0 ELSE timers[r].idle - 1
  <2>1. PICK s \in Sockets \cup {NoSocket} :
          /\ s = object[r].socket
          /\ backlog' = IF s = NoSocket THEN Append(backlog, r) ELSE backlog
          /\ sock' = IF s = NoSocket \/ Free(s) THEN sock ELSE [sock EXCEPT ![s].due = @ + 1]
    <3>1. object[r].socket \in Sockets \cup {NoSocket}
      BY <1>1 DEF ObjectType
    <3>. QED  BY <1>7, <3>1 DEF RequestToIdle
  <2>2. /\ HasEntry(table, r) /\ object[r].queue = <<>>
        /\ object' = [object EXCEPT ![r] = o]
        /\ table' = table /\ idle' = DeleteEntry(idle, r)
        /\ timers' = [timers EXCEPT ![r] = [timers[r] EXCEPT !.idle = m]]
    BY <1>2, <1>7 DEF RequestToIdle, OutOfIdle, Queue
  <2>3. o.queue = <<n>> /\ o.socket = s /\ o.backoff = object[r].backoff /\ <<n>> # <<>>
    BY <1>1, <2>1, SingleQueue DEF ObjectType
  <2>. HIDE DEF o, m
  <2>4. object'[r] = o /\ \A x \in Remotes : x # r => object'[x] = object[x]
    BY <1>0, <2>2
  <2>5. /\ timers'[r].idle = m /\ timers'[r].retry = timers[r].retry
        /\ \A x \in Remotes : x # r => timers'[x] = timers[x]
    <3>1. timers \in [Remotes -> TimersType] /\ timers[r] \in TimersType
      BY <1>0 DEF TypeOK
    <3>2. /\ timers'[r] = [timers[r] EXCEPT !.idle = m]
          /\ \A x \in Remotes : x # r => timers'[x] = timers[x]
      BY <2>2, <3>1
    <3>. QED  BY <3>1, <3>2 DEF TimersType
  <2>6. \A x : HasEntry(idle, x)' <=> HasEntry(idle, x) /\ x # r
    BY <1>0, <2>2, DeleteFacts
  <2>7. /\ Waits(r) = {} /\ timers[r].retry = 0 /\ Uses(r) \subseteq {s}
        /\ object[r].backoff = 1
        /\ timers[r].idle + (IF HasEntry(idle, r) THEN 1 ELSE 0) = 1
    BY <1>1, <2>1, <2>2 DEF Fits, InPlace
  <2>8. m = 0
    BY <1>1, <2>7 DEF m
  <2>9. /\ \A t \in Sockets : sock'[t].state = sock[t].state /\ sock'[t].user = sock[t].user
        /\ \A x : Uses(x)' = Uses(x)
    <3>0. sock \in [Sockets -> SockType]
      BY <1>0 DEF TypeOK
    <3>1. CASE s = NoSocket \/ Free(s)
      BY <2>1, <3>1, SamePlaces
    <3>2. CASE s \in Sockets /\ ~Free(s)
      <4>1. sock[s] \in InUse
        BY <1>0, <3>2, SocketFacts
      <4>2. /\ sock'[s] = [sock[s] EXCEPT !.due = @ + 1]
            /\ \A t \in Sockets : t # s => sock'[t] = sock[t]
        BY <2>1, <3>0, <3>2, Constants
      <4>3. sock'[s].state = sock[s].state /\ sock'[s].user = sock[s].user
        BY <4>1, <4>2 DEF InUse
      <4>4. \A t \in Sockets : sock'[t].state = sock[t].state /\ sock'[t].user = sock[t].user
        BY <4>2, <4>3
      <4>. QED  BY <4>4 DEF Uses, Free, User
    <3>. QED  BY <3>1, <3>2
  <2>10. /\ IF s = NoSocket THEN Waits(r)' = {Len(backlog) + 1} ELSE Waits(r)' = {}
         /\ \A x : x # r => Waits(x)' = Waits(x)
    <3>1. CASE s = NoSocket
      <4>1. backlog' = Append(backlog, r)
        BY <2>1, <3>1
      <4>. QED  BY <1>0, <2>7, <3>1, <4>1, AppendWaits
    <3>2. CASE s # NoSocket
      BY <2>1, <2>7, <3>2, SamePlaces
    <3>. QED  BY <3>1, <3>2
  <2>11. RemoteFits(r)'
    <3>1. InPlace(Waits(r)', Uses(r)', object'[r], timers'[r])
      <4>1. CASE s = NoSocket
        <5>1. Uses(r) = {}
          BY <2>7, <4>1, Constants DEF Uses
        <5>. QED  BY <2>3, <2>4, <2>5, <2>7, <2>9, <2>10, <4>1, <5>1 DEF InPlace
      <4>2. CASE s # NoSocket
        BY <2>3, <2>4, <2>5, <2>7, <2>9, <2>10, <4>2 DEF InPlace
      <4>. QED  BY <4>1, <4>2
    <3>2. 1..n = told[r] \cup {object'[r].queue[i] : i \in DOMAIN object'[r].queue}
      BY <1>4, <2>2, <2>3, <2>4
    <3>3. HasEntry(table, r)' /\ ~HasEntry(idle, r)'
      BY <2>2, <2>6
    <3>4. timers'[r].idle + (IF HasEntry(idle, r)' THEN 1 ELSE 0) = 0
      BY <2>5, <2>8, <3>3
    <3>. QED  BY <1>2, <2>2, <2>3, <2>4, <3>1, <3>2, <3>3, <3>4 DEF RemoteFits, Fits
  <2>12. ASSUME NEW x \in Remotes, x # r
         PROVE  RemoteFits(x)'
    BY <1>0, <1>2, <2>2, <2>4, <2>5, <2>6, <2>9, <2>10, <2>12, Undisturbed
  <2>13. ASSUME NEW t \in Sockets
         PROVE  SocketFits(t)'
    <3>1. SocketFits(t)
      BY <1>0 DEF IInv, Sound
    <3>2. ~Free(t) /\ User(t) = r => SocketFits(t)'
      BY <2>1, <2>3, <2>4, <2>9, <3>1 DEF SocketFits, Queue, User
    <3>. QED  BY <1>0, <2>2, <2>9, <3>2, OtherSockets
  <2>. QED  BY <2>11, <2>12, <2>13 DEF Sound
<1>. QED  BY <1>5, <1>6, <1>7 DEF PipelineRequestEx

-----------------------------------------------------------------------------
(* Timers.                                                                 *)

LEMMA RetryStep ==
  ASSUME IInv, NEW r \in Remotes, RetrySink(r), ~Deadlock
  PROVE  /\ Sound' /\ idleCount' = idleCount /\ Len(idle') = Len(idle)
         /\ OneEntryEach(table)' /\ OneEntryEach(idle)'
<1>0. /\ TypeOK /\ Running /\ OneEntryEach(table) /\ OneEntryEach(idle)
      /\ table \in Seq(Nodes) /\ idle \in Seq(Nodes)
      /\ object \in [Remotes -> ObjectType]
      /\ timers \in [Remotes -> TimersType] /\ told \in [Remotes -> SUBSET Nat]
  BY DEF IInv, TypeOK, RetrySink
<1>1. /\ Fits(HasEntry(table, r), HasEntry(idle, r), Waits(r), Uses(r), object[r], timers[r],
              asked[r], told[r])
      /\ object[r] \in ObjectType /\ timers[r].idle \in Nat /\ timers[r].retry \in Nat
  BY <1>0, Present
<1>2. timers[r].retry > 0 /\ timers' = [timers EXCEPT ![r] = [timers[r] EXCEPT !.retry = @ - 1]]
  BY DEF RetrySink
<1>3. /\ object[r].queue # <<>> /\ timers[r].retry = 1 /\ Waits(r) = {} /\ Uses(r) = {}
      /\ HasEntry(table, r)
      /\ timers[r].idle + (IF HasEntry(idle, r) THEN 1 ELSE 0) = 0
  BY <1>1, <1>2 DEF Fits, InPlace
<1>4. timers[r].idle = 0 /\ ~HasEntry(idle, r)
  BY <1>1, <1>3
<1>5. /\ timers'[r].retry = 0 /\ timers'[r].idle = 0
      /\ \A x \in Remotes : x # r => timers'[x] = timers[x]
  <2>1. /\ timers'[r] = [timers[r] EXCEPT !.retry = @ - 1] /\ timers[r] \in TimersType
        /\ \A x \in Remotes : x # r => timers'[x] = timers[x]
    BY <1>0, <1>2
  <2>2. timers'[r].idle = timers[r].idle /\ timers'[r].retry = timers[r].retry - 1
    BY <2>1 DEF TimersType
  <2>. QED  BY <1>3, <1>4, <2>1, <2>2
<1>6. \A t \in Sockets : ~Free(t) => User(t) # r
  BY <1>3 DEF Uses
<1>7. CASE ~GivesUp(r)
  <2>. DEFINE o == [object[r] EXCEPT !.backoff = Backoff(r)]
  <2>1. /\ object' = [object EXCEPT ![r] = o] /\ backlog' = Append(backlog, r)
        /\ table' = table /\ idle' = idle /\ idleCount' = idleCount /\ sock' = sock
        /\ asked' = asked /\ told' = told
    BY <1>7 DEF RetrySink, ghosts
  <2>2. o.queue = object[r].queue
    BY <1>1 DEF ObjectType
  <2>. HIDE DEF o
  <2>3. object'[r] = o /\ \A x \in Remotes : x # r => object'[x] = object[x]
    BY <1>0, <2>1
  <2>4. Waits(r)' = {Len(backlog) + 1} /\ \A x : x # r => Waits(x)' = Waits(x)
    BY <1>0, <1>3, <2>1, AppendWaits
  <2>5. \A x : Uses(x)' = Uses(x)
    BY <2>1, SamePlaces
  <2>6. RemoteFits(r)'
    <3>1. InPlace(Waits(r)', Uses(r)', object'[r], timers'[r])
      BY <1>3, <1>5, <2>2, <2>3, <2>4, <2>5 DEF InPlace
    <3>2. 1..asked[r] = told[r] \cup {o.queue[i] : i \in DOMAIN o.queue}
      BY <1>1, <2>2 DEF Fits
    <3>3. Fits(HasEntry(table, r), HasEntry(idle, r), Waits(r)', Uses(r)', o, timers'[r],
               asked[r], told[r])
      BY <1>3, <1>4, <1>5, <2>2, <2>3, <3>1, <3>2 DEF Fits
    <3>. QED  BY <2>1, <2>3, <3>3 DEF RemoteFits
  <2>7. ASSUME NEW x \in Remotes, x # r
        PROVE  RemoteFits(x)'
    BY <1>0, <1>5, <2>1, <2>3, <2>4, <2>5, <2>7, Undisturbed
  <2>8. \A t \in Sockets : SocketFits(t)'
    BY <1>0, <1>6, <2>1, OtherSockets
  <2>. QED  BY <1>0, <2>1, <2>6, <2>7, <2>8 DEF Sound
<1>8. CASE GivesUp(r)
  <2>1. /\ table' = DeleteEntry(table, r) /\ idle' = DeleteEntry(idle, r)
        /\ object' = [object EXCEPT ![r] = NoObject]
        /\ told' = [told EXCEPT ![r] = told[r] \cup Abandoned(r)]
        /\ idleCount' = idleCount /\ backlog' = backlog /\ sock' = sock /\ asked' = asked
    BY <1>8 DEF RetrySink
  <2>2. object'[r] = NoObject /\ \A x \in Remotes : x # r => object'[x] = object[x]
    BY <1>0, <2>1
  <2>3. /\ told'[r] = told[r] \cup Abandoned(r)
        /\ \A x \in Remotes : x # r => told'[x] = told[x]
    BY <1>0, <2>1
  <2>4. /\ \A x : HasEntry(table, x)' <=> HasEntry(table, x) /\ x # r
        /\ OneEntryEach(table)'
    BY <1>0, <2>1, DeleteFacts
  <2>5. /\ \A x : HasEntry(idle, x)' <=> HasEntry(idle, x) /\ x # r
        /\ OneEntryEach(idle)' /\ Len(idle') = Len(idle)
    BY <1>0, <1>4, <2>1, DeleteFacts
  <2>6. \A x : Uses(x)' = Uses(x) /\ Waits(x)' = Waits(x)
    BY <2>1, SamePlaces
  <2>7. RemoteFits(r)'
    <3>1. 1..asked[r] = told'[r]
      <4>1. 1..asked[r] = told[r] \cup {object[r].queue[i] : i \in DOMAIN object[r].queue}
        BY <1>1 DEF Fits
      <4>. QED  BY <2>3, <4>1 DEF Abandoned, Queue
    <3>2. 1..asked[r] = told'[r] \cup {object'[r].queue[i] : i \in DOMAIN object'[r].queue}
      <4>1. object'[r].queue = <<>>
        BY <2>2, Constants
      <4>. QED  BY <3>1, <4>1, NoQueue
    <3>3. ~HasEntry(table, r)' /\ ~HasEntry(idle, r)'
      BY <2>4, <2>5
    <3>4. InPlace(Waits(r)', Uses(r)', object'[r], timers'[r])
      BY <1>3, <1>5, <2>2, <2>6, Constants DEF InPlace
    <3>. QED  BY <1>3, <1>5, <2>1, <2>2, <2>6, <3>2, <3>3, <3>4, Constants DEF RemoteFits, Fits
  <2>8. ASSUME NEW x \in Remotes, x # r
        PROVE  RemoteFits(x)'
    BY <1>0, <1>5, <2>1, <2>2, <2>3, <2>4, <2>5, <2>6, <2>8, Undisturbed
  <2>9. \A t \in Sockets : SocketFits(t)'
    BY <1>0, <1>6, <2>1, OtherSockets
  <2>. QED  BY <2>1, <2>4, <2>5, <2>7, <2>8, <2>9 DEF Sound
<1>. QED  BY <1>7, <1>8

LEMMA IdleStep ==
  ASSUME IInv, NEW r \in Remotes, TimerSink(r)
  PROVE  /\ Sound' /\ idleCount' = idleCount + 1 /\ Len(idle') = Len(idle) + 1
         /\ OneEntryEach(idle)'
<1>0. /\ TypeOK /\ Running /\ OneEntryEach(idle) /\ idle \in Seq(Nodes)
      /\ object \in [Remotes -> ObjectType] /\ sock \in [Sockets -> SockType]
      /\ timers \in [Remotes -> TimersType] /\ told \in [Remotes -> SUBSET Nat]
  BY DEF IInv, TypeOK, TimerSink
<1>1. /\ Fits(HasEntry(table, r), HasEntry(idle, r), Waits(r), Uses(r), object[r], timers[r],
              asked[r], told[r])
      /\ object[r] \in ObjectType /\ timers[r].idle \in Nat /\ timers[r].retry \in Nat
  BY <1>0, Present
<1>2. /\ timers[r].idle > 0 /\ object[r].queue = <<>>
      /\ timers' = [timers EXCEPT ![r] = [timers[r] EXCEPT !.idle = @ - 1]]
      /\ idle' = AddEntry(idle, r, r) /\ idleCount' = idleCount + 1
      /\ table' = table /\ backlog' = backlog /\ asked' = asked
  BY DEF TimerSink, IntoIdle, Queue
<1>3. timers[r].idle + (IF HasEntry(idle, r) THEN 1 ELSE 0)
        = IF HasEntry(table, r) THEN 1 ELSE 0
  BY <1>1, <1>2 DEF Fits
<1>4. timers[r].idle = 1 /\ ~HasEntry(idle, r) /\ HasEntry(table, r)
  BY <1>1, <1>2, <1>3
<1>5. /\ timers'[r].idle = 0 /\ timers'[r].retry = timers[r].retry
      /\ \A x \in Remotes : x # r => timers'[x] = timers[x]
  <2>1. /\ timers'[r] = [timers[r] EXCEPT !.idle = @ - 1] /\ timers[r] \in TimersType
        /\ \A x \in Remotes : x # r => timers'[x] = timers[x]
    BY <1>0, <1>2
  <2>2. timers'[r].idle = timers[r].idle - 1 /\ timers'[r].retry = timers[r].retry
    BY <2>1 DEF TimersType
  <2>. QED  BY <1>4, <2>1, <2>2
<1>6. /\ Len(idle') = Len(idle) + 1 /\ OneEntryEach(idle)'
      /\ \A x : HasEntry(idle, x)' <=> HasEntry(idle, x) \/ x = r
  BY <1>0, <1>2, <1>4, AddFacts
<1>7. \A x : Waits(x)' = Waits(x) /\ HasEntry(table, x)' = HasEntry(table, x)
  BY <1>2, SamePlaces
<1>8. /\ Waits(r) = {} /\ timers[r].retry = 0 /\ Uses(r) \subseteq {object[r].socket}
      /\ object[r].backoff = 1
  BY <1>1, <1>2, <1>4 DEF Fits, InPlace
<1>9. 1..asked[r] = told[r] \cup {object[r].queue[i] : i \in DOMAIN object[r].queue}
  BY <1>1 DEF Fits
<1>. DEFINE o == [object[r] EXCEPT !.socket = NoSocket]
<1>10. o.queue = <<>> /\ o.backoff = 1 /\ o.queue = object[r].queue
  BY <1>1, <1>2, <1>8 DEF ObjectType
<1>. HIDE DEF o
<1>11. ASSUME object'[r] = o, told'[r] = told[r], Uses(r)' = {}
       PROVE  RemoteFits(r)'
  <2>1. InPlace(Waits(r)', Uses(r)', object'[r], timers'[r])
    BY <1>5, <1>7, <1>8, <1>10, <1>11 DEF InPlace
  <2>2. 1..asked'[r] = told'[r] \cup {object'[r].queue[i] : i \in DOMAIN object'[r].queue}
    BY <1>2, <1>9, <1>10, <1>11
  <2>3. HasEntry(idle, r)' /\ HasEntry(table, r)'
    BY <1>4, <1>6, <1>7
  <2>. QED  BY <1>5, <1>10, <1>11, <2>1, <2>2, <2>3 DEF RemoteFits, Fits
<1>12. CASE Stale(r)
  <2>1. PICK s \in Sockets : s = object[r].socket /\ ~Free(s) /\ User(s) # r
    <3>1. object[r].socket \in Sockets \cup {NoSocket}
      BY <1>1 DEF ObjectType
    <3>. QED  BY <1>12, <3>1 DEF Stale
  <2>2. PICK v \in Remotes :
          /\ User(s) = v
          /\ Fits(HasEntry(table, v), HasEntry(idle, v), {}, {s}, object[v], timers[v],
                  asked[v], told[v])
          /\ object[v] \in ObjectType
    BY <1>0, <2>1, OfSocket
  <2>. DEFINE p == [object[v] EXCEPT !.pipeline = "no"]
              k == SocketOnLoss(v, object[v])
  <2>3. p.queue = object[v].queue /\ p.socket = object[v].socket /\ p.backoff = object[v].backoff
    BY <2>2 DEF ObjectType
  <2>4. IF p.queue = <<>> THEN k.state = "free" ELSE k.state = "connecting" /\ k.user = v
    BY <2>2, <2>3, Constants DEF SocketOnLoss
  <2>5. /\ sock' = [sock EXCEPT ![s] = k]
        /\ object' = [object EXCEPT ![r] = o, ![v] = p]
        /\ told' = ToldOnLoss(v, object[v])
    <3>1. /\ sock' = [sock EXCEPT ![s] = SocketOnLoss(v, object[v])]
          /\ object' = [object EXCEPT ![r].socket = NoSocket, ![v].pipeline = "no"]
          /\ told' = ToldOnLoss(v, object[v])
      BY <1>12, <2>1, <2>2 DEF TimerSink
    <3>2. object' = [object EXCEPT ![r] = o, ![v] = p]
      BY <1>0, <2>1, <2>2, <3>1 DEF o
    <3>. QED  BY <3>1, <3>2
  <2>. HIDE DEF p, k
  <2>6. /\ object'[r] = o /\ object'[v] = p
        /\ \A x \in Remotes : x # r /\ x # v => object'[x] = object[x]
    BY <1>0, <2>1, <2>2, <2>5
  <2>7. PICK more \in SUBSET {object[v].queue[i] : i \in DOMAIN object[v].queue} :
          told' = [told EXCEPT ![v] = told[v] \cup more]
    <3>. DEFINE all == {object[v].queue[i] : i \in DOMAIN object[v].queue}
    <3>1. CASE told' = told
      <4>1. told' = [told EXCEPT ![v] = told[v] \cup {}] /\ {} \in SUBSET all
        BY <1>0, <3>1
      <4>. QED  BY <4>1
    <3>2. CASE told' # told
      <4>1. object[v].queue # <<>> /\ told' = ToldHead(v)
        BY <2>5, <3>2 DEF ToldOnLoss
      <4>2. {Head(object[v].queue)} \in SUBSET all
        BY <2>2, <4>1, HeadOfQueue
      <4>3. told' = [told EXCEPT ![v] = told[v] \cup {Head(object[v].queue)}]
        BY <4>1 DEF ToldHead, Queue
      <4>. QED  BY <4>2, <4>3
    <3>. QED  BY <3>1, <3>2
  <2>8. told'[v] = told[v] \cup more /\ \A x \in Remotes : x # v => told'[x] = told[x]
    BY <1>0, <2>2, <2>7
  <2>9. \A x, t : t \in Uses(x)' <=>
           (t \in Uses(x) /\ t # s) \/ (t = s /\ k.state # "free" /\ k.user = x)
    BY <1>0, <2>5, SocketChanges
  <2>10. Uses(r) = {} /\ Uses(v) = {s} /\ Waits(v) = {}
    BY <1>0, <1>8, <2>1, <2>2, SocketPlace DEF Uses
  <2>11. Uses(r)' = {} /\ Uses(v)' = IF p.queue = <<>> THEN {} ELSE {s}
    BY <2>1, <2>2, <2>4, <2>9, <2>10
  <2>12. RemoteFits(r)'
    BY <1>11, <2>1, <2>2, <2>6, <2>8, <2>11
  <2>13. RemoteFits(v)'
    <3>1. HasEntry(table, v) \in BOOLEAN /\ HasEntry(idle, v) \in BOOLEAN
      BY DEF HasEntry
    <3>2. /\ p.queue = object[v].queue /\ (p.queue = <<>> => p.socket = object[v].socket)
          /\ p.backoff = object[v].backoff \/ p.backoff = 1
      BY <2>3
    <3>3. more \subseteq {object[v].queue[i] : i \in DOMAIN object[v].queue}
      BY <2>7
    <3>4. Fits(HasEntry(table, v), HasEntry(idle, v), {}, {s}, object[v], timers[v],
               asked[v], told[v])
      BY <2>2
    <3>5. /\ Fits(HasEntry(table, v), HasEntry(idle, v), {}, {s}, p, timers[v], asked[v],
                  told[v] \cup more)
          /\ p.queue = <<>> => Fits(HasEntry(table, v), HasEntry(idle, v), {}, {}, p, timers[v],
                                    asked[v], told[v] \cup more)
      BY <3>1, <3>2, <3>3, <3>4, FitsStill, Zenon
    <3>6. Fits(HasEntry(table, v), HasEntry(idle, v), Waits(v)', Uses(v)', p, timers[v],
               asked[v], told[v] \cup more)
      BY <1>7, <2>10, <2>11, <3>5
    <3>7. /\ HasEntry(table, v)' = HasEntry(table, v)
          /\ HasEntry(idle, v)' <=> HasEntry(idle, v)
          /\ object'[v] = p /\ timers'[v] = timers[v] /\ asked'[v] = asked[v]
          /\ told'[v] = told[v] \cup more
      BY <1>2, <1>5, <1>6, <1>7, <2>1, <2>2, <2>6, <2>8
    <3>8. Fits(HasEntry(table, v)', HasEntry(idle, v)', Waits(v)', Uses(v)', object'[v],
               timers'[v], asked'[v], told'[v])
      BY <3>6, <3>7 DEF Fits
    <3>. QED  BY <3>8 DEF RemoteFits
  <2>14. ASSUME NEW x \in Remotes, x # r, x # v
         PROVE  RemoteFits(x)'
    <3>1. Uses(x)' = Uses(x)
      BY <2>2, <2>4, <2>9, <2>14 DEF Uses
    <3>. QED  BY <1>0, <1>2, <1>5, <1>6, <1>7, <2>6, <2>8, <2>14, <3>1, Undisturbed
  <2>15. ASSUME NEW t \in Sockets
         PROVE  SocketFits(t)'
    <3>1. CASE t = s
      <4>1. sock'[s] = k
        BY <1>0, <2>5
      <4>. QED  BY <2>4, <2>6, <3>1, <4>1 DEF SocketFits, Queue, User
    <3>2. CASE t # s
      <4>1. sock'[t] = sock[t] /\ SocketFits(t)
        BY <1>0, <2>5, <3>2 DEF IInv, Sound
      <4>2. CASE Free(t)
        BY <4>1, <4>2 DEF SocketFits, Free
      <4>3. CASE ~Free(t)
        <5>1. User(t) \in Remotes /\ Uses(User(t)) = {t}
          BY <1>0, <4>3, SocketPlace
        <5>2. User(t) # r /\ User(t) # v
          BY <2>10, <3>2, <5>1
        <5>. QED  BY <2>6, <4>1, <5>1, <5>2 DEF SocketFits, Queue, User
      <4>. QED  BY <4>2, <4>3
    <3>. QED  BY <3>1, <3>2
  <2>. QED  BY <1>2, <1>6, <2>12, <2>13, <2>14, <2>15 DEF Sound
<1>13. CASE ~Stale(r)
  <2>1. PICK s \in Sockets \cup {NoSocket} :
          /\ s = object[r].socket
          /\ sock' = [t \in Sockets |-> IF t = s THEN Disconnected ELSE sock[t]]
    <3>1. object[r].socket \in Sockets \cup {NoSocket}
      BY <1>1 DEF ObjectType
    <3>. QED  BY <1>13, <3>1 DEF TimerSink
  <2>2. object' = [object EXCEPT ![r] = o] /\ told' = told
    BY <1>13 DEF TimerSink, o
  <2>3. object'[r] = o /\ \A x \in Remotes : x # r => object'[x] = object[x]
    BY <1>0, <2>2
  <2>4. \A x, t : t \in Uses(x)' <=> t \in Uses(x) /\ t # s
    BY <2>1, Constants DEF Uses, Free, User
  <2>5. Uses(r)' = {} /\ \A x : x # r => Uses(x)' = Uses(x)
    <3>1. Uses(r)' = {}
      BY <1>8, <2>1, <2>4
    <3>2. ASSUME NEW x, x # r
          PROVE  Uses(x)' = Uses(x)
      <4>1. s \notin Uses(x)
        BY <1>13, <2>1, <3>2, Constants DEF Stale, Uses
      <4>. QED  BY <2>4, <4>1
    <3>. QED  BY <3>1, <3>2
  <2>6. RemoteFits(r)'
    BY <1>11, <2>2, <2>3, <2>5
  <2>7. ASSUME NEW x \in Remotes, x # r
        PROVE  RemoteFits(x)'
    BY <1>0, <1>2, <1>5, <1>6, <1>7, <2>2, <2>3, <2>5, <2>7, Undisturbed
  <2>8. ASSUME NEW t \in Sockets
        PROVE  SocketFits(t)'
    <3>1. CASE t = s
      BY <2>1, <3>1, Constants DEF SocketFits
    <3>2. CASE t # s
      <4>1. sock'[t] = sock[t]
        BY <2>1, <3>2
      <4>2. ~(~Free(t) /\ User(t) = r)
        BY <1>8, <2>1, <3>2 DEF Uses
      <4>. QED  BY <1>0, <2>2, <4>1, <4>2, OtherSockets
    <3>. QED  BY <3>1, <3>2
  <2>. QED  BY <1>2, <1>6, <2>6, <2>7, <2>8 DEF Sound
<1>. QED  BY <1>12, <1>13

-----------------------------------------------------------------------------
(* Free sockets are given to the backlog.                                  *)

LEMMA PreProcessStep ==
  ASSUME IInv, PreProcess
  PROVE  Sound'
<1>0. /\ TypeOK /\ Running /\ backlog \in Seq(Remotes) /\ sock \in [Sockets -> SockType]
      /\ table' = table /\ idle' = idle /\ object' = object /\ timers' = timers
      /\ asked' = asked /\ told' = told
  BY DEF IInv, TypeOK, PreProcess, ghosts
<1>. DEFINE free == {s \in Sockets : Free(s)}
            turn(s) == Cardinality({t \in free : t <= s})
            n == Cardinality(free)
<1>1. /\ sock' = [s \in Sockets |-> IF s \in free /\ turn(s) <= Len(backlog)
                                    THEN ConnectTo(backlog[turn(s)]) ELSE sock[s]]
      /\ backlog' = SubSeq(backlog, n + 1, Len(backlog))
  BY Zenon DEF PreProcess
<1>2. /\ n \in Nat /\ \A s \in free : turn(s) \in 1..n
      /\ \A s, u \in free : turn(s) = turn(u) => s = u
      /\ \A i \in 1..n : \E s \in free : turn(s) = i
  BY Turns DEF Turn
<1>3. \A s : s \in free <=> s \in Sockets /\ Free(s)
  OBVIOUS
<1>. HIDE DEF free, turn, n
<1>4. /\ Len(backlog) \in Nat /\ DOMAIN backlog = 1..Len(backlog)
      /\ \A i \in 1..Len(backlog) : backlog[i] \in Remotes
  BY <1>0, ElementOfSeq
<1>5. /\ \A j : j \in DOMAIN backlog' <=> j \in Nat /\ n + j \in DOMAIN backlog /\ j > 0
      /\ \A j \in DOMAIN backlog' : backlog'[j] = backlog[n + j]
  <2>1. \A i \in (n + 1)..Len(backlog) : backlog[i] \in Remotes
    BY <1>2, <1>4
  <2>2. /\ Len(backlog') = IF n + 1 <= Len(backlog) THEN Len(backlog) - (n + 1) + 1 ELSE 0
        /\ backlog' \in Seq(Remotes)
        /\ \A j \in 1..(Len(backlog) - (n + 1) + 1) : backlog'[j] = backlog[(n + 1) + j - 1]
    BY <1>1, <1>2, <1>4, <2>1, SubSeqProperties
  <2>3. DOMAIN backlog' = 1..(IF n + 1 <= Len(backlog) THEN Len(backlog) - n ELSE 0)
    <3>1. DOMAIN backlog' = 1..Len(backlog')
      BY <2>2
    <3>2. Len(backlog) - (n + 1) + 1 = Len(backlog) - n
      BY <1>2, <1>4
    <3>. QED  BY <2>2, <3>1, <3>2
  <2>4. \A j : j \in DOMAIN backlog' <=> j \in Nat /\ n + j \in DOMAIN backlog /\ j > 0
    BY <1>2, <1>4, <2>3
  <2>5. ASSUME NEW j \in DOMAIN backlog'
        PROVE  backlog'[j] = backlog[n + j]
    <3>1. j \in 1..(Len(backlog) - (n + 1) + 1) /\ (n + 1) + j - 1 = n + j
      BY <1>2, <1>4, <2>4
    <3>. QED  BY <2>2, <3>1
  <2>. QED  BY <2>4, <2>5
<1>6. \A x, j : j \in Waits(x)' <=> j \in Nat /\ j > 0 /\ n + j \in Waits(x)
  BY <1>5 DEF Waits
<1>7. \A s \in free : turn(s) \in Nat /\ (turn(s) <= Len(backlog) <=> turn(s) \in DOMAIN backlog)
  BY <1>2, <1>4
<1>8. \A x, t : t \in Uses(x)' <=>
         (t \in Uses(x)) \/ (t \in free /\ turn(t) \in Waits(x))
  <2>1. ASSUME NEW t \in Sockets, NEW x
        PROVE  t \in Uses(x)' <=> (t \in Uses(x)) \/ (t \in free /\ turn(t) \in Waits(x))
    <3>1. CASE t \in free /\ turn(t) <= Len(backlog)
      <4>1. sock'[t] = ConnectTo(backlog[turn(t)])
        BY <1>1, <3>1
      <4>2. backlog[turn(t)] \in Remotes
        BY <1>4, <1>7, <3>1
      <4>3. sock'[t].state = "connecting" /\ sock'[t].user = backlog[turn(t)]
        BY <4>1, <4>2, Constants
      <4>. QED  BY <1>3, <1>7, <3>1, <4>3 DEF Uses, Waits, Free, User
    <3>2. CASE ~(t \in free /\ turn(t) <= Len(backlog))
      <4>1. sock'[t] = sock[t]
        BY <1>1, <3>2
      <4>. QED  BY <1>3, <1>7, <3>2, <4>1 DEF Uses, Waits, Free, User
    <3>. QED  BY <3>1, <3>2
  <2>. QED  BY <2>1, <1>3 DEF Uses
<1>9. ASSUME NEW x \in Remotes
      PROVE  RemoteFits(x)'
  <2>1. Fits(HasEntry(table, x), HasEntry(idle, x), Waits(x), Uses(x), object[x], timers[x],
             asked[x], told[x])
    BY <1>0, Present
  <2>2. CASE Waits(x) = {}
    <3>1. Waits(x)' = Waits(x) /\ Uses(x)' = Uses(x)
      BY <1>6, <1>8, <2>2
    <3>. QED  BY <1>0, <3>1, Undisturbed
  <2>3. CASE Waits(x) # {}
    <3>1. /\ object[x].queue # <<>> /\ timers[x].retry = 0 /\ Uses(x) = {}
          /\ \E i \in Waits(x) : Waits(x) = {i}
      BY <2>1, <2>3 DEF Fits, InPlace
    <3>2. PICK i \in DOMAIN backlog : Waits(x) = {i}
      BY <3>1 DEF Waits
    <3>3. i \in Nat /\ i > 0
      BY <1>4, <3>2
    <3>4. InPlace(Waits(x)', Uses(x)', object[x], timers[x])
      <4>1. CASE i <= n
        <5>1. PICK s \in free : turn(s) = i
          BY <1>2, <3>3, <4>1
        <5>2. \A t : t \in Uses(x)' <=> t = s
          BY <1>2, <1>8, <3>1, <3>2, <5>1
        <5>3. Uses(x)' = {s} /\ s \in Uses(x)'
          BY <5>2
        <5>4. \A j : j \notin Waits(x)'
          BY <1>2, <1>6, <3>2, <3>3, <4>1
        <5>. QED  BY <3>1, <5>3, <5>4 DEF InPlace
      <4>2. CASE ~(i <= n)
        <5>1. \A t : t \notin Uses(x)'
          BY <1>2, <1>8, <3>1, <3>2, <3>3, <4>2
        <5>2. \A j : j \in Waits(x)' <=> j = i - n
          BY <1>2, <1>6, <3>2, <3>3, <4>2
        <5>3. Waits(x)' = {i - n} /\ i - n \in Waits(x)' /\ Uses(x)' = {}
          BY <5>1, <5>2
        <5>. QED  BY <3>1, <5>3 DEF InPlace
      <4>. QED  BY <4>1, <4>2
    <3>5. HasEntry(table, x)
      BY <2>1, <2>3 DEF Fits
    <3>6. Fits(HasEntry(table, x), HasEntry(idle, x), Waits(x)', Uses(x)', object[x], timers[x],
               asked[x], told[x])
      BY <2>1, <3>4, <3>5 DEF Fits
    <3>. QED  BY <1>0, <3>6 DEF RemoteFits
  <2>. QED  BY <2>2, <2>3
<1>10. ASSUME NEW t \in Sockets
       PROVE  SocketFits(t)'
  <2>1. CASE t \in free /\ turn(t) <= Len(backlog)
    <3>1. sock'[t] = ConnectTo(backlog[turn(t)])
      BY <1>1, <2>1
    <3>2. PICK x \in Remotes : backlog[turn(t)] = x /\ turn(t) \in Waits(x)
      BY <1>4, <1>7, <2>1 DEF Waits
    <3>3. sock'[t].state = "connecting" /\ sock'[t].user = x
      BY <3>1, <3>2, Constants
    <3>4. object[x].queue # <<>>
      <4>1. Fits(HasEntry(table, x), HasEntry(idle, x), Waits(x), Uses(x), object[x], timers[x],
                 asked[x], told[x])
        BY <1>0, Present
      <4>. QED  BY <3>2, <4>1 DEF Fits, InPlace
    <3>. QED  BY <1>0, <3>3, <3>4 DEF SocketFits, Queue, User
  <2>2. CASE ~(t \in free /\ turn(t) <= Len(backlog))
    <3>1. sock'[t] = sock[t] /\ SocketFits(t)
      BY <1>0, <1>1, <2>2 DEF IInv, Sound
    <3>. QED  BY <1>0, <3>1 DEF SocketFits, Queue, User
  <2>. QED  BY <2>1, <2>2
<1>. QED  BY <1>9, <1>10 DEF Sound

-----------------------------------------------------------------------------
(* The invariant.                                                          *)

LEMMA InitInv == Init => IInv
<1>. SUFFICES ASSUME Init PROVE IInv
  OBVIOUS
<1>0. /\ table = <<>> /\ idle = <<>> /\ idleCount = 0 /\ backlog = <<>>
      /\ object = [r \in Remotes |-> NoObject] /\ sock = [s \in Sockets |-> Disconnected]
      /\ timers = [r \in Remotes |-> NoTimers] /\ asked = [r \in Remotes |-> 0]
      /\ told = [r \in Remotes |-> {}] /\ thread = "running"
  BY DEF Init, EmptyTree
<1>1. TypeOK
  BY <1>0, Constants DEF TypeOK
<1>2. OneEntryEach(table) /\ OneEntryEach(idle)
  BY <1>0 DEF OneEntryEach
<1>3. ASSUME NEW r \in Remotes
      PROVE  RemoteFits(r)
  <2>1. /\ ~HasEntry(table, r) /\ ~HasEntry(idle, r) /\ Waits(r) = {}
        /\ object[r] = NoObject /\ timers[r] = NoTimers /\ asked[r] = 0 /\ told[r] = {}
    BY <1>0 DEF HasEntry, Waits
  <2>2. Uses(r) = {}
    BY <1>0, Constants DEF Uses, Free
  <2>3. NoTimers.idle = 0 /\ NoTimers.retry = 0
    BY DEF NoTimers
  <2>4. InPlace(Waits(r), Uses(r), object[r], timers[r])
    BY <2>1, <2>2, <2>3, Constants DEF InPlace
  <2>5. 1..0 = {} \cup {NoObject.queue[i] : i \in DOMAIN NoObject.queue}
    BY Constants, NoQueue
  <2>. QED  BY <2>1, <2>2, <2>3, <2>4, <2>5, Constants DEF RemoteFits, Fits
<1>4. ASSUME NEW s \in Sockets
      PROVE  SocketFits(s)
  BY <1>0, Constants DEF SocketFits
<1>5. NeverEvictsEarly /\ AllToldAtStop
  BY <1>0 DEF NeverEvictsEarly, AllToldAtStop
<1>. QED  BY <1>1, <1>2, <1>3, <1>4, <1>5 DEF IInv, Sound

LEMMA InvStep == IInv /\ [Next]_vars => IInv'
<1>. SUFFICES ASSUME IInv, [Next]_vars PROVE IInv'
  OBVIOUS
<1>1. TypeOK'
  BY TypeStep
<1>2. /\ TypeOK /\ OneEntryEach(table) /\ OneEntryEach(idle)
      /\ table \in Seq(Nodes) /\ idle \in Seq(Nodes) /\ idleCount \in Int
      /\ Running => idleCount <= Len(idle)
      /\ Len(idle) \in Nat
  BY TreeFacts DEF IInv, TypeOK, NeverEvictsEarly
<1>3. ASSUME Running, Sound', thread' = thread,
             OneEntryEach(table)', OneEntryEach(idle)', idleCount' <= Len(idle')
      PROVE  IInv'
  BY <1>1, <1>3 DEF IInv, NeverEvictsEarly, AllToldAtStop, Running
<1>4. ASSUME UNCHANGED <<tables, object, sock, timers, ghosts>>,
             thread' \in {"deadlock", "confused"}
      PROVE  IInv'
  BY <1>1, <1>2, <1>4 DEF IInv, tables, NeverEvictsEarly, AllToldAtStop, Running
<1>5. ASSUME NEW r \in Remotes, PipelineRequestEx(r)
      PROVE  IInv'
  <2>1. Running /\ Sound' /\ thread' = thread
    BY <1>5, RequestStep DEF PipelineRequestEx, RequestFirst, RequestQueued, RequestToIdle
  <2>2. CASE RequestFirst(r)
    <3>1. OneEntryEach(table)'
      BY <1>2, <2>2, AddFacts DEF RequestFirst
    <3>. QED  BY <1>2, <1>3, <2>1, <2>2, <3>1 DEF RequestFirst
  <2>3. CASE RequestQueued(r)
    BY <1>2, <1>3, <2>1, <2>3 DEF RequestQueued, tables
  <2>4. CASE RequestToIdle(r)
    <3>1. table' = table /\ idle' = DeleteEntry(idle, r) /\ idleCount' = idleCount - 1
      BY <2>4 DEF RequestToIdle, OutOfIdle
    <3>2. /\ OneEntryEach(idle)'
          /\ Len(idle') = IF HasEntry(idle, r) THEN Len(idle) - 1 ELSE Len(idle)
      BY <1>2, <3>1, DeleteFacts
    <3>3. idleCount' <= Len(idle')
      BY <1>2, <2>1, <3>1, <3>2
    <3>. QED  BY <1>2, <1>3, <2>1, <3>1, <3>2, <3>3
  <2>. QED  BY <1>5, <2>2, <2>3, <2>4 DEF PipelineRequestEx
<1>6. CASE PreProcess
  <2>1. Running /\ Sound' /\ thread' = thread /\ table' = table /\ idle' = idle /\ idleCount' = idleCount
    BY <1>6, PreProcessStep DEF PreProcess
  <2>. QED  BY <1>2, <1>3, <2>1
<1>7. CASE Deadlock
  BY <1>4, <1>7 DEF Deadlock
<1>8. ASSUME NEW s \in Sockets, OnSocket(s), ~Deadlock
      PROVE  IInv'
  <2>1. /\ Running /\ thread' = thread
        /\ table' = table /\ idle' = idle /\ idleCount' = idleCount
    BY <1>8 DEF OnSocket, Connects, RefusedWritable, RefusedException, PieceArrives,
         AnswerComplete, NextRequestFails, DataDropped, PeerCloses, ResetArrives, Speaks, tables
  <2>. QED  BY <1>2, <1>3, <1>8, <2>1, SocketStep
<1>9. ASSUME NEW r \in Remotes, RetrySink(r), ~Deadlock
      PROVE  IInv'
  <2>1. Running /\ thread' = thread
    BY <1>9 DEF RetrySink
  <2>. QED  BY <1>2, <1>3, <1>9, <2>1, RetryStep
<1>10. ASSUME NEW r \in Remotes, TimerSink(r)
       PROVE  IInv'
  <2>1. Running /\ thread' = thread /\ table' = table
    BY <1>10 DEF TimerSink
  <2>2. Sound' /\ OneEntryEach(idle)' /\ idleCount' <= Len(idle')
    <3>1. /\ Sound' /\ OneEntryEach(idle)'
          /\ idleCount' = idleCount + 1 /\ Len(idle') = Len(idle) + 1
      BY <1>10, IdleStep
    <3>. QED  BY <1>2, <2>1, <3>1
  <2>. QED  BY <1>2, <1>3, <2>1, <2>2
<1>11. ASSUME NEW r \in Remotes, TimerSinkEvicts(r)
       PROVE  IInv'
  <2>1. /\ Running /\ idleCount > MaxIdle /\ thread' = "evicted"
        /\ UNCHANGED <<tables, object, sock, timers, ghosts>>
    BY <1>11 DEF TimerSinkEvicts
  <2>2. Len(idle) > MaxIdle
    BY <1>2, <2>1, WebClientAssumption
  <2>. QED  BY <1>1, <1>2, <2>1, <2>2 DEF IInv, tables, NeverEvictsEarly, AllToldAtStop, Running
<1>12. CASE DestroyWebClient
  <2>1. CASE backlog # <<>>
    BY <1>4, <1>12, <2>1 DEF DestroyWebClient, ghosts
  <2>2. CASE backlog = <<>>
    <3>1. /\ Running /\ thread' = "stopped" /\ table' = <<>> /\ idle' = <<>> /\ asked' = asked
          /\ told' = [r \in Remotes |-> told[r] \cup
                       IF HasEntry(table, r) THEN Abandoned(r) ELSE {}]
      BY <1>12, <2>2 DEF DestroyWebClient, EmptyTree
    <3>2. ASSUME NEW r \in Remotes
          PROVE  told'[r] = 1..asked'[r]
      <4>1. Fits(HasEntry(table, r), HasEntry(idle, r), Waits(r), Uses(r), object[r], timers[r],
                 asked[r], told[r])
        BY <3>1, Present
      <4>2. 1..asked[r] = told[r] \cup Abandoned(r)
        BY <4>1 DEF Fits, Abandoned, Queue
      <4>3. CASE HasEntry(table, r)
        BY <3>1, <4>2, <4>3
      <4>4. CASE ~HasEntry(table, r)
        <5>1. object[r].queue = <<>>
          BY <4>1, <4>4 DEF Fits
        <5>2. Abandoned(r) = {}
          BY <5>1, NoQueue DEF Abandoned, Queue
        <5>. QED  BY <3>1, <4>2, <4>4, <5>2
      <4>. QED  BY <4>3, <4>4
    <3>3. OneEntryEach(table)' /\ OneEntryEach(idle)'
      BY <3>1 DEF OneEntryEach
    <3>. QED  BY <1>1, <3>1, <3>2, <3>3 DEF IInv, NeverEvictsEarly, AllToldAtStop, Running
  <2>. QED  BY <2>1, <2>2
<1>13. CASE UNCHANGED vars
  <2>1. /\ UNCHANGED <<table, idle, idleCount, backlog, object, sock, timers, asked, told, thread>>
    BY <1>13 DEF vars, tables, ghosts
  <2>2. Running => Sound'
    <3>. SUFFICES ASSUME Running PROVE Sound'
      OBVIOUS
    <3>1. \A x : Waits(x)' = Waits(x) /\ Uses(x)' = Uses(x)
      BY <2>1, SamePlaces
    <3>2. ASSUME NEW r \in Remotes
          PROVE  RemoteFits(r)'
      BY <2>1, <3>1, Undisturbed
    <3>3. ASSUME NEW s \in Sockets
          PROVE  SocketFits(s)'
      <4>1. SocketFits(s)
        BY DEF IInv, Sound
      <4>. QED  BY <2>1, <4>1 DEF SocketFits, Queue, User
    <3>. QED  BY <3>2, <3>3 DEF Sound
  <2>3. NeverEvictsEarly' /\ AllToldAtStop'
    BY <2>1 DEF IInv, NeverEvictsEarly, AllToldAtStop, Running
  <2>. QED  BY <1>1, <1>2, <2>1, <2>2, <2>3 DEF IInv, Running
<1>14. ASSUME NEW r \in Remotes, PipelineRequestFails(r)
       PROVE  IInv'
  BY <1>7, <1>14 DEF PipelineRequestFails
<1>. QED  BY <1>5, <1>6, <1>7, <1>8, <1>9, <1>10, <1>11, <1>12, <1>13, <1>14 DEF Next, OnTimer

LEMMA Invariance == Spec => []IInv
BY InitInv, InvStep, PTL DEF Spec

(* Types.  The socket an object remembers and those that the pool has, the *)
(* timers and the entries of both tables stay within their ranges.         *)
THEOREM ClientTypes == Spec => []TypeOK
<1>1. IInv => TypeOK
  BY DEF IInv
<1>. QED  BY Invariance, <1>1, PTL

(* For any number of servers, sockets and requests, an object with         *)
(* requests is in the backlog, on a socket or at its retry timer, never in *)
(* two of these and never twice in one - or has been forgotten, in the one *)
(* way that ILibWebClient_PipelineRequestEx (ILibWebClient.c) has of       *)
(* sending a request nowhere.                                              *)
THEOREM ObjectsPlacedOnce == Spec => []PlacedOnce
<1>1. ASSUME IInv, Running, NEW r \in Remotes
      PROVE  IF Queue(r) # <<>> THEN Cardinality(Places(r)) = 1 \/ Forgotten(r)
             ELSE Places(r) \subseteq {<<"socket", object[r].socket>>}
  <2>1. Fits(HasEntry(table, r), HasEntry(idle, r), Waits(r), Uses(r), object[r], timers[r],
             asked[r], told[r])
    BY <1>1, Present
  <2>2. InPlace(Waits(r), Uses(r), object[r], timers[r])
    BY <2>1 DEF Fits
  <2>3. Places(r) = {<<"backlog", i>> : i \in Waits(r)} \cup {<<"socket", s>> : s \in Uses(r)}
                    \cup {<<"retry", i>> : i \in 1..timers[r].retry}
    BY Zenon DEF Places, Waits, Uses
  <2>4. CASE Queue(r) = <<>>
    <3>1. Waits(r) = {} /\ timers[r].retry = 0 /\ Uses(r) \subseteq {object[r].socket}
      BY <2>2, <2>4 DEF InPlace, Queue
    <3>. QED  BY <2>3, <2>4, <3>1
  <2>5. CASE Queue(r) # <<>>
    <3>1. CASE timers[r].retry = 0 /\ Uses(r) = {} /\ \E i \in Waits(r) : Waits(r) = {i}
      <4>1. PICK i : Waits(r) = {i}
        BY <3>1
      <4>2. Places(r) = {<<"backlog", i>>}
        BY <2>3, <3>1, <4>1
      <4>. QED  BY <2>5, <4>2, FS_Singleton
    <3>2. CASE timers[r].retry = 0 /\ Waits(r) = {} /\ \E s \in Uses(r) : Uses(r) = {s}
      <4>1. PICK s : Uses(r) = {s}
        BY <3>2
      <4>2. Places(r) = {<<"socket", s>>}
        BY <2>3, <3>2, <4>1
      <4>. QED  BY <2>5, <4>2, FS_Singleton
    <3>3. CASE timers[r].retry = 1 /\ Waits(r) = {} /\ Uses(r) = {}
      <4>1. Places(r) = {<<"retry", 1>>}
        BY <2>3, <3>3
      <4>. QED  BY <2>5, <4>1, FS_Singleton
    <3>4. CASE /\ timers[r].retry = 0 /\ Waits(r) = {} /\ Uses(r) = {}
               /\ object[r].socket # NoSocket /\ object[r].backoff = 1
      <4>1. Places(r) = {}
        BY <2>3, <3>4
      <4>. QED  BY <2>5, <3>4, <4>1 DEF Forgotten
    <3>. QED  BY <2>2, <2>5, <3>1, <3>2, <3>3, <3>4 DEF InPlace, Queue
  <2>. QED  BY <2>4, <2>5
<1>2. IInv => PlacedOnce
  BY <1>1 DEF PlacedOnce
<1>. QED  BY Invariance, <1>2, PTL

(* The timer of ILibWebClient_FinishedResponse, or the entry that          *)
(* ILibWebClient_TimerSink made of it, watches each idle connection and no *)
(* other.                                                                  *)
THEOREM IdleIsWatched == Spec => []WatchedIffIdle
<1>1. IInv => WatchedIffIdle
  <2>. SUFFICES ASSUME IInv, Running, NEW r \in Remotes
                PROVE  timers[r].idle + (IF HasEntry(idle, r) THEN 1 ELSE 0)
                         = IF HasEntry(table, r) /\ Queue(r) = <<>> THEN 1 ELSE 0
    BY DEF WatchedIffIdle
  <2>. QED  BY Present DEF Fits, Queue
<1>. QED  BY Invariance, <1>1, PTL

(* idleCount never runs ahead of idleTable: for any MAX_IDLE_SESSIONS,     *)
(* ILibWebClient_TimerSink evicts only with more sessions listed.          *)
THEOREM EvictsInTime == Spec => []NeverEvictsEarly
<1>1. IInv => NeverEvictsEarly
  BY DEF IInv
<1>. QED  BY Invariance, <1>1, PTL

(* ILibDestroyWebClient, when nothing waits for a socket, leaves no request *)
(* whose sink was not told, whatever happened to the connections before.   *)
THEOREM ToldAtStop == Spec => []AllToldAtStop
<1>1. IInv => AllToldAtStop
  BY DEF IInv
<1>. QED  BY Invariance, <1>1, PTL
=============================================================================
