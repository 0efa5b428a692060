--------------------------- MODULE EventingProofs ---------------------------
(***************************************************************************)
(* The bookkeeping of module Eventing, for any number of services, records *)
(* and clients and any order of requests, with good data or bad, answered  *)
(* in time, late or never: it holds until a destructed record is left in   *)
(* use, and that comes about in two ways only.  The one hypothesis is that *)
(* an application changes state variables at run time, which tv-now.c      *)
(* never does, only of services with one subscriber at most; TLC shows     *)
(* what goes wrong without it: EventingExpireHead.                         *)
(***************************************************************************)
EXTENDS Eventing, SubscriberListProofs

(* What UpnpExpireSubscriberInfo needs in order to do what it is for: it   *)
(* is never called, or the record it is given is alone on its list.        *)
ExpiresOnlyAlone == \A s \in RuntimeStateChanges : MaxSubscribers[s] <= 1

(* A record that a SUBSCRIBE was granted with, not one it forgot.          *)
Subscribed(n) == info[n].alive /\ info[n].sid # 0

OnSomeList(n) == \E s \in Services : n \in Subscribers(s)

(* The walk that holds EventLock stands on a record of the list it walks;  *)
(* one that may expire subscribers is over a list of one at most.          *)
WalkSound ==
  mode # "dangling" =>
    /\ handler.op = "idle" => handler = Idle
    /\ handler.op # "idle" =>
         /\ handler.svc \in Services
         /\ handler.cursor \in Subscribers(handler.svc) \cup {NULL}
         /\ handler.op = "sendEvent" => MaxSubscribers[handler.svc] <= 1

(* A notification in flight still has the record it was sent for, and its  *)
(* SEQ has been passed, so that the next one differs from it.              *)
InFlightSound ==
  mode = "running" =>
    \A e \in events : e.outcome = "pending" =>
      /\ Subscribed(e.node) /\ info[e.node].sid = e.sid
      /\ e.seq < info[e.node].seq

(* The last reference to go always destructs.                              *)
RefPositive ==
  mode # "dangling" => \A n \in Nodes : Subscribed(n) => info[n].ref >= 1

(* The strengthening of the invariants below that every step preserves.    *)
IInv ==
  /\ TypeOK
  /\ ListsSound
  /\ IsFiniteSet(events)
  /\ WalkSound
  /\ InFlightSound
  /\ RefCountExact
  /\ RefPositive
  /\ OnlyRefusedLeak

-----------------------------------------------------------------------------
LEMMA InitEstablishes == Init => IInv
<1> SUFFICES ASSUME Init PROVE IInv
  OBVIOUS
<1>1. /\ lists \in ListState /\ WellFormed(lists)
      /\ \A s \in Services : Subscribers(s) = {} /\ lists.total[s] = 0
  BY EmptyListsAreWellFormed DEF Init, Subscribers, EmptyLists
<1>2. TypeOK
  BY <1>1, EventingAssumption
  DEF Init, TypeOK, Info, Freed, Handler, Idle, Modes, Pointer
<1>3. IsFiniteSet(events)
  BY FS_EmptySet DEF Init
<1>4. \A n \in Nodes : ~info[n].alive
  BY DEF Init, Freed
<1>5. QED
  BY <1>1, <1>2, <1>3, <1>4
  DEF Init, IInv, ListsSound, WalkSound, InFlightSound, RefCountExact, RefPositive,
      OnlyRefusedLeak, Subscribed, Idle

(* What the counting steps below need of Pending.                          *)
LEMMA PendingIsFinite ==
  ASSUME IsFiniteSet(events), NEW n \in Nodes
  PROVE  /\ IsFiniteSet(Pending(n))
         /\ Cardinality(Pending(n)) \in Nat
         /\ Cardinality(Pending(n)) = 0 <=> Pending(n) = {}
<1>1. Pending(n) \subseteq events
  BY DEF Pending, Awaited
<1>2. IsFiniteSet(Pending(n))
  BY <1>1, FS_Subset
<1>3. QED
  BY <1>2, FS_CardinalityType, FS_EmptySet

(* The account of one record that the steps keep.                          *)
LEMMA AccountOf ==
  ASSUME IInv, mode # "dangling", NEW n \in Nodes, Subscribed(n)
  PROVE  /\ info[n].ref + misdirected[n] =
              Cardinality(Pending(n)) + (IF OnSomeList(n) THEN 1 ELSE 0)
         /\ OnSomeList(n) \/ Pending(n) # {}
         /\ info[n].ref >= 1
         /\ Cardinality(Pending(n)) \in Nat /\ misdirected[n] \in Nat /\ info[n].ref \in Int
<1>1. Cardinality(Pending(n)) \in Nat
  BY PendingIsFinite DEF IInv
<1>2. info[n].ref \in Int /\ misdirected[n] \in Nat
  BY DEF IInv, TypeOK, Info
<1>3. QED
  BY <1>1, <1>2
  DEF IInv, RefCountExact, RefPositive, OnlyRefusedLeak, OnSomeList, Subscribed

(* What is known of a linked record while the lists can be trusted.        *)
LEMMA LinkedRecord ==
  ASSUME IInv, mode # "dangling", NEW s \in Services, NEW n \in Subscribers(s)
  PROVE  /\ n \in Nodes /\ n \in Linked(lists, s)
         /\ Subscribed(n) /\ OnSomeList(n) /\ info[n] \in Info
         /\ lists \in ListState /\ WellFormed(lists)
         /\ lists.total[s] > 0 /\ ~BadCount(lists, s)
<1>1. lists \in ListState /\ WellFormed(lists) /\ n \in Linked(lists, s)
  BY DEF IInv, TypeOK, ListsSound, Subscribers
<1>2. n \in Nodes
  BY <1>1, LinkedIsLeast
<1>3. lists.total[s] > 0 /\ lists.total[s] \in Int
  BY <1>1, UnlinkRemoves DEF ListState
<1>4. QED
  BY <1>1, <1>2, <1>3
  DEF IInv, TypeOK, ListsSound, Subscribers, Subscribed, OnSomeList, BadCount

LEMMA ScrubIsTyped ==
  ASSUME NEW L \in ListState, NEW n \in Nodes
  PROVE  Scrub(L, n) \in ListState /\ Scrub(L, n).total = L.total
BY DEF Scrub, ListState, Pointer

(* Once a destructed record is in use only the types are claimed.          *)
LEMMA DanglingKeeps ==
  ASSUME TypeOK', IsFiniteSet(events'), mode' = "dangling"
  PROVE  IInv'
BY DEF IInv, ListsSound, WalkSound, InFlightSound, RefCountExact, RefPositive,
       OnlyRefusedLeak

-----------------------------------------------------------------------------
(* A reference to n is dropped, by Release or by the report that ends the  *)
(* process.  The account is given for the record the caller leaves: L is   *)
(* the lists with n taken out or not, and a notification may have been     *)
(* reported.  Either the invariant is kept, or what is left in use is a    *)
(* record that an UNSUBSCRIBE with bad data took a reference from.         *)
LEMMA DropKeeps ==
  ASSUME IInv, mode = "running", NEW n \in Nodes, Subscribed(n),
         NEW L \in ListState, WellFormed(L),
         \A r \in Services : /\ L.total[r] \in 0..MaxSubscribers[r]
                             /\ Linked(L, r) \subseteq Subscribers(r)
                             /\ Subscribers(r) \ Linked(L, r) \subseteq {n},
         \/ Release(L, n)
         \/ /\ info[n].ref # 1 /\ lists' = L /\ mode' = "crashed"
            /\ info' = [info EXCEPT ![n].ref = @ - 1],
         events' \subseteq Event, IsFiniteSet(events'),
         \A e \in events' : e.outcome = "pending" => e \in events,
         \A m \in Nodes : m # n => /\ Awaited(events', m) = Pending(m)
                                   /\ misdirected'[m] = misdirected[m],
         misdirected' \in [Nodes -> Nat],
         info[n].ref - 1 + misdirected'[n] =
           Cardinality(Awaited(events', n))
           + (IF \E r \in Services : n \in Linked(L, r) THEN 1 ELSE 0),
         lastSid' \in Nat, now' \in Nat, handler' \in Handler
  PROVE  /\ mode' \in {"running", "crashed", "dangling"}
         /\ \A m \in Nodes : m # n => info'[m] = info[m]
         /\ mode' = "dangling" => ~info'[n].alive /\ misdirected'[n] > 0
         /\ mode' # "dangling" =>
              /\ \A r \in Services : Subscribers(r)' = Linked(L, r)
              /\ OnSomeList(n)' => /\ info'[n].sid = info[n].sid
                                   /\ info'[n].renewBy = info[n].renewBy
         /\ WalkSound' => IInv'
<1> DEFINE linked == \E r \in Services : n \in Linked(L, r)
           waits  == Awaited(events', n)
<1>1. info[n] \in Info /\ info \in [Nodes -> Info] /\ info[n].ref \in Int
  BY DEF IInv, TypeOK, Info
<1>2. /\ IsFiniteSet(waits) /\ Cardinality(waits) \in Nat
      /\ Cardinality(waits) = 0 <=> waits = {}
  <2>1. waits \subseteq events'
    BY DEF Awaited
  <2>2. IsFiniteSet(waits)
    BY <2>1, FS_Subset
  <2>3. QED
    BY <2>2, FS_CardinalityType, FS_EmptySet
<1>3. info[n].ref >= 1
  BY AccountOf
<1>4. \A m \in Nodes : Pending(m)' = Awaited(events', m)
  BY DEF Pending
<1>5. \A r \in Services : Linked(L, r) \subseteq Nodes
  BY LinkedIsLeast
<1> HIDE DEF linked, waits
<1>6. info[n].ref - 1 + misdirected'[n] = Cardinality(waits) + (IF linked THEN 1 ELSE 0)
  BY DEF linked, waits
<1>7. CASE info[n].ref = 1 /\ (linked \/ waits # {})
  <2>1. /\ lists' = Scrub(L, n) /\ info' = [info EXCEPT ![n] = Freed]
        /\ mode' = "dangling"
    BY <1>7 DEF Release, Destruct, StillUsed, linked, waits
  <2>2. Freed \in Info /\ ~Freed.alive
    BY DEF Freed, Info
  <2>3. misdirected'[n] > 0
    BY <1>2, <1>6, <1>7
  <2>4. lists' \in ListState /\ lists'.total = L.total
    BY <2>1, ScrubIsTyped
  <2>5. /\ info' \in [Nodes -> Info] /\ ~info'[n].alive
        /\ \A m \in Nodes : m # n => info'[m] = info[m]
    BY <1>1, <2>1, <2>2
  <2>6. TypeOK'
    BY <2>1, <2>4, <2>5 DEF TypeOK, Modes
  <2>7. IInv'
    BY <2>1, <2>6, DanglingKeeps
  <2>8. QED
    BY <2>1, <2>3, <2>5, <2>7
<1>8. CASE info[n].ref = 1 /\ ~linked /\ waits = {}
  <2>1. /\ lists' = Scrub(L, n) /\ info' = [info EXCEPT ![n] = Freed]
        /\ mode' = "running"
    BY <1>8 DEF Release, Destruct, StillUsed, linked, waits
  <2>2. Freed \in Info /\ ~Freed.alive
    BY DEF Freed, Info
  <2>3. /\ lists' \in ListState /\ WellFormed(lists') /\ lists'.total = L.total
        /\ \A r \in Services : Subscribers(r)' = Linked(L, r)
    BY <1>8, <2>1, ScrubKeepsLists DEF linked, Subscribers
  <2>4. /\ info' \in [Nodes -> Info] /\ ~info'[n].alive
        /\ \A m \in Nodes : m # n => info'[m] = info[m]
    BY <1>1, <2>1, <2>2
  <2>5. TypeOK'
    BY <2>1, <2>3, <2>4 DEF TypeOK, Modes
  <2>6. \A r \in Services : n \notin Subscribers(r)'
    BY <1>8, <2>3 DEF linked
  <2>7. ListsSound'
    BY <1>5, <2>3, <2>4, <2>6 DEF IInv, ListsSound
  <2>8. \A e \in events' : e.outcome = "pending" => e \in events /\ e.node \in Nodes /\ e.node # n
    BY <1>8 DEF waits, Awaited, Event
  <2>9. InFlightSound'
    BY <2>4, <2>8 DEF IInv, InFlightSound, Subscribed
  <2>10. \A m \in Nodes : info'[m].alive => m # n /\ info'[m] = info[m]
    BY <2>4
  <2>11. \A m \in Nodes : m # n => /\ Pending(m)' = Pending(m)
                                   /\ misdirected'[m] = misdirected[m]
                                   /\ OnSomeList(m)' <=> OnSomeList(m)
    BY <1>4, <2>3 DEF OnSomeList
  <2>12. RefCountExact' /\ RefPositive' /\ OnlyRefusedLeak'
    BY <2>10, <2>11
    DEF IInv, RefCountExact, RefPositive, OnlyRefusedLeak, OnSomeList, Subscribed
  <2>13. ~OnSomeList(n)'
    BY <2>6 DEF OnSomeList
  <2>14. QED
    BY <2>1, <2>3, <2>4, <2>5, <2>7, <2>9, <2>12, <2>13 DEF IInv
<1>9. CASE info[n].ref # 1
  <2> DEFINE rec == [info[n] EXCEPT !.ref = @ - 1]
  <2>1. /\ lists' = L /\ info' = [info EXCEPT ![n].ref = @ - 1]
        /\ mode' \in {"running", "crashed"}
    BY <1>9 DEF Release
  <2>2. /\ rec \in Info
        /\ rec.alive = info[n].alive /\ rec.sid = info[n].sid /\ rec.seq = info[n].seq
        /\ rec.renewBy = info[n].renewBy /\ rec.ref = info[n].ref - 1
    BY <1>1 DEF Info
  <2>3. info' = [info EXCEPT ![n] = rec]
    BY <1>1, <2>1 DEF Info
  <2> HIDE DEF rec
  <2>4. /\ info' \in [Nodes -> Info] /\ info'[n] = rec
        /\ \A m \in Nodes : m # n => info'[m] = info[m]
    BY <1>1, <2>2, <2>3
  <2>5. \A r \in Services : Subscribers(r)' = Linked(L, r)
    BY <2>1 DEF Subscribers
  <2>6. TypeOK'
    BY <2>1, <2>4 DEF TypeOK, Modes
  <2>7. \A m \in Nodes : Subscribed(m)' <=> Subscribed(m)
    BY <2>2, <2>4 DEF Subscribed
  <2>8. ListsSound'
    <3>1. \A r \in Services : \A m \in Subscribers(r)' : m \in Nodes /\ Subscribed(m)
      BY <1>5, <2>5 DEF IInv, ListsSound, Subscribed
    <3>2. QED
      BY <2>1, <2>5, <2>7, <3>1 DEF ListsSound, Subscribed
  <2>9. InFlightSound'
    <3> SUFFICES ASSUME NEW e \in events', e.outcome = "pending"
                 PROVE  /\ Subscribed(e.node)' /\ info'[e.node].sid = e.sid
                        /\ e.seq < info'[e.node].seq
      BY DEF InFlightSound
    <3>1. /\ e \in events /\ e.node \in Nodes
          /\ Subscribed(e.node) /\ info[e.node].sid = e.sid
          /\ e.seq < info[e.node].seq
      BY DEF IInv, InFlightSound, Event
    <3>2. info'[e.node].sid = info[e.node].sid /\ info'[e.node].seq = info[e.node].seq
      BY <2>2, <2>4, <3>1
    <3>3. QED
      BY <2>7, <3>1, <3>2
  <2>10. \A m \in Nodes : m # n => /\ Pending(m)' = Pending(m)
                                   /\ misdirected'[m] = misdirected[m]
                                   /\ OnSomeList(m)' <=> OnSomeList(m)
    BY <1>4, <2>5 DEF OnSomeList
  <2>11. OnSomeList(n)' <=> linked
    BY <2>5 DEF OnSomeList, linked
  <2>12. Pending(n)' = waits
    BY <1>4 DEF waits
  <2>13. info'[n].ref >= 1
    BY <1>1, <1>3, <1>9, <2>2, <2>4
  <2>14. /\ info'[n].ref + misdirected'[n] =
              Cardinality(waits) + (IF OnSomeList(n)' THEN 1 ELSE 0)
         /\ OnSomeList(n)' \/ waits # {}
    <3>1. info'[n].ref + misdirected'[n] = Cardinality(waits) + (IF linked THEN 1 ELSE 0)
      BY <1>6, <2>2, <2>4
    <3>2. linked \/ waits # {}
      BY <1>1, <1>2, <2>13, <2>2, <2>4, <3>1
    <3>3. QED
      BY <2>11, <3>1, <3>2
  <2>15. RefCountExact'
    BY <2>4, <2>7, <2>10, <2>12, <2>14 DEF IInv, RefCountExact, OnSomeList, Subscribed
  <2>16. RefPositive'
    BY <2>4, <2>7, <2>13 DEF IInv, RefPositive, Subscribed
  <2>17. OnlyRefusedLeak'
    BY <2>4, <2>7, <2>10, <2>12, <2>14 DEF IInv, OnlyRefusedLeak, OnSomeList, Subscribed
  <2>18. QED
    BY <2>1, <2>2, <2>4, <2>5, <2>6, <2>8, <2>9, <2>15, <2>16, <2>17 DEF IInv
<1>10. QED
  BY <1>7, <1>8, <1>9

-----------------------------------------------------------------------------
(* Steps that change neither lists nor references.                         *)
LEMMA QuietStepsKeep ==
  ASSUME IInv,
         lists' = lists, events' = events, info' = info, mode' = mode,
         misdirected' = misdirected,
         now' \in Nat, lastSid' \in Nat, handler' \in Handler, WalkSound'
  PROVE  IInv'
<1>1. \A n \in Nodes : Pending(n)' = Pending(n)
  BY DEF Pending, Awaited
<1>2. \A s \in Services : Subscribers(s)' = Subscribers(s)
  BY DEF Subscribers
<1>3. QED
  BY <1>1, <1>2
  DEF IInv, TypeOK, ListsSound, InFlightSound, RefCountExact, RefPositive,
      OnlyRefusedLeak, Subscribed

(* A walk starts on a record of its list.                                  *)
LEMMA HeadIsLinked ==
  ASSUME IInv, NEW s \in Services
  PROVE  lists.head[s] \in Subscribers(s) \cup {NULL} /\ lists.head[s] \in Pointer
BY LinkedIsLeast DEF IInv, TypeOK, ListState, Subscribers, Closed

LEMMA BeginSubscribeKeeps ==
  ASSUME IInv, NEW s \in Services, NEW t \in Timeouts, BeginSubscribe(s, t)
  PROVE  IInv'
<1>1. lists.head[s] \in Subscribers(s) \cup {NULL} /\ lists.head[s] \in Pointer
  BY HeadIsLinked
<1>2. handler' \in Handler
  BY <1>1, EventingAssumption DEF BeginSubscribe, Handler
<1>3. Subscribers(s)' = Subscribers(s)
  BY DEF BeginSubscribe, Subscribers
<1>4. WalkSound'
  BY <1>1, <1>3 DEF BeginSubscribe, WalkSound
<1>5. QED
  BY <1>2, <1>4, QuietStepsKeep DEF BeginSubscribe, IInv, TypeOK

(* A walk that ends leaves Idle behind.                                    *)
LEMMA IdleIsSound == Idle \in Handler /\ (handler' = Idle => WalkSound')
BY DEF Handler, Idle, Pointer, WalkSound

LEMMA RefuseFullKeeps ==
  ASSUME IInv, RefuseFull
  PROVE  IInv'
BY IdleIsSound, QuietStepsKeep DEF RefuseFull, IInv, TypeOK

(* The forgotten record has no SID: nothing is claimed of it.              *)
LEMMA RefuseCallbackKeeps ==
  ASSUME IInv, NEW n \in Nodes, RefuseCallback(n)
  PROVE  IInv'
<1>1. /\ ~info[n].alive /\ mode = "running" /\ mode' \in {"running", "crashed"}
      /\ lists' = lists /\ events' = events /\ now' = now /\ handler' = Idle
      /\ lastSid' \in Nat
  BY DEF RefuseCallback, IInv, TypeOK
<1>2. Forgotten \in Info /\ Forgotten.sid = 0
  BY DEF Forgotten, Info
<1>3. /\ info' \in [Nodes -> Info] /\ info'[n].sid = 0
      /\ \A m \in Nodes : m # n => info'[m] = info[m]
      /\ misdirected' \in [Nodes -> Nat]
      /\ \A m \in Nodes : m # n => misdirected'[m] = misdirected[m]
  BY <1>2 DEF RefuseCallback, IInv, TypeOK
<1>4. \A m \in Nodes : Pending(m)' = Pending(m)
  BY <1>1 DEF Pending, Awaited
<1>5. \A r \in Services : Subscribers(r)' = Subscribers(r)
  BY <1>1 DEF Subscribers
<1>6. TypeOK'
  BY <1>1, <1>3, IdleIsSound DEF IInv, TypeOK, Modes
<1>7. ListsSound'
  <2>1. ASSUME NEW r \in Services, NEW m \in Subscribers(r)
        PROVE  info'[m].alive /\ info'[m].sid # 0
    <3>1. m \in Nodes /\ Subscribed(m)
      BY <1>1, LinkedRecord
    <3>2. QED
      BY <1>1, <1>3, <3>1 DEF Subscribed
  <2>2. QED
    BY <1>1, <1>5, <2>1 DEF IInv, ListsSound
<1>8. InFlightSound'
  <2> SUFFICES ASSUME NEW e \in events, e.outcome = "pending"
               PROVE  /\ Subscribed(e.node)' /\ info'[e.node].sid = e.sid
                      /\ e.seq < info'[e.node].seq
    BY <1>1 DEF InFlightSound
  <2>1. /\ e.node \in Nodes /\ Subscribed(e.node) /\ info[e.node].sid = e.sid
        /\ e.seq < info[e.node].seq
    BY <1>1 DEF IInv, TypeOK, Event, InFlightSound
  <2>2. info'[e.node] = info[e.node]
    BY <1>1, <1>3, <2>1 DEF Subscribed
  <2>3. QED
    BY <2>1, <2>2 DEF Subscribed
<1>9. RefCountExact' /\ RefPositive' /\ OnlyRefusedLeak'
  BY <1>1, <1>3, <1>4, <1>5
  DEF IInv, RefCountExact, RefPositive, OnlyRefusedLeak, Subscribed
<1>10. QED
  BY <1>1, <1>6, <1>7, <1>8, <1>9, IdleIsSound DEF IInv

(* What the lists are once n is taken out of that of s.                    *)
LEMMA UnlinkedLists ==
  ASSUME IInv, mode # "dangling", NEW s \in Services, NEW n \in Subscribers(s)
  PROVE  /\ Unlink(lists, s, n) \in ListState /\ WellFormed(Unlink(lists, s, n))
         /\ \A r \in Services :
              /\ Unlink(lists, s, n).total[r] \in 0..MaxSubscribers[r]
              /\ Linked(Unlink(lists, s, n), r) = Subscribers(r) \ {n}
         /\ \A r \in Services : r # s => n \notin Subscribers(r)
<1> DEFINE K == Unlink(lists, s, n)
<1>1. n \in Linked(lists, s) /\ lists \in ListState /\ WellFormed(lists)
  BY LinkedRecord
<1>2. /\ K \in ListState /\ WellFormed(K)
      /\ Linked(K, s) = Linked(lists, s) \ {n}
      /\ \A r \in Services : r # s => Linked(K, r) = Linked(lists, r)
      /\ K.total = [lists.total EXCEPT ![s] = @ - 1]
      /\ lists.total[s] > 0
  BY <1>1, UnlinkRemoves
<1>3. \A r \in Services : r # s => n \notin Linked(lists, r)
  BY <1>1 DEF WellFormed, ListsDisjoint
<1> HIDE DEF K
<1>4. \A r \in Services : K.total[r] \in 0..MaxSubscribers[r]
  BY <1>1, <1>2, EventingAssumption DEF IInv, TypeOK, ListState
<1>5. QED
  BY <1>2, <1>3, <1>4 DEF K, Subscribers

(* A purged record leaves its list and is destructed.  It stays in use if  *)
(* and only if a notification is in flight for it.                         *)
LEMMA PurgeKeeps ==
  ASSUME IInv, mode = "running", NEW s \in Services, NEW n \in Subscribers(s),
         Destruct(Unlink(lists, s, n), n),
         lastSid' = lastSid, events' = events, now' = now, misdirected' = misdirected,
         handler' \in Handler
  PROVE  /\ mode' \in {"running", "dangling"}
         /\ mode' = "dangling" <=> Pending(n) # {}
         /\ ~info'[n].alive /\ \A m \in Nodes : m # n => info'[m] = info[m]
         /\ mode' # "dangling" => \A r \in Services : Subscribers(r)' = Subscribers(r) \ {n}
         /\ WalkSound' => IInv'
<1> DEFINE K == Unlink(lists, s, n)
<1>1. n \in Nodes /\ Subscribed(n)
  BY LinkedRecord
<1>2. /\ K \in ListState /\ WellFormed(K)
      /\ \A r \in Services : /\ K.total[r] \in 0..MaxSubscribers[r]
                             /\ Linked(K, r) = Subscribers(r) \ {n}
  BY UnlinkedLists
<1> HIDE DEF K
<1>3. /\ lists' = Scrub(K, n) /\ info' = [info EXCEPT ![n] = Freed]
      /\ mode' = IF Pending(n) # {} THEN "dangling" ELSE "running"
  BY <1>2 DEF K, Destruct, StillUsed, Pending
<1>4. /\ lists' \in ListState /\ WellFormed(lists') /\ lists'.total = K.total
      /\ \A r \in Services : Subscribers(r)' = Subscribers(r) \ {n}
  BY <1>1, <1>2, <1>3, ScrubKeepsLists DEF Subscribers
<1>5. /\ info' \in [Nodes -> Info] /\ ~info'[n].alive
      /\ \A m \in Nodes : m # n => info'[m] = info[m]
  BY <1>1, <1>3 DEF IInv, TypeOK, Info, Freed
<1>6. TypeOK'
  BY <1>2, <1>3, <1>4, <1>5 DEF IInv, TypeOK, Modes
<1>7. \A m \in Nodes : Pending(m)' = Pending(m)
  BY DEF Pending, Awaited
<1>8. CASE Pending(n) # {}
  BY <1>3, <1>5, <1>6, <1>8, DanglingKeeps DEF IInv
<1>9. CASE Pending(n) = {}
  <2>1. ListsSound'
    <3>1. \A r \in Services : \A m \in Subscribers(r)' : m \in Nodes /\ m # n /\ Subscribed(m)
      BY <1>4, LinkedRecord
    <3>2. QED
      BY <1>4, <1>5, <3>1 DEF ListsSound, Subscribed
  <2>2. InFlightSound'
    BY <1>5, <1>9 DEF IInv, TypeOK, Event, InFlightSound, Subscribed, Pending, Awaited
  <2>3. RefCountExact' /\ RefPositive' /\ OnlyRefusedLeak'
    BY <1>4, <1>5, <1>7
    DEF IInv, RefCountExact, RefPositive, OnlyRefusedLeak, Subscribed
  <2>4. QED
    BY <1>3, <1>4, <1>5, <1>6, <1>9, <2>1, <2>2, <2>3 DEF IInv
<1>10. QED
  BY <1>8, <1>9

(* The record the purge has come to, and what it does to it.               *)
LEMMA PurgeStepAt ==
  ASSUME IInv, PurgeStep
  PROVE  \E s \in Services : \E n \in Subscribers(s) :
           /\ n = handler.cursor /\ s = handler.svc
           /\ lists.next[n] # n /\ lists.next[n] \in Subscribers(s) \cup {NULL}
           /\ handler' \in Handler
           /\ handler'.op = "subscribe" /\ handler'.svc = s /\ handler'.cursor = lists.next[n]
           /\ Expired(n) => Destruct(Unlink(lists, s, n), n)
<1> DEFINE n == handler.cursor
           s == handler.svc
<1>1. s \in Services /\ n \in Subscribers(s)
  BY DEF IInv, WalkSound, PurgeStep
<1>2. /\ n \in Nodes /\ n \in Linked(lists, s) /\ lists \in ListState /\ WellFormed(lists)
      /\ ~BadCount(lists, s)
  BY <1>1, LinkedRecord DEF PurgeStep
<1>3. lists.next[n] # n /\ lists.next[n] \in Subscribers(s) \cup {NULL}
  BY <1>1, <1>2, OnlyTheHeadHasNoPrevious DEF WellFormed, Subscribers
<1>4. /\ handler' \in Handler
      /\ handler'.op = "subscribe" /\ handler'.svc = s /\ handler'.cursor = lists.next[n]
  BY <1>2 DEF PurgeStep, IInv, TypeOK, Handler, ListState
<1>5. Expired(n) => Destruct(Unlink(lists, s, n), n)
  BY <1>2 DEF PurgeStep, Remove, Removed
<1>6. QED
  BY <1>1, <1>3, <1>4, <1>5

LEMMA PurgeStepKeeps ==
  ASSUME IInv, PurgeStep
  PROVE  IInv'
<1> PICK s \in Services : \E n \in Subscribers(s) :
      /\ n = handler.cursor /\ s = handler.svc
      /\ lists.next[n] # n /\ lists.next[n] \in Subscribers(s) \cup {NULL}
      /\ handler' \in Handler
      /\ handler'.op = "subscribe" /\ handler'.svc = s /\ handler'.cursor = lists.next[n]
      /\ Expired(n) => Destruct(Unlink(lists, s, n), n)
  BY PurgeStepAt
<1> PICK n \in Subscribers(s) :
      /\ n = handler.cursor /\ s = handler.svc
      /\ lists.next[n] # n /\ lists.next[n] \in Subscribers(s) \cup {NULL}
      /\ handler' \in Handler
      /\ handler'.op = "subscribe" /\ handler'.svc = s /\ handler'.cursor = lists.next[n]
      /\ Expired(n) => Destruct(Unlink(lists, s, n), n)
  OBVIOUS
<1>1. CASE ~Expired(n)
  <2>1. lists' = lists /\ info' = info /\ mode' = mode
    BY <1>1 DEF PurgeStep
  <2>2. Subscribers(s)' = Subscribers(s)
    BY <2>1 DEF Subscribers
  <2>3. WalkSound'
    BY <2>2 DEF WalkSound
  <2>4. QED
    BY <2>1, <2>3, QuietStepsKeep DEF PurgeStep, IInv, TypeOK
<1>2. CASE Expired(n)
  <2>1. Destruct(Unlink(lists, s, n), n) /\ mode = "running"
    BY <1>2 DEF PurgeStep
  <2>2. /\ mode' # "dangling" => \A r \in Services : Subscribers(r)' = Subscribers(r) \ {n}
        /\ WalkSound' => IInv'
    BY <2>1, PurgeKeeps DEF PurgeStep
  <2>3. WalkSound'
    BY <2>2 DEF WalkSound
  <2>4. QED
    BY <2>2, <2>3
<1>3. QED
  BY <1>1, <1>2

LEMMA AdmitKeeps ==
  ASSUME IInv, NEW n \in Nodes, Admit(n)
  PROVE  IInv'
<1> PICK s \in Services : s = handler.svc
  BY DEF IInv, WalkSound, Admit
<1> DEFINE new == NewEvent(n, lastSid + 1, 0)
           rec == [alive |-> TRUE, sid |-> lastSid + 1, seq |-> 1, ref |-> 2,
                   renewBy |-> now + handler.timeout]
<1>1. /\ lists \in ListState /\ WellFormed(lists) /\ ~info[n].alive
      /\ lists' = InsertHead(lists, s, n)
      /\ mode = "running" /\ lastSid \in Nat
  BY DEF IInv, TypeOK, ListsSound, WalkSound, Admit
<1>2. \A r \in Services : n \notin Subscribers(r)
  BY <1>1 DEF IInv, ListsSound
<1>3. /\ lists' \in ListState /\ WellFormed(lists')
      /\ Subscribers(s)' = Subscribers(s) \cup {n}
      /\ \A r \in Services : r # s => Subscribers(r)' = Subscribers(r)
      /\ lists'.total = [lists.total EXCEPT ![s] = @ + 1]
  BY <1>1, <1>2, InsertHeadLinks DEF Subscribers
<1>4. rec \in Info /\ rec.alive /\ rec.ref = 2 /\ rec.sid = lastSid + 1 /\ rec.seq = 1
  BY DEF IInv, TypeOK, Info, Handler
<1>5. /\ info' \in [Nodes -> Info] /\ info'[n] = rec
      /\ \A m \in Nodes : m # n => info'[m] = info[m]
  BY <1>4 DEF IInv, TypeOK, Admit
<1>6. new \in Event /\ new.node = n /\ new.outcome = "pending" /\ new.sid = lastSid + 1
      /\ new.seq = 0
  BY DEF IInv, TypeOK, Event, NewEvent
<1>7. events' = events \cup {new}
  BY DEF Admit
<1>8. /\ misdirected' \in [Nodes -> Nat] /\ misdirected'[n] = 0
      /\ \A m \in Nodes : m # n => misdirected'[m] = misdirected[m]
  BY DEF Admit, IInv, TypeOK
<1> HIDE DEF rec, new
<1>9. Pending(n) = {}
  BY <1>1 DEF IInv, InFlightSound, Subscribed, Pending, Awaited
<1>10. Pending(n)' = {new}
  BY <1>6, <1>7, <1>9 DEF Pending, Awaited
<1>11. \A m \in Nodes : m # n => Pending(m)' = Pending(m)
  BY <1>6, <1>7 DEF Pending, Awaited
<1>12. handler' = Idle /\ mode' = mode /\ now' = now /\ lastSid' = lastSid + 1
  BY DEF Admit
<1>13. TypeOK'
  <2>1. lists.total[s] < MaxSubscribers[s]
    BY DEF Admit
  <2>2. \A r \in Services : lists'.total[r] \in 0..MaxSubscribers[r]
    BY <1>1, <1>3, <2>1, EventingAssumption DEF IInv, TypeOK, ListState
  <2>3. QED
    BY <1>3, <1>5, <1>6, <1>7, <1>8, <1>12, <2>2, IdleIsSound DEF IInv, TypeOK
<1>14. ListsSound'
  <2>1. \A r \in Services : \A m \in Subscribers(r) : m \in Nodes /\ m # n /\ Subscribed(m)
    BY <1>1, <1>2, LinkedRecord
  <2>2. info'[n].alive /\ info'[n].sid # 0
    BY <1>1, <1>4, <1>5
  <2>3. QED
    BY <1>3, <1>5, <2>1, <2>2 DEF ListsSound, Subscribed
<1>15. IsFiniteSet(events')
  BY <1>7, FS_AddElement DEF IInv
<1>16. InFlightSound'
  <2> SUFFICES ASSUME NEW e \in events', e.outcome = "pending"
               PROVE  /\ Subscribed(e.node)' /\ info'[e.node].sid = e.sid
                      /\ e.seq < info'[e.node].seq
    BY DEF InFlightSound
  <2>1. CASE e = new
    BY <2>1, <1>1, <1>4, <1>5, <1>6 DEF Subscribed
  <2>2. CASE e # new
    <3>1. e \in events /\ e.node \in Nodes /\ e.node # n
      BY <2>2, <1>7, <1>9 DEF IInv, TypeOK, Event, Pending, Awaited
    <3>2. QED
      BY <3>1, <1>1, <1>5 DEF IInv, InFlightSound, Subscribed
  <2>3. QED
    BY <2>1, <2>2
<1>17. RefCountExact' /\ RefPositive' /\ OnlyRefusedLeak'
  <2>1. Cardinality(Pending(n)') = 1
    BY <1>10, FS_Singleton
  <2>2. /\ n \in Subscribers(s)' /\ info'[n].ref = 2
        /\ info'[n].ref + misdirected'[n] = 2
    BY <1>3, <1>4, <1>5, <1>8
  <2>3. \A r \in Services, m \in Nodes : m # n => (m \in Subscribers(r)' <=> m \in Subscribers(r))
    BY <1>3
  <2>4. RefCountExact'
    BY <1>1, <1>5, <1>8, <1>11, <2>1, <2>2, <2>3 DEF IInv, RefCountExact
  <2>5. RefPositive'
    BY <1>1, <1>5, <2>2 DEF IInv, RefPositive, Subscribed
  <2>6. OnlyRefusedLeak'
    BY <1>1, <1>5, <1>11, <2>2, <2>3 DEF IInv, OnlyRefusedLeak
  <2>7. QED
    BY <2>4, <2>5, <2>6
<1>18. QED
  BY <1>12, <1>13, <1>14, <1>15, <1>16, <1>17, IdleIsSound DEF IInv

LEMMA RenewKeeps ==
  ASSUME IInv, NEW s \in Services, NEW n \in Nodes, NEW t \in Timeouts, Renew(s, n, t)
  PROVE  IInv'
<1> DEFINE rec == [info[n] EXCEPT !.renewBy = now + t]
<1>1. info[n] \in Info /\ now \in Nat /\ t \in Nat
  BY EventingAssumption DEF IInv, TypeOK
<1>2. /\ rec \in Info
      /\ rec.alive = info[n].alive /\ rec.sid = info[n].sid /\ rec.ref = info[n].ref
      /\ rec.seq = info[n].seq
  BY <1>1 DEF Info
<1>3. info' = [info EXCEPT ![n] = rec]
  BY <1>1 DEF Renew, Info
<1> HIDE DEF rec
<1>4. /\ info' \in [Nodes -> Info]
      /\ \A m \in Nodes : /\ info'[m].alive = info[m].alive
                          /\ info'[m].sid = info[m].sid /\ info'[m].ref = info[m].ref
                          /\ info'[m].seq = info[m].seq
  BY <1>2, <1>3 DEF IInv, TypeOK
<1>5. /\ \A m \in Nodes : Pending(m)' = Pending(m)
      /\ \A r \in Services : Subscribers(r)' = Subscribers(r)
      /\ \A m \in Nodes : Subscribed(m)' <=> Subscribed(m)
  BY <1>4 DEF Renew, Pending, Awaited, Subscribers, Subscribed
<1>6. TypeOK'
  BY <1>4 DEF IInv, TypeOK, Renew
<1>7. ListsSound'
  BY <1>4, <1>5, LinkedIsLeast DEF IInv, TypeOK, ListsSound, Subscribers, Renew
<1>8. InFlightSound'
  BY <1>4, <1>5 DEF IInv, TypeOK, Event, InFlightSound, Renew
<1>9. RefCountExact' /\ RefPositive' /\ OnlyRefusedLeak'
  BY <1>4, <1>5 DEF IInv, RefCountExact, RefPositive, OnlyRefusedLeak, Subscribed, Renew
<1>10. WalkSound'
  BY <1>5 DEF IInv, WalkSound, Renew
<1>11. QED
  BY <1>6, <1>7, <1>8, <1>9, <1>10 DEF IInv, Renew

(* With EventLock free nothing is claimed of a walk afterwards.            *)
LEMMA LockFreeKeepsWalk ==
  ASSUME LockFree, handler' = handler
  PROVE  handler' = Idle /\ mode = "running" /\ WalkSound'
BY IdleIsSound DEF LockFree

(* UNSUBSCRIBE with a SID of the list takes the list's reference.          *)
LEMMA UnsubscribeDrops ==
  ASSUME IInv, NEW s \in Services, NEW n \in Nodes, Unsubscribe(s, n)
  PROVE  /\ Subscribed(n) /\ n \in Subscribers(s)
         /\ mode' \in {"running", "dangling"}
         /\ \A m \in Nodes : m # n => info'[m] = info[m]
         /\ mode' = "dangling" => ~info'[n].alive /\ misdirected[n] > 0
         /\ mode' # "dangling" => \A r \in Services : Subscribers(r)' = Subscribers(r) \ {n}
         /\ IInv'
<1> DEFINE L == Unlink(lists, s, n)
<1>1. n \in Subscribers(s) /\ mode = "running" /\ handler' = handler /\ WalkSound'
  BY LockFreeKeepsWalk DEF Unsubscribe
<1>2. Subscribed(n) /\ OnSomeList(n)
  BY <1>1, LinkedRecord
<1>3. /\ L \in ListState /\ WellFormed(L)
      /\ \A r \in Services : /\ L.total[r] \in 0..MaxSubscribers[r]
                             /\ Linked(L, r) = Subscribers(r) \ {n}
  BY <1>1, UnlinkedLists
<1>4. Release(L, n) /\ events' = events /\ misdirected' = misdirected
      /\ lastSid' = lastSid /\ now' = now
  BY DEF Unsubscribe
<1> HIDE DEF L
<1>5. \A m \in Nodes : Awaited(events', m) = Pending(m)
  BY <1>4 DEF Pending
<1>6. info[n].ref - 1 + misdirected'[n] =
        Cardinality(Awaited(events', n))
        + (IF \E r \in Services : n \in Linked(L, r) THEN 1 ELSE 0)
  <2>1. /\ info[n].ref + misdirected[n] = Cardinality(Pending(n)) + 1
        /\ Cardinality(Pending(n)) \in Nat /\ misdirected[n] \in Nat /\ info[n].ref \in Int
    BY <1>1, <1>2, AccountOf
  <2>2. ~ \E r \in Services : n \in Linked(L, r)
    BY <1>3
  <2>3. QED
    BY <1>4, <1>5, <2>1, <2>2
<1>7. /\ mode' \in {"running", "crashed", "dangling"}
      /\ \A m \in Nodes : m # n => info'[m] = info[m]
      /\ mode' = "dangling" => ~info'[n].alive /\ misdirected'[n] > 0
      /\ mode' # "dangling" => \A r \in Services : Subscribers(r)' = Linked(L, r)
      /\ WalkSound' => IInv'
  BY <1>1, <1>2, <1>3, <1>4, <1>5, <1>6, DropKeeps DEF IInv, TypeOK
<1>8. mode' \in {"running", "dangling"}
  BY <1>1, <1>4 DEF Release, Destruct
<1>9. QED
  BY <1>1, <1>2, <1>3, <1>4, <1>7, <1>8

(* UNSUBSCRIBE with bad data takes a reference that nobody gives up.       *)
LEMMA UnsubscribeBadDataDrops ==
  ASSUME IInv, NEW s \in Services, UnsubscribeBadData(s)
  PROVE  /\ mode' \in {"running", "dangling"}
         /\ mode' = "dangling" =>
              \E n \in Subscribers(s) : lists.head[s] = n /\ info[n].alive /\ ~info'[n].alive
         /\ mode' # "dangling" =>
              /\ \A r \in Services : Subscribers(r)' = Subscribers(r)
              /\ \A m \in Nodes : OnSomeList(m)' => /\ info'[m].sid = info[m].sid
                                                    /\ info'[m].renewBy = info[m].renewBy
         /\ IInv'
<1>1. mode = "running" /\ handler' = handler /\ WalkSound' /\ lists.head[s] # NULL
  BY LockFreeKeepsWalk DEF UnsubscribeBadData
<1> PICK n \in Subscribers(s) : n = lists.head[s]
  BY <1>1, HeadIsLinked
<1>2. /\ n \in Nodes /\ Subscribed(n) /\ OnSomeList(n)
      /\ lists \in ListState /\ WellFormed(lists)
  BY <1>1, LinkedRecord
<1>3. Release(lists, n) /\ events' = events /\ lastSid' = lastSid /\ now' = now
      /\ misdirected' = [misdirected EXCEPT ![n] = @ + 1]
  BY DEF UnsubscribeBadData
<1>4. \A r \in Services : lists.total[r] \in 0..MaxSubscribers[r] /\ Linked(lists, r) = Subscribers(r)
  BY DEF IInv, TypeOK, Subscribers
<1>5. /\ misdirected' \in [Nodes -> Nat] /\ misdirected'[n] = misdirected[n] + 1
      /\ \A m \in Nodes : m # n => misdirected'[m] = misdirected[m]
  BY <1>2, <1>3 DEF IInv, TypeOK
<1>6. \A m \in Nodes : Awaited(events', m) = Pending(m)
  BY <1>3 DEF Pending
<1>7. info[n].ref - 1 + misdirected'[n] =
        Cardinality(Awaited(events', n))
        + (IF \E r \in Services : n \in Linked(lists, r) THEN 1 ELSE 0)
  <2>1. /\ info[n].ref + misdirected[n] = Cardinality(Pending(n)) + 1
        /\ Cardinality(Pending(n)) \in Nat /\ misdirected[n] \in Nat /\ info[n].ref \in Int
    BY <1>1, <1>2, AccountOf
  <2>2. \E r \in Services : n \in Linked(lists, r)
    BY <1>4
  <2>3. QED
    BY <1>2, <1>5, <1>6, <2>1, <2>2
<1>8. /\ \A m \in Nodes : m # n => info'[m] = info[m]
      /\ mode' = "dangling" => ~info'[n].alive
      /\ mode' # "dangling" =>
           /\ \A r \in Services : Subscribers(r)' = Linked(lists, r)
           /\ OnSomeList(n)' => /\ info'[n].sid = info[n].sid
                                /\ info'[n].renewBy = info[n].renewBy
      /\ WalkSound' => IInv'
  BY <1>1, <1>2, <1>3, <1>4, <1>5, <1>6, <1>7, DropKeeps DEF IInv, TypeOK
<1>9. mode' \in {"running", "dangling"}
  BY <1>1, <1>3 DEF Release, Destruct
<1>10. QED
  BY <1>1, <1>2, <1>4, <1>8, <1>9 DEF Subscribed

(* The first report of a request gives the notification's reference back.  *)
LEMMA EventDoneDrops ==
  ASSUME IInv, NEW e \in events, NEW ok \in BOOLEAN, EventDone(e, ok)
  PROVE  /\ mode' \in {"running", "crashed", "dangling"}
         /\ mode' = "dangling" =>
              \E n \in Nodes : info[n].alive /\ ~info'[n].alive /\ misdirected[n] > 0
         /\ mode' # "dangling" =>
              /\ \A r \in Services : Subscribers(r)' = Subscribers(r)
              /\ \A m \in Nodes : OnSomeList(m)' => /\ info'[m].sid = info[m].sid
                                                    /\ info'[m].renewBy = info[m].renewBy
         /\ IInv'
<1> PICK n \in Nodes : n = e.node
  BY DEF IInv, TypeOK, Event
<1> DEFINE done == [e EXCEPT !.outcome = IF ok THEN "delivered" ELSE "failed"]
<1>1. /\ e.outcome = "pending" /\ e \in Pending(n) /\ e \in Event
      /\ mode = "running" /\ handler' = handler /\ WalkSound'
      /\ lastSid' = lastSid /\ now' = now /\ misdirected' = misdirected
  BY LockFreeKeepsWalk DEF IInv, TypeOK, EventDone, Pending, Awaited
<1>2. /\ lists \in ListState /\ WellFormed(lists) /\ Subscribed(n)
      /\ \A r \in Services : /\ lists.total[r] \in 0..MaxSubscribers[r]
                             /\ Linked(lists, r) = Subscribers(r)
  BY <1>1 DEF IInv, TypeOK, ListsSound, InFlightSound, Subscribers
<1>3. \/ Release(lists, n)
      \/ /\ info[n].ref # 1 /\ lists' = lists /\ mode' = "crashed"
         /\ info' = [info EXCEPT ![n].ref = @ - 1]
  BY DEF EventDone
<1>4. done \in Event /\ done.outcome # "pending"
  BY <1>1 DEF Event
<1>5. events' = (events \ {e}) \cup {done}
  BY DEF EventDone
<1> HIDE DEF done
<1>6. /\ events' \subseteq Event
      /\ \A f \in events' : f.outcome = "pending" => f \in events
  BY <1>4, <1>5 DEF IInv, TypeOK
<1>7. IsFiniteSet(events')
  BY <1>5, FS_AddElement, FS_Subset DEF IInv
<1>8. /\ Awaited(events', n) = Pending(n) \ {e}
      /\ \A m \in Nodes : m # n => Awaited(events', m) = Pending(m)
  BY <1>4, <1>5 DEF Pending, Awaited
<1>9. Cardinality(Awaited(events', n)) = Cardinality(Pending(n)) - 1
  <2>1. IsFiniteSet(Pending(n)) /\ e \in Pending(n)
    BY <1>1, PendingIsFinite DEF IInv
  <2>2. Cardinality(Pending(n) \ {e}) = Cardinality(Pending(n)) - 1
    BY <2>1, FS_RemoveElement
  <2>3. QED
    BY <1>8, <2>2
<1>10. info[n].ref - 1 + misdirected'[n] =
         Cardinality(Awaited(events', n))
         + (IF \E r \in Services : n \in Linked(lists, r) THEN 1 ELSE 0)
  <2>1. /\ info[n].ref + misdirected[n] =
             Cardinality(Pending(n)) + (IF OnSomeList(n) THEN 1 ELSE 0)
        /\ Cardinality(Pending(n)) \in Nat /\ misdirected[n] \in Nat /\ info[n].ref \in Int
    BY <1>1, <1>2, AccountOf
  <2>2. (\E r \in Services : n \in Linked(lists, r)) <=> OnSomeList(n)
    BY <1>2 DEF OnSomeList
  <2>3. QED
    BY <1>1, <1>9, <2>1, <2>2
<1>11. /\ mode' \in {"running", "crashed", "dangling"}
       /\ \A m \in Nodes : m # n => info'[m] = info[m]
       /\ mode' = "dangling" => ~info'[n].alive /\ misdirected'[n] > 0
       /\ mode' # "dangling" =>
            /\ \A r \in Services : Subscribers(r)' = Linked(lists, r)
            /\ OnSomeList(n)' => /\ info'[n].sid = info[n].sid
                                 /\ info'[n].renewBy = info[n].renewBy
       /\ WalkSound' => IInv'
  BY <1>1, <1>2, <1>3, <1>6, <1>7, <1>8, <1>10, DropKeeps DEF IInv, TypeOK
<1>12. QED
  BY <1>1, <1>2, <1>11 DEF Subscribed

LEMMA EventDoneAgainKeeps ==
  ASSUME IInv, NEW e \in events, EventDoneAgain(e)
  PROVE  IInv'
<1>1. /\ \A n \in Nodes : Pending(n)' = Pending(n)
      /\ \A s \in Services : Subscribers(s)' = Subscribers(s)
      /\ \A n \in Nodes : Subscribed(n)' <=> Subscribed(n)
  BY DEF EventDoneAgain, Pending, Awaited, Subscribers, Subscribed
<1>2. IsFiniteSet(events')
  BY FS_Subset DEF IInv, EventDoneAgain
<1>3. TypeOK' /\ ListsSound'
  BY <1>1 DEF IInv, TypeOK, ListsSound, EventDoneAgain
<1>4. WalkSound' /\ InFlightSound'
  BY <1>1 DEF IInv, TypeOK, Event, WalkSound, InFlightSound, EventDoneAgain
<1>5. RefCountExact' /\ RefPositive' /\ OnlyRefusedLeak'
  BY <1>1 DEF IInv, RefCountExact, RefPositive, OnlyRefusedLeak, EventDoneAgain
<1>6. QED
  BY <1>2, <1>3, <1>4, <1>5 DEF IInv

(* A new walk, or one that has come to the end of its list.                *)
LEMMA SendEventEndsKeep ==
  ASSUME ExpiresOnlyAlone, IInv, (\E s \in Services : BeginSendEvent(s)) \/ EndSendEvent
  PROVE  IInv'
<1>1. ASSUME NEW s \in Services, BeginSendEvent(s)
      PROVE  IInv'
  <2>1. lists.head[s] \in Subscribers(s) \cup {NULL} /\ lists.head[s] \in Pointer
    BY HeadIsLinked
  <2>2. Subscribers(s)' = Subscribers(s) /\ MaxSubscribers[s] <= 1
    BY <1>1 DEF ExpiresOnlyAlone, BeginSendEvent, Subscribers
  <2>3. /\ handler'.op = "sendEvent" /\ handler'.svc = s /\ handler'.cursor = lists.head[s]
        /\ handler' \in Handler
    BY <1>1, <2>1 DEF BeginSendEvent, Handler, Idle
  <2>4. WalkSound'
    BY <2>1, <2>2, <2>3 DEF WalkSound
  <2>5. QED
    BY <1>1, <2>3, <2>4, QuietStepsKeep DEF BeginSendEvent, IInv, TypeOK
<1>2. CASE EndSendEvent
  BY <1>2, IdleIsSound, QuietStepsKeep DEF EndSendEvent, IInv, TypeOK
<1>3. QED
  BY <1>1, <1>2

(* The reference UpnpSendEvent_Body takes is the one of a container that   *)
(* was not there before.                                                   *)
LEMMA SendEventStepKeeps ==
  ASSUME IInv, SendEventStep
  PROVE  IInv'
<1> PICK s \in Services : s = handler.svc
  BY DEF IInv, WalkSound, SendEventStep
<1> PICK n \in Nodes : n = handler.cursor /\ n \in Subscribers(s)
  BY LinkedIsLeast DEF IInv, TypeOK, WalkSound, SendEventStep, Subscribers
<1> DEFINE new == NewEvent(n, info[n].sid, info[n].seq)
           rec == [alive |-> info[n].alive, sid |-> info[n].sid, seq |-> info[n].seq + 1,
                   ref |-> info[n].ref + 1, renewBy |-> info[n].renewBy]
<1>1. /\ lists \in ListState /\ WellFormed(lists) /\ lists' = lists
      /\ info[n] \in Info /\ now \in Nat
      /\ mode = "running" /\ mode' = mode /\ now' = now /\ lastSid' = lastSid
      /\ misdirected' = misdirected
  BY DEF IInv, TypeOK, ListsSound, SendEventStep
<1>2. Subscribed(n) /\ OnSomeList(n)
  BY <1>1, LinkedRecord
<1>3. /\ rec \in Info /\ rec.alive = info[n].alive /\ rec.sid = info[n].sid
      /\ rec.ref = info[n].ref + 1 /\ rec.seq = info[n].seq + 1
  BY <1>1 DEF Info
<1>4. info' = [info EXCEPT ![n] = rec]
  BY <1>1 DEF SendEventStep, IInv, TypeOK, Info
<1>5. /\ info' \in [Nodes -> Info] /\ info'[n] = rec
      /\ \A m \in Nodes : m # n => info'[m] = info[m]
  BY <1>3, <1>4 DEF IInv, TypeOK
<1>6. /\ new \in Event /\ new.node = n /\ new.outcome = "pending"
      /\ new.sid = info[n].sid /\ new.seq = info[n].seq
  BY <1>1 DEF Event, NewEvent, Info
<1>7. events' = events \cup {new}
  BY DEF SendEventStep
<1> HIDE DEF rec, new
<1>8. new \notin Pending(n)
  BY <1>1, <1>6 DEF IInv, InFlightSound, Pending, Awaited, Info
<1>9. /\ Pending(n)' = Pending(n) \cup {new}
      /\ \A m \in Nodes : m # n => Pending(m)' = Pending(m)
  BY <1>6, <1>7 DEF Pending, Awaited
<1>10. /\ \A r \in Services : Subscribers(r)' = Subscribers(r)
       /\ \A m \in Nodes : Subscribed(m)' <=> Subscribed(m)
  BY <1>1, <1>3, <1>5 DEF Subscribers, Subscribed
<1>11. /\ handler' \in Handler
       /\ handler'.op = "sendEvent" /\ handler'.svc = s /\ handler'.cursor = lists.next[n]
       /\ MaxSubscribers[s] <= 1
  BY <1>1 DEF SendEventStep, IInv, TypeOK, WalkSound, Handler, ListState
<1>12. TypeOK'
  BY <1>1, <1>5, <1>6, <1>7, <1>11 DEF IInv, TypeOK
<1>13. ListsSound'
  <2>1. \A r \in Services : \A m \in Subscribers(r) : m \in Nodes /\ Subscribed(m)
    BY <1>1, LinkedRecord
  <2>2. QED
    BY <1>1, <1>10, <2>1 DEF ListsSound, Subscribed
<1>14. IsFiniteSet(events')
  BY <1>7, FS_AddElement DEF IInv
<1>15. WalkSound'
  <2>1. lists.next[n] \in Subscribers(s) \cup {NULL}
    BY <1>1, OnlyTheHeadHasNoPrevious DEF WellFormed, Subscribers
  <2>2. QED
    BY <1>10, <1>11, <2>1 DEF WalkSound
<1>16. InFlightSound'
  <2> SUFFICES ASSUME NEW e \in events', e.outcome = "pending"
               PROVE  /\ Subscribed(e.node)' /\ info'[e.node].sid = e.sid
                      /\ e.seq < info'[e.node].seq
    BY DEF InFlightSound
  <2>1. CASE e = new
    <3>1. e.seq < info'[n].seq
      BY <2>1, <1>1, <1>3, <1>5, <1>6 DEF Info
    <3>2. QED
      BY <2>1, <3>1, <1>2, <1>3, <1>5, <1>6, <1>10
  <2>2. CASE e # new
    <3>1. e \in events /\ e.node \in Nodes /\ e.seq \in Nat
      BY <2>2, <1>7 DEF IInv, TypeOK, Event
    <3>2. /\ Subscribed(e.node) /\ info[e.node].sid = e.sid
          /\ e.seq < info[e.node].seq
      BY <3>1, <2>2, <1>1 DEF IInv, InFlightSound
    <3>3. CASE e.node = n
      BY <3>1, <3>2, <3>3, <1>1, <1>3, <1>5, <1>10 DEF Info
    <3>4. CASE e.node # n
      BY <3>1, <3>2, <3>4, <1>5, <1>10
    <3>5. QED
      BY <3>3, <3>4
  <2>3. QED
    BY <2>1, <2>2
<1>17. Cardinality(Pending(n)') = Cardinality(Pending(n)) + 1
  BY <1>8, <1>9, PendingIsFinite, FS_AddElement DEF IInv
<1>18. /\ info[n].ref + misdirected[n] = Cardinality(Pending(n)) + 1 /\ info[n].ref >= 1
       /\ Cardinality(Pending(n)) \in Nat /\ misdirected[n] \in Nat /\ info[n].ref \in Int
  BY <1>1, <1>2, AccountOf
<1>19. info'[n].ref + misdirected'[n] = Cardinality(Pending(n)') + 1 /\ info'[n].ref >= 1
  BY <1>1, <1>3, <1>5, <1>17, <1>18
<1>20. RefCountExact' /\ RefPositive' /\ OnlyRefusedLeak'
  <2>1. \A m \in Nodes : m # n => info'[m] = info[m] /\ Pending(m)' = Pending(m)
    BY <1>5, <1>9
  <2>2. (\E r \in Services : n \in Subscribers(r)')
    BY <1>2, <1>10 DEF OnSomeList
  <2>3. RefCountExact'
    BY <1>1, <1>10, <1>19, <2>1, <2>2 DEF IInv, RefCountExact
  <2>4. RefPositive'
    BY <1>1, <1>10, <1>19, <2>1 DEF IInv, RefPositive
  <2>5. OnlyRefusedLeak'
    BY <1>1, <1>10, <2>1, <2>2 DEF IInv, OnlyRefusedLeak
  <2>6. QED
    BY <2>3, <2>4, <2>5
<1>21. QED
  BY <1>12, <1>13, <1>14, <1>15, <1>16, <1>20 DEF IInv

(* Alone on its list, the record UpnpExpireSubscriberInfo is given is      *)
(* taken out as UNSUBSCRIBE would take it.                                 *)
LEMMA SendEventExpireAt ==
  ASSUME IInv, SendEventExpire
  PROVE  \E s \in Services : \E n \in Subscribers(s) :
           /\ s = handler.svc /\ n = handler.cursor /\ Expired(n)
           /\ MaxSubscribers[s] <= 1
           /\ handler' \in Handler
           /\ handler'.op = "sendEvent" /\ handler'.svc = s /\ handler'.cursor = NULL
           /\ Release(Unlink(lists, s, n), n)
<1> PICK s \in Services : s = handler.svc
  BY DEF IInv, WalkSound, SendEventExpire
<1> PICK n \in Subscribers(s) : n = handler.cursor
  BY DEF IInv, WalkSound, SendEventExpire
<1>1. MaxSubscribers[s] <= 1 /\ mode = "running" /\ handler.op = "sendEvent"
  BY DEF IInv, WalkSound, SendEventExpire
<1>2. /\ n \in Linked(lists, s) /\ lists \in ListState /\ WellFormed(lists)
  BY <1>1, LinkedRecord
<1>3. lists.total[s] <= 1
  BY <1>1, EventingAssumption DEF IInv, TypeOK
<1>4. /\ ~ExpireSpins(lists, n) /\ ~ExpireRefuses(lists, n)
      /\ lists.next[n] = NULL /\ Expire(lists, n) = Unlink(lists, s, n)
  BY <1>2, <1>3, ExpireAlone
<1>5. Release(Unlink(lists, s, n), n) /\ handler' = [handler EXCEPT !.cursor = NULL]
  BY <1>4 DEF SendEventExpire
<1>6. /\ handler' \in Handler
      /\ handler'.op = "sendEvent" /\ handler'.svc = s /\ handler'.cursor = NULL
  BY <1>1, <1>5 DEF IInv, TypeOK, Handler, Pointer
<1>7. Expired(n)
  BY DEF SendEventExpire
<1>8. QED
  BY <1>1, <1>5, <1>6, <1>7

LEMMA SendEventExpireDrops ==
  ASSUME IInv, SendEventExpire
  PROVE  /\ mode' \in {"running", "dangling"}
         /\ \E s \in Services : \E n \in Subscribers(s) :
              /\ Expired(n) /\ info[n].alive
              /\ handler.op = "sendEvent" /\ handler'.op = "sendEvent"
              /\ \A m \in Nodes : m # n => info'[m] = info[m]
              /\ mode' = "dangling" => ~info'[n].alive /\ misdirected[n] > 0
              /\ mode' # "dangling" => \A r \in Services : Subscribers(r)' = Subscribers(r) \ {n}
         /\ IInv'
<1> PICK s \in Services : \E n \in Subscribers(s) :
           /\ s = handler.svc /\ n = handler.cursor /\ Expired(n)
           /\ MaxSubscribers[s] <= 1
           /\ handler' \in Handler
           /\ handler'.op = "sendEvent" /\ handler'.svc = s /\ handler'.cursor = NULL
           /\ Release(Unlink(lists, s, n), n)
  BY SendEventExpireAt
<1> PICK n \in Subscribers(s) :
           /\ s = handler.svc /\ n = handler.cursor /\ Expired(n)
           /\ MaxSubscribers[s] <= 1
           /\ handler' \in Handler
           /\ handler'.op = "sendEvent" /\ handler'.svc = s /\ handler'.cursor = NULL
           /\ Release(Unlink(lists, s, n), n)
  OBVIOUS
<1> DEFINE L == Unlink(lists, s, n)
<1>1. /\ mode = "running" /\ events' = events /\ misdirected' = misdirected
      /\ lastSid' = lastSid /\ now' = now /\ handler.op = "sendEvent"
      /\ Release(L, n)
  BY DEF SendEventExpire
<1>2. n \in Nodes /\ Subscribed(n) /\ OnSomeList(n)
  BY <1>1, LinkedRecord
<1>3. /\ L \in ListState /\ WellFormed(L)
      /\ \A r \in Services : /\ L.total[r] \in 0..MaxSubscribers[r]
                             /\ Linked(L, r) = Subscribers(r) \ {n}
  BY <1>1, UnlinkedLists
<1> HIDE DEF L
<1>4. WalkSound'
  BY DEF WalkSound
<1>5. \A m \in Nodes : Awaited(events', m) = Pending(m)
  BY <1>1 DEF Pending
<1>6. info[n].ref - 1 + misdirected'[n] =
        Cardinality(Awaited(events', n))
        + (IF \E r \in Services : n \in Linked(L, r) THEN 1 ELSE 0)
  <2>1. /\ info[n].ref + misdirected[n] = Cardinality(Pending(n)) + 1
        /\ Cardinality(Pending(n)) \in Nat /\ misdirected[n] \in Nat /\ info[n].ref \in Int
    BY <1>1, <1>2, AccountOf
  <2>2. ~ \E r \in Services : n \in Linked(L, r)
    BY <1>3
  <2>3. QED
    BY <1>1, <1>2, <1>5, <2>1, <2>2
<1>7. /\ \A m \in Nodes : m # n => info'[m] = info[m]
      /\ mode' = "dangling" => ~info'[n].alive /\ misdirected'[n] > 0
      /\ mode' # "dangling" => \A r \in Services : Subscribers(r)' = Linked(L, r)
      /\ WalkSound' => IInv'
  BY <1>1, <1>2, <1>3, <1>5, <1>6, DropKeeps DEF IInv, TypeOK
<1>8. mode' \in {"running", "dangling"}
  BY <1>1 DEF Release, Destruct
<1>9. QED
  BY <1>1, <1>2, <1>3, <1>4, <1>7, <1>8 DEF Subscribed

(* After UpnpDestroyMicroStack only records out on delivery, and those     *)
(* forgotten, are left.                                                    *)
LEMMA DestroyMicroStackKeeps ==
  ASSUME IInv, DestroyMicroStack
  PROVE  IInv'
<1>1. /\ lists' \in ListState /\ WellFormed(lists')
      /\ \A s \in Services : Subscribers(s)' = {} /\ lists'.total[s] = 0
  BY EmptyListsAreWellFormed DEF DestroyMicroStack, Subscribers, EmptyLists
<1>2. /\ info' \in [Nodes -> Info]
      /\ \A n \in Nodes : info'[n].alive => info'[n] = info[n] /\ ~OnSomeList(n)
  <2>1. Freed \in Info /\ ~Freed.alive
    BY DEF Freed, Info
  <2>2. info' = [n \in Nodes |-> IF OnSomeList(n) THEN Freed ELSE info[n]]
    BY DEF DestroyMicroStack, OnSomeList
  <2>3. QED
    BY <2>1, <2>2 DEF IInv, TypeOK
<1>3. /\ \A n \in Nodes : Pending(n)' = Pending(n)
      /\ mode = "running" /\ mode' = "destroyed" /\ misdirected' = misdirected
  BY DEF DestroyMicroStack, LockFree, Pending, Awaited
<1>4. TypeOK'
  BY <1>1, <1>2, EventingAssumption DEF IInv, TypeOK, DestroyMicroStack, Modes
<1>5. RefCountExact' /\ RefPositive' /\ OnlyRefusedLeak'
  <2>1. \A n \in Nodes : Subscribed(n)' =>
          /\ info'[n].ref + misdirected'[n] = Cardinality(Pending(n)) + 0
          /\ Pending(n) # {} /\ info'[n].ref >= 1
    BY <1>2, <1>3, AccountOf DEF Subscribed
  <2>2. QED
    BY <2>1, <1>1, <1>3 DEF RefCountExact, RefPositive, OnlyRefusedLeak, Subscribed
<1>6. QED
  BY <1>1, <1>3, <1>4, <1>5, LockFreeKeepsWalk
  DEF IInv, DestroyMicroStack, ListsSound, InFlightSound

LEMMA TickKeeps ==
  ASSUME IInv, Tick
  PROVE  IInv'
<1>1. \A s \in Services : Subscribers(s)' = Subscribers(s)
  BY DEF Tick, Subscribers
<1>2. WalkSound' /\ handler' \in Handler /\ now' \in Nat
  BY <1>1 DEF IInv, TypeOK, WalkSound, Tick
<1>3. QED
  BY <1>2, QuietStepsKeep DEF Tick, IInv, TypeOK

LEMMA StutterKeeps ==
  ASSUME IInv, UNCHANGED vars
  PROVE  IInv'
<1>1. \A s \in Services : Subscribers(s)' = Subscribers(s)
  BY DEF vars, Subscribers
<1>2. WalkSound'
  BY <1>1 DEF vars, IInv, WalkSound
<1>3. QED
  BY <1>2, QuietStepsKeep DEF vars, IInv, TypeOK

-----------------------------------------------------------------------------
LEMMA StepPreserves ==
  ASSUME ExpiresOnlyAlone, IInv, [Next]_vars
  PROVE  IInv'
<1>1. ASSUME NEW s \in Services, NEW t \in Timeouts, BeginSubscribe(s, t)
      PROVE  IInv'
  BY <1>1, BeginSubscribeKeeps
<1>2. CASE SubscribeSteps
  BY <1>2, PurgeStepKeeps, AdmitKeeps, RefuseCallbackKeeps, RefuseFullKeeps
  DEF SubscribeSteps
<1>3. ASSUME NEW s \in Services, NEW n \in Nodes, NEW t \in Timeouts, Renew(s, n, t)
      PROVE  IInv'
  BY <1>3, RenewKeeps
<1>4. ASSUME NEW s \in Services, NEW n \in Nodes, Unsubscribe(s, n)
      PROVE  IInv'
  BY <1>4, UnsubscribeDrops
<1>5. ASSUME NEW s \in Services, UnsubscribeBadData(s)
      PROVE  IInv'
  BY <1>5, UnsubscribeBadDataDrops
<1>6. ASSUME NEW e \in events, NEW ok \in BOOLEAN, EventDone(e, ok)
      PROVE  IInv'
  BY <1>6, EventDoneDrops
<1>7. ASSUME NEW e \in events, EventDoneAgain(e)
      PROVE  IInv'
  BY <1>7, EventDoneAgainKeeps
<1>8. CASE \E s \in Services : BeginSendEvent(s)
  BY <1>8, SendEventEndsKeep
<1>9. CASE SendEventSteps
  BY <1>9, SendEventStepKeeps, SendEventExpireDrops, SendEventEndsKeep DEF SendEventSteps
<1>10. CASE DestroyMicroStack
  BY <1>10, DestroyMicroStackKeeps
<1>11. CASE Tick
  BY <1>11, TickKeeps
<1>12. CASE UNCHANGED vars
  BY <1>12, StutterKeeps
<1>13. QED
  BY <1>1, <1>2, <1>3, <1>4, <1>5, <1>6, <1>7, <1>8, <1>9, <1>10, <1>11, <1>12 DEF Next

(* The strengthened invariant holds in every reachable state, UNSUBSCRIBE  *)
(* with bad data and refused callbacks included.                           *)
THEOREM Inductive ==
  ASSUME ExpiresOnlyAlone
  PROVE  Spec => []IInv
<1>1. Init => IInv
  BY InitEstablishes
<1>2. IInv /\ [Next]_vars => IInv'
  BY StepPreserves
<1>3. QED
  BY <1>1, <1>2, PTL DEF Spec

(* Every variable keeps its type and no service has more subscribers than  *)
(* UpnpTryToSubscribe admits.                                              *)
THEOREM TypesAndLimits ==
  ASSUME ExpiresOnlyAlone
  PROVE  Spec => []TypeOK
<1>1. IInv => TypeOK
  BY DEF IInv
<1>2. QED
  BY <1>1, Inductive, PTL

(* Until a destructed record is left in use, UNSUBSCRIBE, the purge and    *)
(* SUBSCRIBE leave both lists doubly linked, disjoint, counted and made of *)
(* live records, whatever their order.                                     *)
THEOREM ListsStaySound ==
  ASSUME ExpiresOnlyAlone
  PROVE  Spec => []ListsSound
<1>1. IInv => ListsSound
  BY DEF IInv
<1>2. QED
  BY <1>1, Inductive, PTL

(* RefCount is the number of references there are, less those that         *)
(* UNSUBSCRIBEs with bad data took.                                        *)
THEOREM RefCountIsExact ==
  ASSUME ExpiresOnlyAlone
  PROVE  Spec => []RefCountExact
<1>1. IInv => RefCountExact
  BY DEF IInv
<1>2. QED
  BY <1>1, Inductive, PTL

(* No record is lost by UNSUBSCRIBE, with good data or bad, racing a       *)
(* delivery: only a refused callback loses one.                            *)
THEOREM OnlyRefusalsLeak ==
  ASSUME ExpiresOnlyAlone
  PROVE  Spec => []OnlyRefusedLeak
<1>1. IInv => OnlyRefusedLeak
  BY DEF IInv
<1>2. QED
  BY <1>1, Inductive, PTL

(* The purge can leave a destructed record in use: it does not look at     *)
(* RefCount.                                                               *)
LEMMA PurgeStepDangles ==
  ASSUME IInv, PurgeStep, mode' = "dangling"
  PROVE  \E n \in Nodes : info[n].alive /\ ~info'[n].alive /\ PurgedPending(n)
<1> PICK s \in Services : \E n \in Subscribers(s) :
      /\ n = handler.cursor /\ s = handler.svc
      /\ handler' \in Handler
      /\ Expired(n) => Destruct(Unlink(lists, s, n), n)
  BY PurgeStepAt
<1> PICK n \in Subscribers(s) :
      /\ n = handler.cursor /\ s = handler.svc
      /\ handler' \in Handler
      /\ Expired(n) => Destruct(Unlink(lists, s, n), n)
  OBVIOUS
<1>1. mode = "running"
  BY DEF PurgeStep
<1>2. n \in Nodes /\ Subscribed(n)
  BY <1>1, LinkedRecord
<1>3. Expired(n)
  BY <1>1 DEF PurgeStep
<1>4. ~info'[n].alive /\ Pending(n) # {}
  BY <1>1, <1>3, PurgeKeeps DEF PurgeStep
<1>5. QED
  BY <1>2, <1>3, <1>4 DEF PurgedPending, Subscribed

LEMMA StepDangles ==
  ASSUME IInv, Next, mode = "running", mode' = "dangling"
  PROVE  \E n \in Nodes : /\ info[n].alive /\ ~info'[n].alive
                          /\ Misused(n) \/ PurgedPending(n)
<1>1. CASE PurgeStep
  BY <1>1, PurgeStepDangles
<1>2. ASSUME NEW s \in Services, NEW n \in Nodes, Unsubscribe(s, n)
      PROVE  info[n].alive /\ ~info'[n].alive /\ Misused(n)
  BY <1>2, UnsubscribeDrops DEF Subscribed, Misused
<1>3. ASSUME NEW s \in Services, UnsubscribeBadData(s)
      PROVE  \E n \in Nodes : info[n].alive /\ ~info'[n].alive /\ Misused(n)
  <2>1. PICK n \in Subscribers(s) : lists.head[s] = n /\ info[n].alive /\ ~info'[n].alive
    BY <1>3, UnsubscribeBadDataDrops
  <2>2. n \in Nodes
    BY <2>1, LinkedRecord
  <2>3. Misused(n)
    BY <1>3, <2>1 DEF Misused
  <2>4. QED
    BY <2>1, <2>2, <2>3
<1>4. ASSUME NEW e \in events, NEW ok \in BOOLEAN, EventDone(e, ok)
      PROVE  \E n \in Nodes : info[n].alive /\ ~info'[n].alive /\ Misused(n)
  BY <1>4, EventDoneDrops DEF Misused
<1>5. CASE SendEventExpire
  <2>1. PICK s \in Services : \E n \in Subscribers(s) :
          info[n].alive /\ ~info'[n].alive /\ misdirected[n] > 0
    BY <1>5, SendEventExpireDrops
  <2>2. PICK n \in Subscribers(s) : info[n].alive /\ ~info'[n].alive /\ misdirected[n] > 0
    BY <2>1
  <2>3. n \in Nodes
    BY <2>2, LinkedRecord
  <2>4. QED
    BY <2>2, <2>3 DEF Misused
<1>6. CASE \/ \E s \in Services, t \in Timeouts : BeginSubscribe(s, t)
           \/ \E n \in Nodes : Admit(n) \/ RefuseCallback(n)
           \/ RefuseFull
           \/ \E s \in Services, n \in Nodes, t \in Timeouts : Renew(s, n, t)
           \/ \E e \in events : EventDoneAgain(e)
           \/ \E s \in Services : BeginSendEvent(s)
           \/ SendEventStep \/ EndSendEvent \/ DestroyMicroStack \/ Tick
  <2>1. mode' # "dangling"
    BY <1>6 DEF BeginSubscribe, Admit, RefuseCallback, RefuseFull, Renew, EventDoneAgain,
       BeginSendEvent, SendEventStep, EndSendEvent, DestroyMicroStack, Tick
  <2>2. QED
    BY <2>1
<1>7. QED
  BY <1>1, <1>2, <1>3, <1>4, <1>5, <1>6 DEF Next, SubscribeSteps, SendEventSteps

(* A destructed record is left in use only after an UNSUBSCRIBE with bad   *)
(* data took one of its references, or by the purge of a lapsed subscriber *)
(* with a notification in flight.                                          *)
THEOREM DanglesNoOtherWay ==
  ASSUME ExpiresOnlyAlone
  PROVE  Spec => DanglesOnlyTwoWays
<1>1. IInv /\ [Next]_vars =>
        [mode = "running" /\ mode' = "dangling" =>
           \E n \in Nodes : /\ info[n].alive /\ ~info[n].alive'
                            /\ Misused(n) \/ PurgedPending(n)]_vars
  BY StepDangles DEF vars
<1>2. QED
  BY <1>1, Inductive, PTL DEF Spec, DanglesOnlyTwoWays

(* The walk over Previous in UpnpExpireSubscriberInfo, where the program   *)
(* gets to it at all, comes to an end.                                     *)
THEOREM NoWalkHangs ==
  ASSUME ExpiresOnlyAlone
  PROVE  Spec => [](mode # "hung")
<1>1. Init => mode # "hung"
  BY DEF Init
<1>2. IInv /\ mode # "hung" /\ [Next]_vars => (mode # "hung")'
  <2> SUFFICES ASSUME IInv, mode # "hung", [Next]_vars
               PROVE  mode' # "hung"
    OBVIOUS
  <2>1. CASE SendEventExpire
    BY <2>1, SendEventExpireDrops
  <2>2. CASE ~SendEventExpire
    BY <2>2
    DEF Next, vars, BeginSubscribe, SubscribeSteps, PurgeStep, Admit, RefuseCallback,
        RefuseFull, Renew, Unsubscribe, UnsubscribeBadData, EventDone, EventDoneAgain,
        BeginSendEvent, SendEventSteps, SendEventStep, EndSendEvent, DestroyMicroStack,
        Tick, Release, Destruct
  <2>3. QED
    BY <2>1, <2>2
<1>3. Spec => []IInv
  BY Inductive
<1>4. QED
  BY <1>1, <1>2, <1>3, PTL DEF Spec

-----------------------------------------------------------------------------
(***************************************************************************)
(* The refinement of module Subscriptions.  A linked record stands for the *)
(* subscription [sid, until]; taking one record out must take exactly one  *)
(* subscription out, which is why SIDs must tell linked records apart.  A  *)
(* step that leaves a destructed record in use loses all subscriptions.    *)
(***************************************************************************)
(* No SID is given twice: the linked records are told apart by it.         *)
SidsTellApart ==
  mode # "dangling" =>
    \A m, n \in Nodes : OnSomeList(m) /\ OnSomeList(n) =>
      /\ info[m].sid <= lastSid
      /\ info[m].sid = info[n].sid => m = n

RInv == IInv /\ SidsTellApart

(* The subscription a linked record stands for.                            *)
Lease(n) == [sid |-> info[n].sid, until |-> info[n].renewBy]

Abstract == [s \in Services |-> Active(s)]

Phase == IF mode = "destroyed" THEN "closed"
         ELSE IF mode = "dangling" THEN "lost"
         ELSE IF handler = Idle THEN "serving" ELSE "walking"

LEMMA ActiveIsLeases ==
  mode # "dangling" => \A s \in Services : Active(s) = {Lease(n) : n \in Subscribers(s)}
BY DEF Active, Lease

LEMMA InitSids == Init => SidsTellApart
<1> SUFFICES ASSUME Init PROVE SidsTellApart
  OBVIOUS
<1>1. \A s \in Services : Subscribers(s) = {}
  BY EmptyListsAreWellFormed DEF Init, Subscribers
<1>2. QED
  BY <1>1 DEF SidsTellApart, OnSomeList

(* Steps that add no record to a list and give no linked record a new SID. *)
LEMMA SidsKept ==
  ASSUME RInv, mode # "dangling", lastSid' \in Nat, lastSid <= lastSid',
         \A s \in Services : Subscribers(s)' \subseteq Subscribers(s),
         \A n \in Nodes : OnSomeList(n)' => info'[n].sid = info[n].sid
  PROVE  SidsTellApart'
<1> SUFFICES ASSUME NEW m \in Nodes, NEW n \in Nodes, OnSomeList(m)', OnSomeList(n)'
             PROVE  /\ info'[m].sid <= lastSid'
                    /\ info'[m].sid = info'[n].sid => m = n
  BY DEF SidsTellApart
<1>1. OnSomeList(m) /\ OnSomeList(n)
  BY DEF OnSomeList
<1>2. info'[m].sid = info[m].sid /\ info'[n].sid = info[n].sid
  OBVIOUS
<1>3. info[m].sid <= lastSid /\ (info[m].sid = info[n].sid => m = n)
  BY <1>1 DEF RInv, SidsTellApart
<1>4. info[m].sid \in Nat /\ lastSid \in Nat
  BY DEF RInv, IInv, TypeOK, Info
<1>5. QED
  BY <1>2, <1>3, <1>4

(* A destructed record stays in use: nothing can be told any more.         *)
LEMMA LossRefines ==
  ASSUME mode = "running", mode' = "dangling", lastSid' = lastSid, now' = now
  PROVE  SidsTellApart' /\ Promise!Lose
<1>1. Phase \in {"serving", "walking"} /\ Phase' = "lost"
  BY DEF Phase
<1>2. Abstract' = [s \in Services |-> {}]
  BY DEF Abstract, Active
<1>3. QED
  BY <1>1, <1>2 DEF SidsTellApart, Promise!Lose, Abstract, Phase

(* One subscription leaves the list of s, the others stay as they are.     *)
LEMMA OneLeaves ==
  ASSUME RInv, NEW s \in Services, NEW n \in Subscribers(s),
         mode = "running", mode' # "dangling", lastSid' = lastSid,
         \A r \in Services : Subscribers(r)' = Subscribers(r) \ {n},
         \A m \in Nodes : m # n => info'[m] = info[m]
  PROVE  /\ SidsTellApart'
         /\ Lease(n) \in Active(s)
         /\ Abstract' = [Abstract EXCEPT ![s] = @ \ {Lease(n)}]
<1>1. /\ \A r \in Services : Subscribers(r) \subseteq Nodes
      /\ \A r \in Services : r # s => n \notin Subscribers(r)
  BY LinkedIsLeast DEF RInv, IInv, TypeOK, ListsSound, WellFormed, ListsDisjoint, Subscribers
<1>2. \A m \in Subscribers(s) : m # n => Lease(m) # Lease(n)
  BY <1>1 DEF RInv, SidsTellApart, OnSomeList, Lease
<1>3. \A m \in Nodes : m # n => Lease(m)' = Lease(m)
  BY DEF Lease
<1>4. Active(s)' = Active(s) \ {Lease(n)}
  <2>1. Active(s)' = {Lease(m)' : m \in Subscribers(s) \ {n}}
    BY DEF Active, Lease
  <2>2. {Lease(m)' : m \in Subscribers(s) \ {n}} = {Lease(m) : m \in Subscribers(s) \ {n}}
    BY <1>1, <1>3
  <2>3. QED
    BY <2>1, <2>2, <1>2, ActiveIsLeases
<1>5. \A r \in Services : r # s => Active(r)' = Active(r)
  <2> SUFFICES ASSUME NEW r \in Services, r # s PROVE Active(r)' = Active(r)
    OBVIOUS
  <2>1. \A m \in Subscribers(r) : m \in Nodes /\ m # n /\ info'[m] = info[m]
    BY <1>1
  <2>2. Subscribers(r)' = Subscribers(r)
    BY <2>1
  <2>3. QED
    BY <2>1, <2>2 DEF Active
<1>6. SidsTellApart'
  <2>1. \A m \in Nodes : OnSomeList(m)' => m # n
    BY DEF OnSomeList
  <2>2. lastSid \in Nat
    BY DEF RInv, IInv, TypeOK
  <2>3. QED
    BY <2>1, <2>2, SidsKept
<1>7. QED
  BY <1>4, <1>5, <1>6, ActiveIsLeases DEF Abstract

(* Steps that touch no linked record.                                      *)
LEMMA NoneTouched ==
  ASSUME RInv, mode # "dangling", mode' # "dangling",
         lastSid' \in Nat, lastSid <= lastSid',
         \A r \in Services : Subscribers(r)' = Subscribers(r),
         \A m \in Nodes : OnSomeList(m)' => /\ info'[m].sid = info[m].sid
                                            /\ info'[m].renewBy = info[m].renewBy
  PROVE  SidsTellApart' /\ Abstract' = Abstract
<1>1. \A r \in Services : Subscribers(r) \subseteq Nodes
  BY LinkedIsLeast DEF RInv, IInv, TypeOK, Subscribers
<1>2. \A r \in Services : \A m \in Subscribers(r) :
        info'[m].sid = info[m].sid /\ info'[m].renewBy = info[m].renewBy
  BY <1>1 DEF OnSomeList
<1>3. \A r \in Services : Active(r)' = Active(r)
  BY <1>2 DEF Active
<1>4. QED
  BY <1>3, SidsKept DEF Abstract

(* Steps of Subscriptions that leave every subscription as it is.          *)
LEMMA PromiseSteps ==
  /\ Phase' # Phase /\ Phase = "serving" /\ Phase' = "walking"
     /\ Abstract' = Abstract /\ lastSid' = lastSid /\ now' = now => Promise!BeginWalk
  /\ Phase = "walking" /\ Phase' = "serving" /\ Abstract' = Abstract /\ now' = now
     /\ lastSid' \in {lastSid, lastSid + 1} => Promise!EndWalk
  /\ Abstract' = Abstract /\ lastSid' = lastSid /\ now' = now /\ Phase' = Phase
     => UNCHANGED Promise!avars
BY DEF Promise!BeginWalk, Promise!EndWalk, Promise!avars, Abstract, Phase

LEMMA BeginSubscribeRefines ==
  ASSUME RInv, NEW s \in Services, NEW t \in Timeouts, BeginSubscribe(s, t)
  PROVE  SidsTellApart' /\ Promise!BeginWalk
<1>1. \A r \in Services : Subscribers(r)' = Subscribers(r)
  BY DEF BeginSubscribe, Subscribers
<1>2. handler = Idle /\ handler' # Idle /\ mode = "running" /\ mode' = "running"
  BY DEF BeginSubscribe, LockFree, Idle
<1>3. Abstract' = Abstract /\ SidsTellApart'
  BY <1>1, <1>2, NoneTouched DEF BeginSubscribe, RInv, IInv, TypeOK
<1>4. Phase = "serving" /\ Phase' = "walking"
  BY <1>2 DEF Phase
<1>5. QED
  BY <1>3, <1>4, PromiseSteps DEF BeginSubscribe

(* A refusal may spend a SID and forget a record; a process that does not  *)
(* survive it answers nobody any more.                                     *)
LEMMA RefusalsRefine ==
  ASSUME RInv, (\E n \in Nodes : RefuseCallback(n)) \/ RefuseFull
  PROVE  SidsTellApart' /\ Promise!EndWalk
<1>1. /\ \A r \in Services : Subscribers(r)' = Subscribers(r)
      /\ handler' = Idle /\ handler # Idle
      /\ mode = "running" /\ mode' \in {"running", "crashed"}
      /\ now' = now /\ lastSid' \in {lastSid, lastSid + 1} /\ lastSid \in Nat
  BY DEF RefuseCallback, RefuseFull, Subscribers, Idle, RInv, IInv, TypeOK
<1>2. \A m \in Nodes : OnSomeList(m)' => /\ info'[m].sid = info[m].sid
                                         /\ info'[m].renewBy = info[m].renewBy
  <2>1. CASE RefuseFull
    BY <2>1 DEF RefuseFull
  <2>2. ASSUME NEW n \in Nodes, RefuseCallback(n)
        PROVE  \A m \in Nodes : OnSomeList(m)' => info'[m] = info[m]
    <3>1. ~info[n].alive /\ \A m \in Nodes : m # n => info'[m] = info[m]
      BY <2>2 DEF RefuseCallback, RInv, IInv, TypeOK
    <3>2. ~OnSomeList(n)
      BY <1>1, <3>1 DEF RInv, IInv, ListsSound, OnSomeList
    <3>3. QED
      BY <1>1, <3>1, <3>2 DEF OnSomeList
  <2>3. QED
    BY <2>1, <2>2
<1>3. Abstract' = Abstract /\ SidsTellApart'
  BY <1>1, <1>2, NoneTouched
<1>4. Phase = "walking" /\ Phase' = "serving"
  BY <1>1 DEF Phase
<1>5. QED
  BY <1>1, <1>3, <1>4, PromiseSteps

(* A walk that leaves every record as it is.                               *)
LEMMA WalkOnRefines ==
  ASSUME RInv, mode = "running", mode' = mode, handler # Idle, handler' # Idle,
         lists' = lists, lastSid' = lastSid, now' = now,
         \A n \in Nodes : info'[n].sid = info[n].sid /\ info'[n].renewBy = info[n].renewBy
  PROVE  SidsTellApart' /\ UNCHANGED Promise!avars
<1>1. \A r \in Services : Subscribers(r)' = Subscribers(r)
  BY DEF Subscribers
<1>2. Abstract' = Abstract /\ SidsTellApart'
  BY <1>1, NoneTouched DEF RInv, IInv, TypeOK
<1>3. Phase' = Phase
  BY DEF Phase
<1>4. QED
  BY <1>2, <1>3, PromiseSteps

(* A walk that takes out a record whose lease is over.                     *)
LEMMA LapseRefines ==
  ASSUME RInv, NEW s \in Services, NEW n \in Subscribers(s), Expired(n),
         mode = "running", mode' \in {"running", "dangling"},
         handler # Idle, handler' # Idle,
         lastSid' = lastSid, now' = now,
         mode' # "dangling" => \A r \in Services : Subscribers(r)' = Subscribers(r) \ {n},
         \A m \in Nodes : m # n => info'[m] = info[m]
  PROVE  SidsTellApart' /\ Promise!Next
<1>1. CASE mode' = "dangling"
  BY <1>1, LossRefines DEF Promise!Next
<1>2. CASE mode' = "running"
  <2>1. /\ SidsTellApart' /\ Lease(n) \in Active(s)
        /\ Abstract' = [Abstract EXCEPT ![s] = @ \ {Lease(n)}]
    BY <1>2, OneLeaves
  <2>2. Lease(n).until < now
    BY DEF Lease, Expired
  <2>3. Phase = "walking" /\ Phase' = "walking"
    BY <1>2 DEF Phase
  <2>4. Promise!Lapse(s)
    BY <2>1, <2>2, <2>3 DEF Promise!Lapse, Abstract, Phase
  <2>5. QED
    BY <2>1, <2>4 DEF Promise!Next
<1>3. QED
  BY <1>1, <1>2

LEMMA PurgeStepRefines ==
  ASSUME RInv, PurgeStep
  PROVE  SidsTellApart' /\ [Promise!Next]_(Promise!avars)
<1> PICK s \in Services : \E n \in Subscribers(s) :
      /\ n = handler.cursor /\ s = handler.svc
      /\ handler' \in Handler /\ handler'.op = "subscribe"
      /\ Expired(n) => Destruct(Unlink(lists, s, n), n)
  BY PurgeStepAt DEF RInv
<1> PICK n \in Subscribers(s) :
      /\ n = handler.cursor /\ s = handler.svc
      /\ handler' \in Handler /\ handler'.op = "subscribe"
      /\ Expired(n) => Destruct(Unlink(lists, s, n), n)
  OBVIOUS
<1>1. /\ lastSid' = lastSid /\ now' = now /\ mode = "running"
      /\ events' = events /\ misdirected' = misdirected
      /\ handler.op = "subscribe"
  BY DEF PurgeStep
<1>2. handler # Idle /\ handler' # Idle
  BY <1>1 DEF Idle
<1>3. CASE ~Expired(n)
  <2>1. lists' = lists /\ info' = info /\ mode' = mode
    BY <1>3 DEF PurgeStep
  <2>2. QED
    BY <1>1, <1>2, <2>1, WalkOnRefines
<1>4. CASE Expired(n)
  <2>1. /\ mode' \in {"running", "dangling"}
        /\ \A m \in Nodes : m # n => info'[m] = info[m]
        /\ mode' # "dangling" => \A r \in Services : Subscribers(r)' = Subscribers(r) \ {n}
    BY <1>1, <1>4, PurgeKeeps DEF RInv
  <2>2. QED
    BY <1>1, <1>2, <1>4, <2>1, LapseRefines
<1>5. QED
  BY <1>3, <1>4

LEMMA UnsubscribeRefines ==
  ASSUME RInv, NEW s \in Services, NEW n \in Nodes, Unsubscribe(s, n)
  PROVE  SidsTellApart' /\ Promise!Next
<1>1. /\ n \in Subscribers(s) /\ mode' \in {"running", "dangling"}
      /\ \A m \in Nodes : m # n => info'[m] = info[m]
      /\ mode' # "dangling" => \A r \in Services : Subscribers(r)' = Subscribers(r) \ {n}
  BY UnsubscribeDrops DEF RInv
<1>2. /\ lastSid' = lastSid /\ now' = now /\ mode = "running"
      /\ handler' = handler /\ handler = Idle
  BY DEF Unsubscribe, LockFree
<1>3. CASE mode' = "dangling"
  BY <1>2, <1>3, LossRefines DEF Promise!Next
<1>4. CASE mode' = "running"
  <2>1. /\ SidsTellApart' /\ Lease(n) \in Active(s)
        /\ Abstract' = [Abstract EXCEPT ![s] = @ \ {Lease(n)}]
    BY <1>1, <1>2, <1>4, OneLeaves
  <2>2. Phase = "serving" /\ Phase' = "serving"
    BY <1>2, <1>4 DEF Phase
  <2>3. Promise!Cancel(s)
    BY <1>2, <2>1, <2>2 DEF Promise!Cancel, Abstract, Phase
  <2>4. QED
    BY <2>1, <2>3 DEF Promise!Next
<1>5. QED
  BY <1>1, <1>3, <1>4

(* A reference that is dropped ends no subscription, or loses them all.    *)
LEMMA DropRefines ==
  ASSUME RInv, mode = "running", mode' \in {"running", "crashed", "dangling"},
         handler' = handler, lastSid' = lastSid, now' = now,
         mode' # "dangling" =>
              /\ \A r \in Services : Subscribers(r)' = Subscribers(r)
              /\ \A m \in Nodes : OnSomeList(m)' => /\ info'[m].sid = info[m].sid
                                                    /\ info'[m].renewBy = info[m].renewBy
  PROVE  SidsTellApart' /\ [Promise!Next]_(Promise!avars)
<1>1. CASE mode' = "dangling"
  BY <1>1, LossRefines DEF Promise!Next
<1>2. CASE mode' # "dangling"
  <2>1. SidsTellApart' /\ Abstract' = Abstract
    BY <1>2, NoneTouched DEF RInv, IInv, TypeOK
  <2>2. Phase' = Phase
    BY <1>2 DEF Phase
  <2>3. QED
    BY <2>1, <2>2, PromiseSteps
<1>3. QED
  BY <1>1, <1>2

LEMMA UnsubscribeBadDataRefines ==
  ASSUME RInv, NEW s \in Services, UnsubscribeBadData(s)
  PROVE  SidsTellApart' /\ [Promise!Next]_(Promise!avars)
<1>1. mode = "running" /\ handler' = handler /\ lastSid' = lastSid /\ now' = now
  BY DEF UnsubscribeBadData, LockFree
<1>2. QED
  BY <1>1, UnsubscribeBadDataDrops, DropRefines DEF RInv

LEMMA EventDoneRefines ==
  ASSUME RInv, NEW e \in events, NEW ok \in BOOLEAN, EventDone(e, ok)
  PROVE  SidsTellApart' /\ [Promise!Next]_(Promise!avars)
<1>1. mode = "running" /\ handler' = handler /\ lastSid' = lastSid /\ now' = now
  BY DEF EventDone, LockFree
<1>2. QED
  BY <1>1, EventDoneDrops, DropRefines DEF RInv

(* No more subscriptions than records on the list.                         *)
LEMMA ActiveCounted ==
  ASSUME RInv, mode # "dangling", NEW s \in Services
  PROVE  /\ Cardinality(Active(s)) \in Nat
         /\ Cardinality(Active(s)) <= lists.total[s]
<1> DEFINE f == [n \in Subscribers(s) |-> Lease(n)]
<1>1. /\ IsFiniteSet(Subscribers(s))
      /\ lists.total[s] = Cardinality(Subscribers(s))
  BY LinkedIsFinite DEF RInv, IInv, TypeOK, ListsSound, WellFormed, TotalsCount, Subscribers
<1>2. f \in [Subscribers(s) -> Active(s)]
  BY ActiveIsLeases
<1>3. \A a \in Active(s) : \E n \in Subscribers(s) : f[n] = a
  BY ActiveIsLeases
<1> HIDE DEF f
<1>4. f \in Surjection(Subscribers(s), Active(s))
  BY <1>2, <1>3 DEF Surjection
<1>5. IsFiniteSet(Active(s)) /\ Cardinality(Active(s)) <= Cardinality(Subscribers(s))
  BY <1>1, <1>4, FS_Surjection
<1>6. QED
  BY <1>1, <1>5, FS_CardinalityType

LEMMA AdmitRefines ==
  ASSUME RInv, NEW n \in Nodes, Admit(n)
  PROVE  SidsTellApart' /\ [Promise!Next]_(Promise!avars)
<1> PICK s \in Services : s = handler.svc
  BY DEF RInv, IInv, WalkSound, Admit
<1>1. /\ lists \in ListState /\ WellFormed(lists) /\ ~info[n].alive
      /\ lists' = InsertHead(lists, s, n)
      /\ mode = "running" /\ mode' = "running" /\ now' = now /\ now \in Nat
      /\ handler' = Idle /\ handler # Idle /\ handler.timeout \in Nat
      /\ lastSid' = lastSid + 1 /\ lastSid \in Nat /\ lists.total[s] < MaxSubscribers[s]
  BY DEF RInv, IInv, TypeOK, ListsSound, WalkSound, Admit, Idle, Handler
<1>2. \A r \in Services : n \notin Subscribers(r)
  BY <1>1 DEF RInv, IInv, ListsSound
<1>3. /\ lists' \in ListState /\ WellFormed(lists')
      /\ Subscribers(s)' = Subscribers(s) \cup {n}
      /\ \A r \in Services : r # s => Subscribers(r)' = Subscribers(r)
      /\ lists'.total = [lists.total EXCEPT ![s] = @ + 1]
  BY <1>1, <1>2, InsertHeadLinks DEF Subscribers
<1>4. /\ info'[n].sid = lastSid + 1 /\ info'[n].renewBy = now + handler.timeout
      /\ \A m \in Nodes : m # n => info'[m] = info[m]
  BY DEF RInv, IInv, TypeOK, Admit
<1>5. \A r \in Services : Subscribers(r) \subseteq Nodes
  BY <1>1, LinkedIsLeast DEF Subscribers
<1> DEFINE until == now + handler.timeout
           new == [sid |-> lastSid + 1, until |-> until]
<1>6. until \in Nat /\ until >= now
  BY <1>1
<1>7. Lease(n)' = new
  BY <1>4 DEF Lease
<1> HIDE DEF until
<1>8. \A r \in Services : r # s => Active(r)' = Active(r)
  <2> SUFFICES ASSUME NEW r \in Services, r # s PROVE Active(r)' = Active(r)
    OBVIOUS
  <2>1. \A m \in Subscribers(r) : info'[m] = info[m]
    BY <1>2, <1>4, <1>5
  <2>2. QED
    BY <1>1, <1>3, <2>1 DEF Active
<1>9. Active(s)' = Active(s) \cup {new}
  <2>1. \A m \in Subscribers(s) : info'[m] = info[m]
    BY <1>2, <1>4, <1>5
  <2>2. Active(s)' = {[sid |-> info'[m].sid, until |-> info'[m].renewBy] :
                        m \in Subscribers(s) \cup {n}}
    BY <1>1, <1>3 DEF Active
  <2>3. [sid |-> info'[n].sid, until |-> info'[n].renewBy] = new
    BY <1>7 DEF Lease
  <2>4. QED
    BY <1>1, <2>1, <2>2, <2>3 DEF Active
<1>10. Abstract' = [Abstract EXCEPT ![s] = @ \cup {new}]
  BY <1>8, <1>9 DEF Abstract
<1>11. SidsTellApart'
  <2> SUFFICES ASSUME NEW m \in Nodes, NEW k \in Nodes, OnSomeList(m)', OnSomeList(k)'
               PROVE  /\ info'[m].sid <= lastSid'
                      /\ info'[m].sid = info'[k].sid => m = k
    BY DEF SidsTellApart
  <2>1. \A j \in Nodes : OnSomeList(j)' /\ j # n => OnSomeList(j)
    BY <1>3 DEF OnSomeList
  <2>2. \A j \in Nodes : OnSomeList(j) => info[j].sid \in Nat /\ info[j].sid <= lastSid
    BY <1>1 DEF RInv, SidsTellApart, IInv, TypeOK, Info
  <2>3. CASE m = n /\ k = n
    BY <2>3, <1>1, <1>4
  <2>4. CASE m # n /\ k = n
    BY <2>1, <2>2, <2>4, <1>1, <1>4
  <2>5. CASE m = n /\ k # n
    BY <2>1, <2>2, <2>5, <1>1, <1>4
  <2>6. CASE m # n /\ k # n
    BY <2>1, <2>2, <2>6, <1>1, <1>4 DEF RInv, SidsTellApart
  <2>7. QED
    BY <2>3, <2>4, <2>5, <2>6
<1>12. Phase = "walking" /\ Phase' = "serving"
  BY <1>1 DEF Phase
<1>13. Cardinality(Active(s)) < MaxSubscribers[s]
  <2>1. Cardinality(Active(s)) \in Nat /\ Cardinality(Active(s)) <= lists.total[s]
    BY <1>1, ActiveCounted
  <2>2. lists.total[s] \in Int /\ MaxSubscribers[s] \in Nat
    BY <1>1, EventingAssumption DEF ListState
  <2>3. QED
    BY <1>1, <2>1, <2>2
<1>14. new \in Abstract'[s] /\ new.until = until /\ Abstract[s] = Active(s)
  BY <1>10 DEF Abstract
<1>15. Promise!Grant(s)
  <2>1. until \in {b.until : b \in Abstract'[s]}
    BY <1>14
  <2> HIDE DEF new
  <2>2. /\ until \in {b.until : b \in Abstract'[s]} /\ until >= now
        /\ Abstract' = [Abstract EXCEPT ![s] = @ \cup {[sid |-> lastSid + 1, until |-> until]}]
    BY <1>6, <1>10, <2>1 DEF new
  <2>3. /\ Phase = "walking" /\ Phase' = "serving" /\ lastSid' = lastSid + 1 /\ now' = now
        /\ Cardinality(Abstract[s]) < MaxSubscribers[s]
    BY <1>1, <1>12, <1>13, <1>14
  <2>4. \E u \in {b.until : b \in Abstract'[s]} :
          /\ u >= now
          /\ Abstract' = [Abstract EXCEPT ![s] = @ \cup {[sid |-> lastSid + 1, until |-> u]}]
    BY <2>2
  <2>5. Promise!Cardinality(Active(s)) = Cardinality(Active(s))
    BY DEF Promise!Cardinality, Cardinality
  <2>6. QED
    BY <1>14, <2>3, <2>4, <2>5 DEF Promise!Grant, Abstract, Phase
<1>16. QED
  BY <1>11, <1>15 DEF Promise!Next

(* An expired lease can still be extended, and the SID stays.              *)
LEMMA RenewRefines ==
  ASSUME RInv, NEW s \in Services, NEW n \in Nodes, NEW t \in Timeouts, Renew(s, n, t)
  PROVE  SidsTellApart' /\ Promise!Extend(s)
<1>1. /\ n \in Subscribers(s) /\ lists \in ListState /\ WellFormed(lists)
      /\ lists' = lists /\ now' = now /\ lastSid' = lastSid /\ lastSid \in Nat
      /\ now \in Nat /\ t \in Nat
      /\ mode = "running" /\ mode' = "running" /\ handler = Idle /\ handler' = Idle
  BY EventingAssumption DEF RInv, IInv, TypeOK, ListsSound, Renew, LockFree
<1> DEFINE rec == [info[n] EXCEPT !.renewBy = now + t]
<1>2. info[n] \in Info
  BY DEF RInv, IInv, TypeOK
<1>3. rec \in Info /\ rec.sid = info[n].sid /\ rec.renewBy >= now
  BY <1>1, <1>2 DEF Info
<1>4. info' = [info EXCEPT ![n] = rec]
  BY <1>1, <1>2 DEF Renew, Info
<1> HIDE DEF rec
<1>5. info'[n] = rec /\ \A m \in Nodes : m # n => info'[m] = info[m]
  BY <1>4 DEF RInv, IInv, TypeOK
<1>6. \A r \in Services : Subscribers(r)' = Subscribers(r) /\ Subscribers(r) \subseteq Nodes
  BY <1>1, LinkedIsLeast DEF Subscribers
<1>7. \A r \in Services : r # s => n \notin Subscribers(r)
  BY <1>1 DEF WellFormed, ListsDisjoint, Subscribers
<1>8. \A m \in Subscribers(s) : m # n => Lease(m) # Lease(n)
  BY <1>1, <1>6 DEF RInv, SidsTellApart, OnSomeList, Lease
<1>9. \A r \in Services : r # s => Active(r)' = Active(r)
  <2> SUFFICES ASSUME NEW r \in Services, r # s PROVE Active(r)' = Active(r)
    OBVIOUS
  <2>1. \A m \in Subscribers(r) : info'[m] = info[m]
    BY <1>5, <1>6, <1>7
  <2>2. QED
    BY <1>1, <1>6, <2>1 DEF Active
<1> DEFINE old == Lease(n)
           new == [sid |-> rec.sid, until |-> rec.renewBy]
<1>10. Active(s)' = (Active(s) \ {old}) \cup {new}
  <2>1. Active(s)' = {[sid |-> info'[m].sid, until |-> info'[m].renewBy] : m \in Subscribers(s)}
    BY <1>1, <1>6 DEF Active
  <2>2. \A m \in Subscribers(s) \ {n} :
          [sid |-> info'[m].sid, until |-> info'[m].renewBy] = Lease(m)
    BY <1>5, <1>6 DEF Lease
  <2>3. [sid |-> info'[n].sid, until |-> info'[n].renewBy] = new
    BY <1>5
  <2> HIDE DEF new
  <2>4. Active(s)' = {Lease(m) : m \in Subscribers(s) \ {n}} \cup {new}
    BY <2>1, <2>2, <2>3, <1>1
  <2>5. {Lease(m) : m \in Subscribers(s) \ {n}} = Active(s) \ {old}
    BY <1>1, <1>8, ActiveIsLeases
  <2>6. QED
    BY <2>4, <2>5
<1>11. /\ old \in Active(s) /\ new \in Active(s)'
       /\ old.sid = new.sid /\ new.until >= now
  BY <1>1, <1>3, <1>10, ActiveIsLeases DEF Lease
<1> HIDE DEF old, new
<1>12. /\ Abstract' = [Abstract EXCEPT ![s] = (@ \ {old}) \cup {new}]
       /\ Abstract[s] = Active(s) /\ Abstract'[s] = Active(s)'
  BY <1>9, <1>10 DEF Abstract
<1>13. SidsTellApart'
  BY <1>1, <1>3, <1>5, <1>6, SidsKept
<1>14. Phase = "serving" /\ Phase' = "serving"
  BY <1>1 DEF Phase
<1>15. Promise!Extend(s)
  BY <1>1, <1>11, <1>12, <1>14 DEF Promise!Extend, Abstract, Phase
<1>16. QED
  BY <1>13, <1>15

LEMMA EventDoneAgainRefines ==
  ASSUME RInv, NEW e \in events, EventDoneAgain(e)
  PROVE  SidsTellApart' /\ [Promise!Next]_(Promise!avars)
<1>1. /\ lists' = lists /\ info' = info /\ lastSid' = lastSid
      /\ now' = now /\ mode = "running" /\ mode' = mode /\ handler' = handler
  BY DEF EventDoneAgain, LockFree
<1>2. \A r \in Services : Subscribers(r)' = Subscribers(r)
  BY <1>1 DEF Subscribers
<1>3. QED
  BY <1>1, <1>2, DropRefines

LEMMA SendEventRefines ==
  ASSUME RInv, (\E s \in Services : BeginSendEvent(s)) \/ SendEventSteps
  PROVE  SidsTellApart' /\ [Promise!Next]_(Promise!avars)
<1>1. /\ lastSid' = lastSid /\ now' = now /\ lastSid \in Nat
      /\ info \in [Nodes -> Info] /\ handler \in Handler /\ mode = "running"
  BY DEF RInv, IInv, TypeOK, BeginSendEvent, LockFree, SendEventSteps, SendEventStep,
         SendEventExpire, EndSendEvent
<1>2. ASSUME (\E s \in Services : BeginSendEvent(s)) \/ EndSendEvent
      PROVE  SidsTellApart' /\ Promise!Next
  <2>1. lists' = lists /\ info' = info /\ mode' = mode
    BY <1>2 DEF BeginSendEvent, EndSendEvent
  <2>2. \A r \in Services : Subscribers(r)' = Subscribers(r)
    BY <2>1 DEF Subscribers
  <2>3. Abstract' = Abstract /\ SidsTellApart'
    BY <1>1, <2>1, <2>2, NoneTouched
  <2>4. \/ handler = Idle /\ handler' # Idle
        \/ handler # Idle /\ handler' = Idle
    <3>1. CASE \E s \in Services : BeginSendEvent(s)
      <4>1. handler = Idle /\ handler'.op = "sendEvent"
        BY <3>1 DEF BeginSendEvent, LockFree, Idle
      <4>2. QED
        BY <4>1 DEF Idle
    <3>2. CASE EndSendEvent
      BY <3>2 DEF EndSendEvent, Idle
    <3>3. QED
      BY <1>2, <3>1, <3>2
  <2>5. \/ Phase = "serving" /\ Phase' = "walking"
        \/ Phase = "walking" /\ Phase' = "serving"
    BY <1>1, <2>1, <2>4 DEF Phase
  <2>6. Promise!BeginWalk \/ Promise!EndWalk
    BY <1>1, <2>3, <2>5, PromiseSteps
  <2>7. QED
    BY <2>3, <2>6 DEF Promise!Next
<1>3. ASSUME SendEventStep
      PROVE  SidsTellApart' /\ UNCHANGED Promise!avars
  <2>1. /\ lists' = lists /\ mode' = mode
        /\ handler' = [handler EXCEPT !.cursor = lists.next[handler.cursor]]
        /\ handler.op = "sendEvent"
    BY <1>3 DEF SendEventStep
  <2>2. handler # Idle /\ handler' # Idle
    BY <1>1, <2>1 DEF Handler, Idle
  <2>3. \A m \in Nodes : info'[m].sid = info[m].sid /\ info'[m].renewBy = info[m].renewBy
    BY <1>1, <1>3 DEF SendEventStep, Info
  <2>4. QED
    BY <1>1, <2>1, <2>2, <2>3, WalkOnRefines
<1>4. ASSUME SendEventExpire
      PROVE  SidsTellApart' /\ Promise!Next
  <2>1. mode' \in {"running", "dangling"}
    BY <1>4, SendEventExpireDrops DEF RInv
  <2>2. PICK s \in Services : \E n \in Subscribers(s) :
          /\ Expired(n) /\ handler.op = "sendEvent" /\ handler'.op = "sendEvent"
          /\ \A m \in Nodes : m # n => info'[m] = info[m]
          /\ mode' # "dangling" => \A r \in Services : Subscribers(r)' = Subscribers(r) \ {n}
    BY <1>4, SendEventExpireDrops DEF RInv
  <2>3. PICK n \in Subscribers(s) :
          /\ Expired(n) /\ handler.op = "sendEvent" /\ handler'.op = "sendEvent"
          /\ \A m \in Nodes : m # n => info'[m] = info[m]
          /\ mode' # "dangling" => \A r \in Services : Subscribers(r)' = Subscribers(r) \ {n}
    BY <2>2
  <2>4. handler # Idle /\ handler' # Idle
    BY <2>3 DEF Idle
  <2>5. QED
    BY <1>1, <2>1, <2>3, <2>4, LapseRefines
<1>5. QED
  BY <1>2, <1>3, <1>4 DEF SendEventSteps

LEMMA DestroyMicroStackRefines ==
  ASSUME RInv, DestroyMicroStack
  PROVE  SidsTellApart' /\ Promise!Close
<1>1. \A s \in Services : Subscribers(s)' = {}
  BY EmptyListsAreWellFormed DEF DestroyMicroStack, Subscribers
<1>2. Abstract' = [s \in Services |-> {}]
  BY <1>1 DEF Abstract, Active
<1>3. SidsTellApart'
  BY <1>1 DEF SidsTellApart, OnSomeList
<1>4. Phase = "serving" /\ Phase' = "closed"
  BY DEF DestroyMicroStack, LockFree, Phase
<1>5. QED
  BY <1>2, <1>3, <1>4 DEF DestroyMicroStack, Promise!Close, Abstract, Phase

LEMMA TickRefines ==
  ASSUME RInv, Tick
  PROVE  SidsTellApart' /\ Promise!Pass
<1>1. /\ lists' = lists /\ info' = info /\ lastSid' = lastSid /\ lastSid \in Nat
      /\ now' = now + 1 /\ mode = "running" /\ mode' = mode /\ handler' = handler
  BY DEF Tick, RInv, IInv, TypeOK
<1>2. \A r \in Services : Subscribers(r)' = Subscribers(r)
  BY <1>1 DEF Subscribers
<1>3. Abstract' = Abstract /\ SidsTellApart'
  BY <1>1, <1>2, NoneTouched
<1>4. Phase' = Phase /\ Phase \in {"serving", "walking"}
  BY <1>1 DEF Phase
<1>5. QED
  BY <1>1, <1>3, <1>4 DEF Promise!Pass, Abstract, Phase

LEMMA StutterRefines ==
  ASSUME RInv, UNCHANGED vars
  PROVE  SidsTellApart' /\ UNCHANGED Promise!avars
<1>1. \A s \in Services : Subscribers(s)' = Subscribers(s)
  BY DEF vars, Subscribers
<1>2. SidsTellApart'
  BY <1>1 DEF vars, RInv, SidsTellApart, OnSomeList
<1>3. \A s \in Services : Active(s)' = Active(s)
  BY <1>1 DEF vars, Active
<1>4. Abstract' = Abstract /\ Phase' = Phase /\ lastSid' = lastSid /\ now' = now
  BY <1>3 DEF vars, Abstract, Phase
<1>5. QED
  BY <1>2, <1>4, PromiseSteps

LEMMA StepRefines ==
  ASSUME RInv, [Next]_vars
  PROVE  SidsTellApart' /\ [Promise!Next]_(Promise!avars)
<1>1. ASSUME NEW s \in Services, NEW t \in Timeouts, BeginSubscribe(s, t)
      PROVE  SidsTellApart' /\ Promise!Next
  BY <1>1, BeginSubscribeRefines DEF Promise!Next
<1>2. CASE SubscribeSteps
  <2>1. CASE PurgeStep
    BY <2>1, PurgeStepRefines
  <2>2. ASSUME NEW n \in Nodes, Admit(n)
        PROVE  SidsTellApart' /\ [Promise!Next]_(Promise!avars)
    BY <2>2, AdmitRefines
  <2>3. CASE (\E n \in Nodes : RefuseCallback(n)) \/ RefuseFull
    BY <2>3, RefusalsRefine DEF Promise!Next
  <2>4. QED
    BY <1>2, <2>1, <2>2, <2>3 DEF SubscribeSteps
<1>3. ASSUME NEW s \in Services, NEW n \in Nodes, NEW t \in Timeouts, Renew(s, n, t)
      PROVE  SidsTellApart' /\ Promise!Next
  BY <1>3, RenewRefines DEF Promise!Next
<1>4. ASSUME NEW s \in Services, NEW n \in Nodes, Unsubscribe(s, n)
      PROVE  SidsTellApart' /\ Promise!Next
  BY <1>4, UnsubscribeRefines
<1>5. ASSUME NEW s \in Services, UnsubscribeBadData(s)
      PROVE  SidsTellApart' /\ [Promise!Next]_(Promise!avars)
  BY <1>5, UnsubscribeBadDataRefines
<1>6. ASSUME NEW e \in events, NEW ok \in BOOLEAN, EventDone(e, ok)
      PROVE  SidsTellApart' /\ [Promise!Next]_(Promise!avars)
  BY <1>6, EventDoneRefines
<1>7. ASSUME NEW e \in events, EventDoneAgain(e)
      PROVE  SidsTellApart' /\ [Promise!Next]_(Promise!avars)
  BY <1>7, EventDoneAgainRefines
<1>8. CASE (\E s \in Services : BeginSendEvent(s)) \/ SendEventSteps
  BY <1>8, SendEventRefines
<1>9. CASE DestroyMicroStack
  BY <1>9, DestroyMicroStackRefines DEF Promise!Next
<1>10. CASE Tick
  BY <1>10, TickRefines DEF Promise!Next
<1>11. CASE UNCHANGED vars
  BY <1>11, StutterRefines
<1>12. QED
  BY <1>1, <1>2, <1>3, <1>4, <1>5, <1>6, <1>7, <1>8, <1>9, <1>10, <1>11 DEF Next

(* The pointer level implements module Subscriptions: every handler is a   *)
(* step of it or changes nothing it speaks of, and a destructed record     *)
(* left in use is the loss of everything.                                  *)
THEOREM PromiseIsKept ==
  ASSUME ExpiresOnlyAlone
  PROVE  Spec => KeepsPromise
<1>1. Init => Promise!Init
  <2> SUFFICES ASSUME Init PROVE Promise!Init
    OBVIOUS
  <2>1. \A s \in Services : Active(s) = {}
    BY EmptyListsAreWellFormed DEF Init, Active, Subscribers
  <2>2. QED
    BY <2>1 DEF Init, Promise!Init
<1>2. Init => SidsTellApart
  BY InitSids
<1>3. IInv /\ SidsTellApart /\ [Next]_vars
        => SidsTellApart' /\ [Promise!Next]_(Promise!avars)
  BY StepRefines DEF RInv
<1>4. Spec => []IInv
  BY Inductive
<1>5. QED
  BY <1>1, <1>2, <1>3, <1>4, PTL DEF Spec, KeepsPromise, Promise!Spec
=============================================================================
