--------------------------- MODULE SubscriberList ---------------------------
(***************************************************************************)
(* The two doubly linked lists of event subscribers of UpnpMicroStack.c,   *)
(* one per evented service, at the level of their pointers.  A list state  *)
(* is a record of four functions: Head and Total per service (the fields   *)
(* HeadSubscriberPtr_* and NumberOfSubscribers_* of struct UpnpDataObject) *)
(* and Next and Previous per subscriber record.  The operators are the     *)
(* pointer writes of the C functions, in the C order.                      *)
(***************************************************************************)
EXTENDS Integers, FiniteSets

CONSTANTS
  Services,     (* the evented services                                    *)
  Nodes,        (* the addresses a struct SubscriberInfo can be given      *)
  NULL          (* the null pointer                                        *)

ASSUME ListAssumption == NULL \notin Nodes /\ IsFiniteSet(Nodes)

Pointer == Nodes \cup {NULL}

ListState == [head : [Services -> Pointer], total : [Services -> Int],
              next : [Nodes -> Pointer],    prev  : [Nodes -> Pointer]]

EmptyLists == [head  |-> [s \in Services |-> NULL],
               total |-> [s \in Services |-> 0],
               next  |-> [n \in Nodes |-> NULL],
               prev  |-> [n \in Nodes |-> NULL]]

-----------------------------------------------------------------------------
(* S holds everything a walk along Next from the head of s can meet.       *)
Closed(L, s, S) ==
  /\ L.head[s] # NULL => L.head[s] \in S
  /\ \A n \in S : L.next[n] # NULL => L.next[n] \in S

(* The records a walk along Next from the head of s meets.                 *)
Linked(L, s) ==
  LET closed == {S \in SUBSET Nodes : Closed(L, s, S)}
  IN  {n \in Nodes : \A S \in closed : n \in S}

(* The new subscriber goes in front (end of UpnpTryToSubscribe).           *)
InsertHead(L, s, n) ==
  LET old == L.head[s]
  IN  [head  |-> [L.head  EXCEPT ![s] = n],
       total |-> [L.total EXCEPT ![s] = @ + 1],
       next  |-> [L.next  EXCEPT ![n] = old],
       prev  |-> [m \in Nodes |-> IF m = n THEN NULL
                                  ELSE IF m = old THEN n ELSE L.prev[m]]]

(* Variant: the successor's Previous is left as it was.                    *)
UnlinkForwardOnly(L, s, n) ==
  [head  |-> [L.head  EXCEPT ![s] = IF @ = n THEN L.next[n] ELSE @],
   total |-> [L.total EXCEPT ![s] = @ - 1],
   next  |-> [m \in Nodes |-> IF m = n THEN NULL
                              ELSE IF L.next[m] = n THEN L.next[n] ELSE L.next[m]],
   prev  |-> [L.prev EXCEPT ![n] = NULL]]

(* UpnpRemoveSubscriberInfo, once its walk has found n in the list of s:   *)
(* *ptr = info->Next, then the successor's Previous, then the Next of the  *)
(* record that Previous names, then info's own pointers and the counter.   *)
Unlink(L, s, n) ==
  LET succ  == L.next[n]
      pred  == L.prev[n]
      next1 == [m \in Nodes |-> IF L.next[m] = n /\ m \in Linked(L, s)
                                THEN succ ELSE L.next[m]]
      next2 == [m \in Nodes |-> IF succ # NULL /\ m = pred
                                THEN succ ELSE next1[m]]
  IN  [head  |-> [L.head  EXCEPT ![s] = IF @ = n THEN succ ELSE @],
       total |-> [L.total EXCEPT ![s] = @ - 1],
       next  |-> [m \in Nodes |-> IF m = n THEN NULL ELSE next2[m]],
       prev  |-> [m \in Nodes |-> IF m = n THEN NULL
                                  ELSE IF m = succ THEN pred ELSE L.prev[m]]]

(* The bad-data exit of UpnpRemoveSubscriberInfo as far as the counter can *)
(* take it: no list grows to MAX_UPNP_SUBSCRIBERS.                         *)
BadCount(L, s) == L.total[s] <= 0

(* UpnpRemoveSubscriberInfo for the SID of n, a record of the list of s:   *)
(* the lists it leaves and the record it returns.  On bad data that is the *)
(* head, and nothing is unlinked.                                          *)
Remove(L, s, n) == IF BadCount(L, s) THEN L ELSE Unlink(L, s, n)
Removed(L, s, n) == IF BadCount(L, s) THEN L.head[s] ELSE n

(* The memset of UpnpDestructSubscriberInfo: the freed record's pointers.  *)
Scrub(L, n) == [L EXCEPT !.next[n] = NULL, !.prev[n] = NULL]

-----------------------------------------------------------------------------
(* UpnpExpireSubscriberInfo walks Previous up to a record that has none;   *)
(* it never ends when no record on the way has a null Previous.            *)
Ancestors(L, n) ==
  LET closed == {S \in SUBSET Nodes :
                   n \in S /\ \A k \in S : L.prev[k] # NULL => L.prev[k] \in S}
  IN  {m \in Nodes : \A S \in closed : m \in S}

ExpireSpins(L, n) == \A m \in Ancestors(L, n) : L.prev[m] # NULL

(* Neither a list's head nor behind another record: the "Error" branch.    *)
ExpireRefuses(L, n) == L.prev[n] = NULL /\ \A s \in Services : L.head[s] # n

(* The counter of the list whose head ends the walk, then the unlinking.   *)
(* When n is the head, its successor's Previous becomes the new head, that *)
(* is the successor itself.                                                *)
Expire(L, n) ==
  LET root == CHOOSE m \in Ancestors(L, n) : L.prev[m] = NULL
      succ == L.next[n]
      pred == L.prev[n]
  IN  [head  |-> [s \in Services |-> IF pred = NULL /\ L.head[s] = n
                                     THEN succ ELSE L.head[s]],
       total |-> [s \in Services |-> IF L.head[s] = root
                                     THEN L.total[s] - 1 ELSE L.total[s]],
       next  |-> [m \in Nodes |-> IF m = pred THEN succ ELSE L.next[m]],
       prev  |-> [m \in Nodes |-> IF m # succ \/ ExpireRefuses(L, n) THEN L.prev[m]
                                  ELSE IF pred # NULL THEN pred ELSE succ]]

-----------------------------------------------------------------------------
(* What the list operations rely on and must restore: Previous undoes Next *)
(* on every linked record, the head has no Previous, the two lists share   *)
(* no record, and each counter is the length of its list.                  *)
HeadHasNoPrevious(L) ==
  \A s \in Services : L.head[s] # NULL => L.prev[L.head[s]] = NULL

PreviousUndoesNext(L) ==
  \A s \in Services : \A n \in Linked(L, s) :
    /\ L.next[n] # NULL => L.prev[L.next[n]] = n
    /\ L.prev[n] # NULL => L.prev[n] \in Linked(L, s) /\ L.next[L.prev[n]] = n

ListsDisjoint(L) ==
  \A s, r \in Services : s # r => Linked(L, s) \cap Linked(L, r) = {}

TotalsCount(L) ==
  \A s \in Services : L.total[s] = Cardinality(Linked(L, s))

WellFormed(L) ==
  /\ HeadHasNoPrevious(L)
  /\ PreviousUndoesNext(L)
  /\ ListsDisjoint(L)
  /\ TotalsCount(L)
=============================================================================
