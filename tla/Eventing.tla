------------------------------ MODULE Eventing ------------------------------
(***************************************************************************)
(* GENA eventing of UpnpMicroStack.c: subscriptions with leases, reference *)
(* counted subscriber records and the event notifications the web client   *)
(* has in flight.  EventLock makes each handler atomic except where it     *)
(* loops over a list reading the clock, which `handler' models one record  *)
(* at a time.  Every HTTP handler and every web client callback runs on    *)
(* the chain thread.                                                       *)
(***************************************************************************)
EXTENDS SubscriberList

CONSTANTS
  MaxSubscribers,       (* subscriptions per service (10 for each)         *)
  MaxTimeout,           (* longest lease SUBSCRIBE grants (7200 s)         *)
  Timeouts,             (* lease lengths clients ask for                   *)
  RuntimeStateChanges,  (* services whose UpnpSetState_* an application    *)
                        (* calls while there are subscribers; tv-now.c     *)
                        (* calls them only before the chain starts         *)
  MaxSid, MaxSeq, MaxNow  (* bounds: SIDs handed out, SEQ values, seconds  *)

ASSUME EventingAssumption ==
  /\ MaxSubscribers \in [Services -> Nat] /\ MaxTimeout \in Nat
  /\ Timeouts \subseteq Nat /\ RuntimeStateChanges \subseteq Services
  /\ MaxSid \in Nat /\ MaxSeq \in Nat /\ MaxNow \in Nat

VARIABLES
  lists,      (* Head, Number, Next and Previous: see SubscriberList       *)
  info,       (* the other fields of each struct SubscriberInfo            *)
  lastSid,    (* UpnpDataObject.SID                                        *)
  events,     (* the struct SubscriberContainers the web client holds      *)
  handler,    (* the list walk that holds EventLock, if any                *)
  now,        (* tv_sec of gettimeofday                                    *)
  mode,       (* "running", or how the process or the stack ended          *)
  misdirected (* history: references to a record that UNSUBSCRIBEs with    *)
              (* bad data have dropped                                     *)

vars == <<lists, info, lastSid, events, handler, now, mode, misdirected>>

Info == [alive : BOOLEAN, sid : Nat, seq : Nat, ref : Int, renewBy : Nat]

(* What UpnpDestructSubscriberInfo leaves behind, and the record a refused *)
(* SUBSCRIBE forgets: allocated, without a SID, in no list.                *)
Freed == [alive |-> FALSE, sid |-> 0, seq |-> 0, ref |-> -1, renewBy |-> 0]
Forgotten == [alive |-> TRUE, sid |-> 0, seq |-> 0, ref |-> 0, renewBy |-> 0]

(* node is the container's pointer; sid and seq are what the NOTIFY says;  *)
(* a container is Disposing once its outcome is not "pending".             *)
Event == [node : Nodes, sid : Nat, seq : Nat,
          outcome : {"pending", "delivered", "failed"}]

Idle == [op |-> "idle", svc |-> NULL, timeout |-> 0, cursor |-> NULL]

Handler == [op : {"idle", "subscribe", "sendEvent"}, svc : Services \cup {NULL},
            timeout : Nat, cursor : Pointer]

(* "dangling": a destructed record is still on a list or behind a          *)
(* notification in flight.  The next use of it reads freed memory, which   *)
(* has no defined outcome, so the model stops there.                       *)
Modes == {"running", "crashed", "hung", "destroyed", "dangling"}

Subscribers(s) == Linked(lists, s)

(* The notifications among E that will be told to UpnpSendEventSink and    *)
(* then drop a reference to n.                                             *)
Awaited(E, n) == {e \in E : e.node = n /\ e.outcome = "pending"}

Pending(n) == Awaited(events, n)

LockFree == mode = "running" /\ handler = Idle

(* Variant: a lease ends at its last second instead of after it.           *)
ExpiredEarly(n) == info[n].renewBy <= now

(* UpnpSubscriptionExpired *)
Expired(n) == info[n].renewBy < now

StillUsed(L, E, n) == (\E s \in Services : n \in Linked(L, s)) \/ Awaited(E, n) # {}

(* UpnpDestructSubscriberInfo, given the lists as the caller leaves them;  *)
(* the caller assigns the notifications first.                             *)
Destruct(L, n) ==
  /\ lists' = Scrub(L, n)
  /\ info' = [info EXCEPT ![n] = Freed]
  /\ mode' = IF StillUsed(L, events', n) THEN "dangling" ELSE mode

(* Variant: looks at the count before it is decremented.                   *)
ReleaseLooksFirst(L, n) ==
  IF info[n].ref = 0
  THEN Destruct(L, n)
  ELSE /\ lists' = L /\ mode' = mode
       /\ info' = [info EXCEPT ![n].ref = @ - 1]

(* Drop one reference; the last one destructs the record.                  *)
Release(L, n) ==
  IF info[n].ref = 1
  THEN Destruct(L, n)
  ELSE /\ lists' = L /\ mode' = mode
       /\ info' = [info EXCEPT ![n].ref = @ - 1]

(* The container UpnpSendEvent_Body hands to the web client.               *)
NewEvent(n, sid, seq) ==
  [node |-> n, sid |-> sid, seq |-> seq, outcome |-> "pending"]

-----------------------------------------------------------------------------
Init ==
  /\ lists = EmptyLists
  /\ info = [n \in Nodes |-> Freed]
  /\ lastSid = 0
  /\ events = {}
  /\ handler = Idle
  /\ now = 0
  /\ mode = "running"
  /\ misdirected = [n \in Nodes |-> 0]

(* UpnpSubscribeEvents clamps the lease, UpnpTryToSubscribe starts at the  *)
(* head.  A Timeout that does not parse leaves TimeoutVal unset: any value *)
(* of Timeouts.                                                            *)
BeginSubscribe(s, t) ==
  /\ LockFree
  /\ handler' = [op      |-> "subscribe",
                 svc     |-> s,
                 timeout |-> IF t > MaxTimeout THEN MaxTimeout ELSE t,
                 cursor  |-> lists.head[s]]
  /\ UNCHANGED <<lists, info, lastSid, events, now, mode, misdirected>>

(* One turn of the purge loop: the record UpnpRemoveSubscriberInfo returns *)
(* for the SID of an expired subscriber is destructed, whatever its        *)
(* reference count.                                                        *)
PurgeStep ==
  LET n == handler.cursor
      s == handler.svc
  IN  /\ mode = "running" /\ handler.op = "subscribe" /\ n # NULL
      /\ handler' = [handler EXCEPT !.cursor = lists.next[n]]
      /\ UNCHANGED <<lastSid, events, now, misdirected>>
      /\ IF Expired(n)
         THEN Destruct(Remove(lists, s, n), Removed(lists, s, n))
         ELSE UNCHANGED <<lists, info, mode>>

(* Variant: the limit is tested with <= instead of <.                      *)
AdmitOneTooMany(n) ==
  LET s == handler.svc
  IN  /\ mode = "running" /\ handler.op = "subscribe" /\ handler.cursor = NULL
      /\ lists.total[s] <= MaxSubscribers[s]
      /\ ~info[n].alive /\ lastSid < MaxSid
      /\ lastSid' = lastSid + 1
      /\ lists' = InsertHead(lists, s, n)
      /\ info' = [info EXCEPT ![n] =
                    [alive |-> TRUE, sid |-> lastSid + 1, seq |-> 1, ref |-> 2,
                     renewBy |-> now + handler.timeout]]
      /\ events' = events \cup {NewEvent(n, lastSid + 1, 0)}
      /\ handler' = Idle
      /\ misdirected' = [misdirected EXCEPT ![n] = 0]
      /\ UNCHANGED <<now, mode>>

(* Room left and a usable callback URL: the record is linked in front and  *)
(* the initial event is sent with it (SEQ 0, a second reference).  The     *)
(* model is bounded here: it has no more SIDs, or no more addresses.       *)
Admit(n) ==
  LET s == handler.svc
  IN  /\ mode = "running" /\ handler.op = "subscribe" /\ handler.cursor = NULL
      /\ lists.total[s] < MaxSubscribers[s]
      /\ ~info[n].alive /\ lastSid < MaxSid
      /\ lastSid' = lastSid + 1
      /\ lists' = InsertHead(lists, s, n)
      /\ info' = [info EXCEPT ![n] =
                    [alive |-> TRUE, sid |-> lastSid + 1, seq |-> 1, ref |-> 2,
                     renewBy |-> now + handler.timeout]]
      /\ events' = events \cup {NewEvent(n, lastSid + 1, 0)}
      /\ handler' = Idle
      /\ misdirected' = [misdirected EXCEPT ![n] = 0]
      /\ UNCHANGED <<now, mode>>

(* No address in the callback URL: the SID is spent and nothing is linked, *)
(* but the record allocated for it is not given back.  When addresses were *)
(* there and none parsed, the results of the last one are freed twice,     *)
(* which the process may not survive.                                      *)
RefuseCallback(n) ==
  /\ mode = "running" /\ handler.op = "subscribe" /\ handler.cursor = NULL
  /\ lists.total[handler.svc] < MaxSubscribers[handler.svc]
  /\ ~info[n].alive /\ lastSid < MaxSid
  /\ lastSid' = lastSid + 1
  /\ info' = [info EXCEPT ![n] = Forgotten]
  /\ handler' = Idle
  /\ mode' \in {"running", "crashed"}
  /\ misdirected' = [misdirected EXCEPT ![n] = 0]
  /\ UNCHANGED <<lists, events, now>>

(* "412 Too Many Subscribers" *)
RefuseFull ==
  /\ mode = "running" /\ handler.op = "subscribe" /\ handler.cursor = NULL
  /\ lists.total[handler.svc] >= MaxSubscribers[handler.svc]
  /\ handler' = Idle
  /\ UNCHANGED <<lists, info, lastSid, events, now, mode, misdirected>>

(* UpnpRenewEvents: no clamp, and an expired lease can still be renewed.   *)
Renew(s, n, t) ==
  /\ LockFree
  /\ n \in Subscribers(s)
  /\ info' = [info EXCEPT ![n].renewBy = now + t]
  /\ UNCHANGED <<lists, lastSid, events, handler, now, mode, misdirected>>

(* UpnpProcessUNSUBSCRIBE for a SID found in the list of s.  A SID of 1 to *)
(* 64 characters that is not found, and a request without one, get a 412   *)
(* and change nothing.                                                     *)
Unsubscribe(s, n) ==
  /\ LockFree
  /\ n \in Subscribers(s) /\ ~BadCount(lists, s)
  /\ UNCHANGED <<lastSid, events, handler, now, misdirected>>
  /\ Release(Unlink(lists, s, n), n)

(* UpnpProcessUNSUBSCRIBE for an empty SID or one of more than 64          *)
(* characters, or with a counter out of range: UpnpRemoveSubscriberInfo    *)
(* says "BAD DATA--ignoring" and returns the head, still linked; it loses  *)
(* a reference, and the client is told 200.  With an empty list, 412.      *)
UnsubscribeBadData(s) ==
  LET n == lists.head[s]
  IN  /\ LockFree
      /\ n # NULL
      /\ misdirected' = [misdirected EXCEPT ![n] = @ + 1]
      /\ UNCHANGED <<lastSid, events, handler, now>>
      /\ Release(lists, n)

(* Variant: the Disposing flag is not looked at.                           *)
EventDoneEveryTime(e, ok) ==
  /\ LockFree
  /\ e \in events
  /\ events' = (events \ {e}) \cup
               {[e EXCEPT !.outcome = IF ok THEN "delivered" ELSE "failed"]}
  /\ Release(lists, e.node)
  /\ UNCHANGED <<lastSid, handler, now, misdirected>>

(* The first completion the web client reports for a container.  ok is     *)
(* false when there is no response header: then the container itself is    *)
(* passed to UpnpExpireSubscriberInfo as if it were a subscriber.  What    *)
(* that reads past the container is either no list's head, so nothing      *)
(* happens, or a pointer that cannot be followed.                          *)
EventDone(e, ok) ==
  LET n == e.node
  IN  /\ LockFree
      /\ e \in events /\ e.outcome = "pending"
      /\ events' = (events \ {e}) \cup
                   {[e EXCEPT !.outcome = IF ok THEN "delivered" ELSE "failed"]}
      /\ UNCHANGED <<lastSid, handler, now, misdirected>>
      /\ \/ Release(lists, n)
         \/ /\ ~ok /\ info[n].ref # 1
            /\ mode' = "crashed" /\ lists' = lists
            /\ info' = [info EXCEPT ![n].ref = @ - 1]

(* A later report of the same request finds Disposing set and does         *)
(* nothing; the web client then frees the container (freeUser1).           *)
EventDoneAgain(e) ==
  /\ LockFree
  /\ e \in events /\ e.outcome # "pending"
  /\ events' = events \ {e}
  /\ UNCHANGED <<lists, info, lastSid, handler, now, mode, misdirected>>

(* UpnpSendEvent for a state variable of s.  The bound is on SEQ.          *)
BeginSendEvent(s) ==
  /\ s \in RuntimeStateChanges
  /\ LockFree
  /\ \A n \in Subscribers(s) : info[n].seq < MaxSeq
  /\ handler' = [Idle EXCEPT !.op = "sendEvent", !.svc = s, !.cursor = lists.head[s]]
  /\ UNCHANGED <<lists, info, lastSid, events, now, mode, misdirected>>

(* Variant: no reference is taken for the container.                       *)
SendEventStepUncounted ==
  LET n == handler.cursor
  IN  /\ mode = "running" /\ handler.op = "sendEvent" /\ n # NULL
      /\ ~Expired(n)
      /\ handler' = [handler EXCEPT !.cursor = lists.next[n]]
      /\ info' = [info EXCEPT ![n].seq = @ + 1]
      /\ events' = events \cup {NewEvent(n, info[n].sid, info[n].seq)}
      /\ UNCHANGED <<lists, lastSid, now, mode, misdirected>>

(* A subscriber whose lease runs is sent the event.                        *)
SendEventStep ==
  LET n == handler.cursor
  IN  /\ mode = "running" /\ handler.op = "sendEvent" /\ n # NULL
      /\ ~Expired(n)
      /\ handler' = [handler EXCEPT !.cursor = lists.next[n]]
      /\ info' = [info EXCEPT ![n].seq = @ + 1, ![n].ref = @ + 1]
      /\ events' = events \cup {NewEvent(n, info[n].sid, info[n].seq)}
      /\ UNCHANGED <<lists, lastSid, now, mode, misdirected>>

(* A subscriber whose lease ran out goes through UpnpExpireSubscriberInfo. *)
SendEventExpire ==
  LET n == handler.cursor
  IN  /\ mode = "running" /\ handler.op = "sendEvent" /\ n # NULL
      /\ Expired(n)
      /\ UNCHANGED <<lastSid, events, now, misdirected>>
      /\ IF ExpireSpins(lists, n)
         THEN mode' = "hung" /\ UNCHANGED <<lists, info, handler>>
         ELSE /\ handler' = [handler EXCEPT !.cursor = lists.next[n]]
              /\ IF ExpireRefuses(lists, n)
                 THEN lists' = Expire(lists, n) /\ UNCHANGED <<info, mode>>
                 ELSE Release(Expire(lists, n), n)

EndSendEvent ==
  /\ mode = "running" /\ handler.op = "sendEvent" /\ handler.cursor = NULL
  /\ handler' = Idle
  /\ UNCHANGED <<lists, info, lastSid, events, now, mode, misdirected>>

(* UpnpDestroyMicroStack frees what both lists hold.                       *)
DestroyMicroStack ==
  LET gone == UNION {Subscribers(s) : s \in Services}
  IN  /\ LockFree
      /\ mode' = "destroyed"
      /\ lists' = EmptyLists
      /\ info' = [n \in Nodes |-> IF n \in gone THEN Freed ELSE info[n]]
      /\ UNCHANGED <<lastSid, events, handler, now, misdirected>>

(* Nothing ties a notification to the lease it was sent under: the web     *)
(* client waits for an answer as long as the connection lasts.             *)
Tick ==
  /\ mode = "running" /\ now < MaxNow
  /\ now' = now + 1
  /\ UNCHANGED <<lists, info, lastSid, events, handler, mode, misdirected>>

SubscribeSteps ==
  PurgeStep \/ (\E n \in Nodes : Admit(n) \/ RefuseCallback(n)) \/ RefuseFull

SendEventSteps == SendEventStep \/ SendEventExpire \/ EndSendEvent

Next ==
  \/ \E s \in Services, t \in Timeouts : BeginSubscribe(s, t)
  \/ SubscribeSteps
  \/ \E s \in Services, n \in Nodes, t \in Timeouts : Renew(s, n, t)
  \/ \E s \in Services, n \in Nodes : Unsubscribe(s, n)
  \/ \E s \in Services : UnsubscribeBadData(s)
  \/ \E e \in events, ok \in BOOLEAN : EventDone(e, ok)
  \/ \E e \in events : EventDoneAgain(e)
  \/ \E s \in Services : BeginSendEvent(s)
  \/ SendEventSteps
  \/ DestroyMicroStack
  \/ Tick

Spec == Init /\ [][Next]_vars
-----------------------------------------------------------------------------
(* Every variable keeps its type, no list exceeds its limit.               *)
TypeOK ==
  /\ lists \in ListState
  /\ \A s \in Services : lists.total[s] \in 0..MaxSubscribers[s]
  /\ info \in [Nodes -> Info]
  /\ lastSid \in Nat
  /\ events \subseteq Event
  /\ handler \in Handler
  /\ now \in Nat
  /\ mode \in Modes
  /\ misdirected \in [Nodes -> Nat]

(* The pointers and the counters of UpnpDataObject agree at every moment   *)
(* EventLock is free or a walk is between two records, and only records    *)
(* with a SID are on a list, until a destructed record is left in use.     *)
ListsSound ==
  mode # "dangling" =>
    /\ WellFormed(lists)
    /\ \A s \in Services : \A n \in Subscribers(s) :
         info[n].alive /\ info[n].sid # 0

(* RefCount of a subscriber is one for being on a list plus one for every  *)
(* notification in flight, less what UNSUBSCRIBEs with bad data took:      *)
(* UpnpTryToSubscribe, UpnpSendEvent_Body, UpnpSendEventSink,              *)
(* UpnpExpireSubscriberInfo and UpnpProcessUNSUBSCRIBE keep the account.   *)
RefCountExact ==
  mode # "dangling" =>
    \A n \in Nodes : info[n].alive /\ info[n].sid # 0 =>
      info[n].ref + misdirected[n] =
        Cardinality(Pending(n))
        + (IF \E s \in Services : n \in Subscribers(s) THEN 1 ELSE 0)

(* A record leaks in one way only, the refused callback: every other live  *)
(* record is reachable from a list or from the web client.                 *)
OnlyRefusedLeak ==
  mode # "dangling" =>
    \A n \in Nodes : info[n].alive /\ info[n].sid # 0 =>
      \/ \E s \in Services : n \in Subscribers(s)
      \/ Pending(n) # {}

(* The head that an UNSUBSCRIBE with bad data takes a reference from.      *)
Misused(n) ==
  \/ misdirected[n] > 0
  \/ \E s \in Services : lists.head[s] = n /\ UnsubscribeBadData(s)

(* The subscriber the purge of a SUBSCRIBE has come to lapsed with a       *)
(* notification in flight.                                                 *)
PurgedPending(n) ==
  /\ PurgeStep /\ handler.cursor = n
  /\ Expired(n) /\ Pending(n) # {}

(* A destructed record is left on a list or behind a notification in two   *)
(* ways only: it had lost a reference to an UNSUBSCRIBE with bad data, or  *)
(* the purge took it.  Renewal, UNSUBSCRIBE, delivery, failure and state   *)
(* changes in any order never do.                                          *)
DanglesOnlyTwoWays ==
  [][mode = "running" /\ mode' = "dangling" =>
       \E n \in Nodes : /\ info[n].alive /\ ~info[n].alive'
                        /\ Misused(n) \/ PurgedPending(n)]_vars

(* UpnpDestructSubscriberInfo knows of a "random segfault due to premature *)
(* destruction", which is to be avoided: without bad data no notification  *)
(* in flight points to a destructed record.                                *)
NoPrematureDestruction ==
  mode # "destroyed" =>
    \A e \in events : e.outcome = "pending" =>
      info[e.node].alive \/ misdirected[e.node] > 0

(* UpnpRemoveSubscriberInfo says "BAD DATA--ignoring", so that such a       *)
(* request costs nobody a record: none is destructed while on a list.      *)
ListedRecordsLive ==
  \A s \in Services : \A n \in Subscribers(s) : info[n].alive

(* The comment in UpnpSendEventSink: "Could not send Event, so unsubscribe *)
(* the subscriber".                                                        *)
FailedDeliveryUnsubscribes ==
  mode = "running" =>
    \A e \in events : e.outcome = "failed" =>
      \A s \in Services : \A n \in Subscribers(s) : info[n].sid # e.sid

(* The comments "This is not the Head" and "This is the Head" in           *)
(* UpnpExpireSubscriberInfo tell the two cases apart by Previous alone.    *)
PreviousTellsTheHead == HeadHasNoPrevious(lists)

(* The subscriptions the lists stand for.                                  *)
Active(s) ==
  IF mode = "dangling" THEN {}
  ELSE {[sid |-> info[n].sid, until |-> info[n].renewBy] : n \in Subscribers(s)}

Promise == INSTANCE Subscriptions WITH
  active <- [s \in Services |-> Active(s)],
  issued <- lastSid, time <- now,
  phase <- IF mode = "destroyed" THEN "closed"
           ELSE IF mode = "dangling" THEN "lost"
           ELSE IF handler = Idle THEN "serving" ELSE "walking"

(* The pointer level keeps the promise of module Subscriptions: until a    *)
(* destructed record is left in use, nobody's subscription ends early, is  *)
(* revived, duplicated or moved between services.                          *)
KeepsPromise == Promise!Spec
=============================================================================
