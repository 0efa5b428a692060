---------------------------- MODULE Subscriptions ----------------------------
(***************************************************************************)
(* What GENA eventing promises a subscriber, without records, pointers or  *)
(* reference counts: a subscription is a SID with the second its lease     *)
(* runs to.  A SID is granted once, is never granted again, and ends only  *)
(* because its owner cancels it, because its lease is found to have run    *)
(* out during a walk over the subscriptions, or because the stack closes   *)
(* or is lost; a service never has more than MaxSubscribers of them.       *)
(***************************************************************************)
EXTENDS Integers, FiniteSets

CONSTANTS Services, MaxSubscribers

VARIABLES
  active,     (* per service, the set of [sid, until] records              *)
  issued,     (* number of SIDs spent so far                               *)
  time,       (* the clock, in seconds                                     *)
  phase       (* "serving" requests, "walking" the subscriptions,          *)
              (* "closed" or "lost"                                        *)

avars == <<active, issued, time, phase>>

Init ==
  /\ active = [s \in Services |-> {}]
  /\ issued = 0
  /\ time = 0
  /\ phase = "serving"

BeginWalk ==
  /\ phase = "serving" /\ phase' = "walking"
  /\ UNCHANGED <<active, issued, time>>

(* The walk drops subscriptions whose lease has run out, and no others.    *)
Lapse(s) ==
  /\ phase = "walking"
  /\ UNCHANGED <<issued, time, phase>>
  /\ \E a \in active[s] :
       a.until < time /\ active' = [active EXCEPT ![s] = @ \ {a}]

(* A walk made for a new subscriber ends with a grant or a refusal, which  *)
(* may spend a SID.                                                        *)
Grant(s) ==
  /\ phase = "walking" /\ phase' = "serving"
  /\ issued' = issued + 1 /\ time' = time
  /\ Cardinality(active[s]) < MaxSubscribers[s]
  /\ \E until \in {b.until : b \in active'[s]} :
       /\ until >= time
       /\ active' = [active EXCEPT ![s] = @ \cup {[sid |-> issued + 1, until |-> until]}]

EndWalk ==
  /\ phase = "walking" /\ phase' = "serving"
  /\ issued' \in {issued, issued + 1}
  /\ UNCHANGED <<active, time>>

Extend(s) ==
  /\ phase = "serving"
  /\ UNCHANGED <<issued, time, phase>>
  /\ \E a \in active[s], b \in active'[s] :
       /\ a.sid = b.sid /\ b.until >= time
       /\ active' = [active EXCEPT ![s] = (@ \ {a}) \cup {b}]

Cancel(s) ==
  /\ phase = "serving"
  /\ UNCHANGED <<issued, time, phase>>
  /\ \E a \in active[s] : active' = [active EXCEPT ![s] = @ \ {a}]

Close ==
  /\ phase = "serving" /\ phase' = "closed"
  /\ active' = [s \in Services |-> {}]
  /\ UNCHANGED <<issued, time>>

(* The stack can no longer tell what it holds: every subscription is lost. *)
Lose ==
  /\ phase \in {"serving", "walking"} /\ phase' = "lost"
  /\ active' = [s \in Services |-> {}]
  /\ UNCHANGED <<issued, time>>

Pass ==
  /\ phase \in {"serving", "walking"}
  /\ time' = time + 1
  /\ UNCHANGED <<active, issued, phase>>

Next ==
  \/ BeginWalk \/ EndWalk \/ Close \/ Lose \/ Pass
  \/ \E s \in Services : Lapse(s) \/ Grant(s) \/ Extend(s) \/ Cancel(s)

Spec == Init /\ [][Next]_avars
=============================================================================
