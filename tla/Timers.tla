------------------------------- MODULE Timers -------------------------------
(***************************************************************************)
(* What the timers of the chain promise, without lists, splices, select or *)
(* wake-ups: a timer is called back once, never before its time, never     *)
(* more than MaxLate seconds after it, and is not lost; only a handler     *)
(* sets or cancels one; all of them end when the chain does.               *)
(***************************************************************************)
EXTENDS Integers

CONSTANT MaxLate

VARIABLES
  pending,    (* the set of [key, tick], tick relative to the clock        *)
  phase       (* "waiting", "calling" timers, "handling" events, "closed"  *)

tvars == <<pending, phase>>

Init ==
  /\ \A x \in pending : x.tick >= 0
  /\ phase = "waiting"

Proceed ==
  /\ phase # "closed" /\ phase' # "closed"
  /\ UNCHANGED pending

(* A timer rings; a periodic one is set anew by its own callback.          *)
Ring ==
  /\ phase = "calling" /\ phase' # "closed"
  /\ \E x \in pending :
       /\ x.tick <= 0
       /\ \/ pending' = pending \ {x}
          \/ \E y \in pending' : /\ y.key = x.key /\ y.tick > 0
                                 /\ pending' = (pending \ {x}) \cup {y}

Set ==
  /\ phase = "handling" /\ phase' # "closed"
  /\ \E x \in pending' : /\ x.tick >= 0
                         /\ \A y \in pending : y.key # x.key
                         /\ pending' = pending \cup {x}

Cancel ==
  /\ phase = "handling" /\ phase' # "closed"
  /\ \E x \in pending : pending' = pending \ {x}

Pass ==
  /\ phase # "closed" /\ phase' = phase
  /\ \A x \in pending : x.tick > -MaxLate
  /\ pending' = {[x EXCEPT !.tick = @ - 1] : x \in pending}

Close ==
  /\ phase # "closed" /\ phase' = "closed"
  /\ pending' = {}

Next == Proceed \/ Ring \/ Set \/ Cancel \/ Pass \/ Close

Spec == Init /\ [][Next]_tvars
=============================================================================
