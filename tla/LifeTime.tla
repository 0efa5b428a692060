------------------------------ MODULE LifeTime ------------------------------
(***************************************************************************)
(* The timer list of an ILibLifeTime object (ILibParsers.c): a sequence of *)
(* struct LifeTimeMonitorData, soonest first.  Ticks are kept relative to  *)
(* gettimeofday, as the code only compares and subtracts them: a timer of  *)
(* tick 3 is due in three seconds, one of tick -1 was due a second ago.    *)
(***************************************************************************)
EXTENDS Integers, SequencesExt

Timer(data, tick) == [data |-> data, tick |-> tick]

(* Variant: the comparison is the wrong way round.                         *)
InsertBackwards(q, t) ==
  LET k == SelectInSeq(q, LAMBDA u : t.tick >= u.tick)
  IN  IF k = 0 THEN Append(q, t) ELSE InsertAt(q, k, t)

(* The loop of ILibLifeTime_Add: before the first timer that is not        *)
(* sooner, so in front of the timers of its own tick.                      *)
Insert(q, t) ==
  LET k == SelectInSeq(q, LAMBDA u : t.tick <= u.tick)
  IN  IF k = 0 THEN Append(q, t) ELSE InsertAt(q, k, t)

(* ILibLifeTime_Add unblocks the chain when the new timer is the first.    *)
BecomesFirst(q, t) == q = <<>> \/ t.tick <= q[1].tick

(* How many timers ILibLifeTime_Check splices off the front.               *)
DueCount(q) ==
  LET k == SelectInSeq(q, LAMBDA u : u.tick > 0)
  IN  IF k = 0 THEN Len(q) ELSE k - 1

Due(q) == SubSeq(q, 1, DueCount(q))

NotDue(q) == SubSeq(q, DueCount(q) + 1, Len(q))

(* ILibLifeTime_Remove ends after the first timer of data: unlinking it    *)
(* clears the Next pointer the loop goes on with.                          *)
RemoveData(q, data) == RemoveFirstMatch(q, LAMBDA u : u.data = data)

(* A second goes by.                                                       *)
Aged(q) == [i \in DOMAIN q |-> [q[i] EXCEPT !.tick = @ - 1]]

SoonestFirst(q) ==
  \A i, j \in DOMAIN q : i < j => q[i].tick <= q[j].tick

OneTimerEach(q) ==
  \A i, j \in DOMAIN q : q[i].data = q[j].data => i = j
=============================================================================
