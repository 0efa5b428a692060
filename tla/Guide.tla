------------------------------- MODULE Guide --------------------------------
(***************************************************************************)
(* The channel list and the programme list of each channel                 *)
(* (dvbteeserver.cpp): std::list objects that the tuner thread fills and   *)
(* that the content directory walks with iterators.  A walk returns the    *)
(* list it leaves, because it erases the programmes that are over, and the *)
(* programme its iterator points to.                                       *)
(***************************************************************************)
EXTENDS Integers, Sequences, FiniteSets, SequencesExt

CONSTANTS
  Channels,     (* the channels of the broadcast                           *)
  Number,       (* their rank in the order of channelNr                    *)
  Events,       (* the programmes of the broadcast: positive numbers       *)
  Programme,    (* struct program_info of each, with its channel           *)
  DayLength     (* 24 * 60 * 60                                            *)

Fields == [channel: Channels, id: Nat, start: Nat, length: Nat]

ASSUME GuideAssumption ==
  /\ Number \in [Channels -> Nat]
  /\ Events \subseteq Nat \ {0} /\ Programme \in [Events -> Fields]
  /\ DayLength \in Nat \ {0}

NoEvent == 0

Over(e, t) == Programme[e].start + Programme[e].length <= t

DayOf(e) == Programme[e].start \div DayLength

insert_sorted(list, c) ==
  LET after == SelectInSeq(list, LAMBDA d : Number[d] > Number[c])
  IN IF after = 0 THEN Append(list, c) ELSE InsertAt(list, after, c)

(* Variant: a programme with the same start stays.                         *)
insert_sorted_epg_keeps(list, e, t) ==
  LET stop == SelectInSeq(list, LAMBDA q : /\ ~Over(q, t)
                                           /\ Programme[q].start > Programme[e].start)
      last == IF stop = 0 THEN Len(list) ELSE stop - 1
  IN SelectSeq(SubSeq(list, 1, last), LAMBDA q : ~Over(q, t))
       \o <<e>> \o SubSeq(list, last + 1, Len(list))

(* Variant: whatever starts no later goes.                                 *)
insert_sorted_epg_trims(list, e, t) ==
  <<e>> \o SelectSeq(list, LAMBDA q : Programme[q].start > Programme[e].start)

(* list.erase of every element but those at the positions in I, all at once. *)
Kept(list, I) ==
  [n \in 1..Cardinality(I) |-> list[CHOOSE i \in I : Cardinality({j \in I : j <= i}) = n]]

(* The new programme replaces one with the same start; what is over is     *)
(* erased only as far as the loop gets.                                    *)
insert_sorted_epg(list, e, t) ==
  LET stop == SelectInSeq(list, LAMBDA q : /\ ~Over(q, t)
                                           /\ Programme[q].start > Programme[e].start)
      last == IF stop = 0 THEN Len(list) ELSE stop - 1
  IN Kept(list, {i \in 1..last : /\ ~Over(list[i], t)
                                 /\ Programme[list[i]].start # Programme[e].start})
       \o <<e>> \o SubSeq(list, last + 1, Len(list))

(* The loop the walks share: from a position on, erase what is over, stop  *)
(* at the first other programme that is sought.                            *)
Sweep(list, from, t, sought) ==
  LET hit == SelectInSubSeq(list, from, Len(list), LAMBDA q : ~Over(q, t) /\ q \in sought)
      last == IF hit = 0 THEN Len(list) ELSE hit - 1
  IN [list |-> Kept(list, {i \in DOMAIN list : Over(list[i], t) => i \notin from..last}),
      at   |-> IF hit = 0 THEN NoEvent ELSE list[hit]]

Position(list, e) == SelectInSeq(list, LAMBDA q : q = e)

(* firstEpgDay: the list, the position of its iterator and the time.       *)
DayWalks == [list : Seq(Events), i : Nat \ {0}, t : Nat]

(* Only a programme that is on now is found.                               *)
OnNow(w) == ~Over(w.list[w.i], w.t) /\ Programme[w.list[w.i]].start <= w.t

(* erase returns the programme that follows, and the for loop steps over   *)
(* it; after the last one it steps from end() to begin(), as the list of   *)
(* libstdc++ is a ring.                                                    *)
StepOver(w) ==
  LET rest == IF Over(w.list[w.i], w.t) THEN Kept(w.list, DOMAIN w.list \ {w.i}) ELSE w.list
  IN [list |-> rest,
      i    |-> IF w.i = Len(w.list) /\ Over(w.list[w.i], w.t) THEN 1 ELSE w.i + 1,
      t    |-> w.t]

FirstDayFrom[w \in DayWalks] ==
  IF w.i > Len(w.list) THEN [list |-> w.list, at |-> NoEvent]
  ELSE IF OnNow(w) THEN [list |-> w.list, at |-> w.list[w.i]]
  ELSE FirstDayFrom[StepOver(w)]

firstEpgDay(list, t) == FirstDayFrom[[list |-> list, i |-> 1, t |-> t]]

(* Variant: a later programme of the same day will do.                     *)
nextEpgDaySame(list, e, t) ==
  Sweep(list, Position(list, e) + 1, t, {q \in Events : DayOf(q) >= DayOf(e)})

nextEpgDay(list, e, t) ==
  Sweep(list, Position(list, e) + 1, t, {q \in Events : DayOf(q) > DayOf(e)})

firstEpgEvent(list, day, t) == Sweep(list, 1, t, {q \in Events : DayOf(q) = day})

nextEpgEvent(list, e, day, t) ==
  LET next == Sweep(list, Position(list, e) + 1, t, Events)
  IN IF next.at # NoEvent /\ DayOf(next.at) <= day
     THEN next
     ELSE [next EXCEPT !.at = NoEvent]

(* Variant: erases the programmes that have begun.                         *)
EpgDataBegun(list, id, t) ==
  LET rest == SelectSeq(list, LAMBDA q : Programme[q].start > t)
      same == SelectSeq(rest, LAMBDA q : Programme[q].id = id)
  IN [list |-> rest, at |-> IF same = <<>> THEN NoEvent ELSE same[1]]

(* get_epg_data_simple of the programme with an id                         *)
EpgData(list, id, t) == Sweep(list, 1, t, {q \in Events : Programme[q].id = id})

(* get_epg_data_simple with *epg_id NULL                                   *)
EpgDataNow(list, t) == Sweep(list, 1, t, Events)
=============================================================================
