----------------------------- MODULE ChainProofs -----------------------------
(***************************************************************************)
(* Theorems about the loop of the chain thread: its timer lists stay in    *)
(* order, it never waits longer or less than select can be told, a stop    *)
(* ends it in time, and it implements the timers of module Timers.         *)
(***************************************************************************)
EXTENDS Chain, LifeTimeProofs

-----------------------------------------------------------------------------
(* The inductive invariant.                                                *)

(* The part of a turn before select.                                       *)
BeforeSelect == pc \in {"arm", "preselect", "calling"}

Calling == pc = "calling"

(* The PreSelect of the module at place p has returned in this turn.       *)
Passed(p) == pc \in {"preselect", "calling"} /\ p < pos

Position ==
  /\ Calling => pos \in DOMAIN Modules /\ Here \in LifeTimes
  /\ due # <<>> => pc \in {"calling", "hung"}

(* While ILibLifeTime_Check runs: what it spliced off is due, what it left *)
(* is later than the clock it has read, at most this turn ago.             *)
Splice ==
  IF Calling
  THEN /\ \A i \in DOMAIN due : due[i].tick <= 0
       /\ \A i \in DOMAIN lists[Here] : lists[Here][i].tick > checkTick
       /\ OneTimerEach(due \o lists[Here])
       /\ checkTick <= 0 /\ checkTick >= -busy
  ELSE pc # "hung" => checkTick = 0

InOrder ==
  /\ \A l \in LifeTimes : OneTimerEach(lists[l]) /\ SoonestFirst(lists[l])
  /\ SoonestFirst(due)

NoneBefore(q, tick) == \A i \in DOMAIN q : q[i].tick >= tick

(* How late the timers of the module at place p may be: once it has been   *)
(* asked, as late as this turn since then; before, also the turn before.   *)
Earliest(p) ==
  IF BeforeSelect /\ ~Passed(p) THEN -MaxBusy - busy
  ELSE IF BeforeSelect \/ pc = "select" THEN wait - busy
  ELSE -busy

InTime ==
  Running =>
    /\ \A p \in DOMAIN Modules :
         /\ Modules[p] \in LifeTimes => NoneBefore(lists[Modules[p]], Earliest(p))
         /\ Modules[p] = Notifier => notify >= Earliest(p)
    /\ NoneBefore(due, -MaxBusy - busy)

LongestWait == MonitorPeriod + MaxBusy

(* The monitor always has its one timer, except while it is called.        *)
Monitored ==
  Running =>
    IF Calling /\ Here = Monitor
    THEN \/ Len(due) = 1 /\ lists[Monitor] = <<>>
         \/ /\ due = <<>> /\ Len(lists[Monitor]) = 1
            /\ lists[Monitor][1].tick <= MonitorPeriod
            /\ lists[Monitor][1].tick - checkTick <= LongestWait
    ELSE Len(lists[Monitor]) = 1 /\ lists[Monitor][1].tick <= MonitorPeriod

(* So that no wait is longer than its period and a turn.                   *)
WaitBounded ==
  /\ \A p \in DOMAIN Modules : Modules[p] = Monitor /\ Passed(p) => wait <= LongestWait
  /\ pc = "select" => wait <= LongestWait

(* What may still go by before the loop is left.                           *)
Remaining ==
  IF BeforeSelect THEN LongestWait ELSE IF pc = "select" THEN wait ELSE 0

StopBounded ==
  Running =>
    /\ break = "none" => stopping = 0
    /\ BeforeSelect => stopping <= busy
    /\ stopping + (MaxBusy - busy) + Remaining <= StopLimit

IInv ==
  /\ TypeOK /\ Position /\ Splice /\ InOrder
  /\ InTime /\ Monitored /\ WaitBounded /\ StopBounded

-----------------------------------------------------------------------------
Data == Clients \cup {Monitor}

LEMMA TimerListDef == TimerList = Seq(TimersOf(Data))
BY DEF TimerList, TimersOf, Data

LEMMA Constants ==
  /\ Len(Modules) \in Nat /\ DOMAIN Modules = 1..Len(Modules)
  /\ MaxWait \in Nat /\ MaxBusy \in Nat
  /\ MonitorPeriod \in Nat \ {0} /\ NotifyPeriod \in Nat \ {0}
  /\ Monitor \in LifeTimes /\ Monitor # Notifier /\ Notifier \notin LifeTimes
  /\ \A p, r \in DOMAIN Modules : Modules[p] = Modules[r] => p = r
  /\ \A l \in LifeTimes : \E p \in DOMAIN Modules : Modules[p] = l
  /\ \A c \in Clients, s \in Delays : Timer(c, s) \in TimersOf(Data) /\ s \in Nat
  /\ Timer(Monitor, MonitorPeriod) \in TimersOf(Data)
  /\ LongestWait \in Nat /\ StopLimit = LongestWait + MaxBusy
BY ChainAssumption DEF LifeTimes, Timer, TimersOf, Data, LongestWait, StopLimit

(* The timers of one list.                                                 *)
LEMMA TimerFacts ==
  ASSUME NEW q \in TimerList
  PROVE  /\ Len(q) \in Nat /\ DOMAIN q = 1..Len(q)
         /\ \A i \in DOMAIN q : q[i].tick \in Int /\ q[i].data \in Data
         /\ q # <<>> => Len(q) > 0 /\ 1 \in DOMAIN q
<1>1. q \in Seq(TimersOf(Data))
  BY TimerListDef
<1>2. \A i \in 1..Len(q) : q[i] \in TimersOf(Data)
  BY <1>1, ElementOfSeq
<1>3. q # <<>> => Len(q) \in Nat \ {0}
  BY <1>1, EmptySeq
<1>. QED  BY <1>1, <1>2, <1>3 DEF TimersOf

(* The steps that leave the timers as they are.                            *)
Calm ==
  \/ LoopTest \/ Arm \/ EnterSelect \/ SelectTimeout \/ SelectReady \/ Selected
  \/ Reopen \/ Signal \/ Unblock \/ UNCHANGED vars

LEMMA CalmSteps ==
  [Next]_vars <=>
    Calm \/ BeginCheck \/ Call \/ EndCheck \/ Advertise \/ Handle \/ Destroy \/ Tick
BY DEF Calm, Next, Thread, PreSelect

LEMMA CalmFacts ==
  ASSUME Calm
  PROVE  /\ UNCHANGED <<lists, due, checkTick, notify, stopping>>
         /\ pc' = "calling" => pc = "calling" /\ pos' = pos
         /\ pc = "calling" => pc' \in {"calling", "hung"} /\ busy' = busy
         /\ pc = "hung" => pc' = "hung"
BY DEF Calm, vars, Loop, LoopTest, Arm, EnterSelect, SelectTimeout, SelectReady, Selected,
       Reopen, Signal, SignalHere, SignalHereUnderLock, SignalElsewhere, Unblock, Running

(* An empty list and one timer.                                            *)
LEMMA InsertFirst ==
  ASSUME NEW q \in TimerList, NEW t \in TimersOf(Data)
  PROVE  Len(q) = 0 => Insert(q, t) = <<t>>
<1>1. q \in Seq(TimersOf(Data))
  BY TimerListDef
<1>2. Insert(q, t) \in Seq(TimersOf(Data)) /\ Len(Insert(q, t)) = Len(q) + 1
  BY <1>1, InsertType
<1>3. \E k \in DOMAIN Insert(q, t) : Insert(q, t)[k] = t
  BY <1>1, InsertElements
<1>4. Len(q) = 0 => Len(Insert(q, t)) = 1 /\ Insert(q, t)[1] = t
  BY <1>2, <1>3
<1>5. <<t>> \in Seq(TimersOf(Data)) /\ Len(<<t>>) = 1 /\ <<t>>[1] = t
  OBVIOUS
<1>. QED  BY <1>2, <1>4, <1>5, SeqEqual
-----------------------------------------------------------------------------
LEMMA InitIInv == Init => IInv
<1>. SUFFICES ASSUME Init PROVE IInv
  OBVIOUS
<1>. DEFINE first == <<Timer(Monitor, MonitorPeriod)>>
<1>1. /\ first \in TimerList /\ Len(first) = 1 /\ DOMAIN first = {1}
      /\ first[1].tick = MonitorPeriod
  BY Constants, TimerListDef DEF Timer
<1>9. <<>> \in TimerList /\ DOMAIN <<>> = {}
  BY TimerListDef, EmptySeq
<1>2. \A l \in LifeTimes : lists[l] = IF l = Monitor THEN first ELSE <<>>
  BY DEF Init
<1>. HIDE DEF first
<1>3. TypeOK
  <2>1. lists \in [LifeTimes -> TimerList]
    BY <1>1, <1>9 DEF Init, first
  <2>2. pos \in 1..(Len(Modules) + 1) /\ notify \in Int
    BY Constants DEF Init
  <2>3. due \in TimerList
    BY <1>9, Zenon DEF Init
  <2>4. wait \in 0..MaxWait /\ busy \in 0..MaxBusy /\ checkTick \in Int /\ stopping \in Nat
    BY Constants DEF Init
  <2>. QED  BY <2>1, <2>2, <2>3, <2>4 DEF Init, TypeOK
<1>4. Position /\ Splice /\ WaitBounded
  BY DEF Init, Position, Splice, WaitBounded, Calling, Passed
<1>5. InOrder
  BY <1>1, <1>2, <1>9 DEF Init, InOrder, OneTimerEach, SoonestFirst
<1>6. InTime
  BY <1>1, <1>2, <1>9, Constants DEF Init, InTime, NoneBefore, Earliest, BeforeSelect, Passed
<1>7. Monitored
  BY <1>1, <1>2, Constants DEF Init, Monitored, Calling
<1>8. StopBounded
  BY Constants DEF Init, StopBounded, BeforeSelect, Remaining
<1>. QED  BY <1>3, <1>4, <1>5, <1>6, <1>7, <1>8 DEF IInv

-----------------------------------------------------------------------------
(* Types.                                                                  *)

(* Where a list is spliced, its two parts are lists.                       *)
LEMMA BeginCheckFacts ==
  ASSUME IInv, BeginCheck, lists[Here] # <<>>
  PROVE  /\ Here \in LifeTimes /\ pos \in DOMAIN Modules
         /\ lists[Here] \in TimerList
         /\ due' = Due(lists[Here]) /\ lists' = [lists EXCEPT ![Here] = NotDue(lists[Here])]
         /\ due' \in TimerList /\ NotDue(lists[Here]) \in TimerList
         /\ pc = "preselect" /\ pc' = "calling" /\ pos' = pos /\ checkTick' = 0
         /\ checkTick = 0
<1>1. Here \in LifeTimes /\ pos \in DOMAIN Modules /\ lists[Here] \in TimerList
  BY Constants DEF BeginCheck, IInv, TypeOK
<1>2. lists[Here] \in Seq(TimersOf(Data))
  BY <1>1, TimerListDef
<1>3. Due(lists[Here]) \in Seq(TimersOf(Data)) /\ NotDue(lists[Here]) \in Seq(TimersOf(Data))
  BY <1>2, DueSplit
<1>4. pc = "preselect" /\ checkTick = 0
  BY DEF BeginCheck, IInv, Splice, Calling
<1>. QED  BY <1>1, <1>3, <1>4, TimerListDef DEF BeginCheck

LEMMA CallFacts ==
  ASSUME IInv, Call
  PROVE  /\ Here \in LifeTimes /\ pos \in DOMAIN Modules /\ pc = "calling"
         /\ due \in TimerList /\ due' = Tail(due) /\ due' \in TimerList
         /\ Len(due) > 0 /\ Len(due') = Len(due) - 1
         /\ \A i \in DOMAIN due' : i + 1 \in DOMAIN due /\ due'[i] = due[i + 1]
         /\ Here # Monitor => lists' = lists
         /\ Here = Monitor =>
              /\ Len(lists[Monitor]) = 0 /\ Len(due) = 1 /\ due' = <<>>
              /\ lists' = [lists EXCEPT ![Monitor] = <<Timer(Monitor, MonitorPeriod)>>]
<1>1. Here \in LifeTimes /\ pos \in DOMAIN Modules /\ pc = "calling"
  BY DEF Call, IInv, Position, Calling
<1>2. due \in TimerList /\ due # <<>> /\ due' = Tail(due)
  BY DEF Call, IInv, TypeOK
<1>3. due \in Seq(TimersOf(Data))
  BY <1>2, TimerListDef
<1>4. /\ Len(due) \in Nat /\ Len(due) > 0 /\ DOMAIN due = 1..Len(due)
      /\ due' \in Seq(TimersOf(Data)) /\ Len(due') = Len(due) - 1
      /\ \A i \in 1..Len(due') : due'[i] = due[i + 1]
  BY <1>2, <1>3, HeadTailProperties, EmptySeq
<1>5. \A i \in DOMAIN due' : i + 1 \in DOMAIN due /\ due'[i] = due[i + 1]
  BY <1>4
<1>6. due' \in TimerList
  BY <1>4, TimerListDef
<1>7. Here # Monitor => lists' = lists
  BY DEF Call
<1>8. ASSUME Here = Monitor
      PROVE  /\ Len(lists[Monitor]) = 0 /\ Len(due) = 1 /\ due' = <<>>
             /\ lists' = [lists EXCEPT ![Monitor] = <<Timer(Monitor, MonitorPeriod)>>]
  <2>1. Len(due) = 1 /\ lists[Monitor] = <<>>
    BY <1>1, <1>2, <1>8 DEF IInv, Monitored, Running, Calling
  <2>2. lists[Monitor] \in TimerList /\ Len(lists[Monitor]) = 0
    BY <2>1, Constants, EmptySeq DEF IInv, TypeOK
  <2>3. Insert(lists[Monitor], Timer(Monitor, MonitorPeriod)) = <<Timer(Monitor, MonitorPeriod)>>
    BY <2>2, Constants, InsertFirst
  <2>4. lists' = [lists EXCEPT ![Monitor] = Insert(lists[Monitor], Timer(Monitor, MonitorPeriod))]
    BY <1>8 DEF Call
  <2>5. due' = <<>>
    BY <1>4, <2>1, EmptySeq
  <2>. QED  BY <2>1, <2>2, <2>3, <2>4, <2>5
<1>. QED  BY <1>1, <1>2, <1>4, <1>5, <1>6, <1>7, <1>8

(* What a handler does to the timers: nothing, or one list gets a timer of *)
(* a client that had none there, or loses the timer of a client.           *)
Sets(l, c, s) ==
  /\ \A i \in DOMAIN lists[l] : lists[l][i].data # c
  /\ lists' = [lists EXCEPT ![l] = Insert(lists[l], Timer(c, s))]

Cancels(l, c) == lists' = [lists EXCEPT ![l] = RemoveData(lists[l], c)]

LEMMA HandleFacts ==
  ASSUME IInv, Handle
  PROVE  /\ pc = "post" /\ pc' = "test" /\ due = <<>>
         /\ UNCHANGED <<pos, due, checkTick, wait, poll, update, notify, break, busy,
                        stopping>>
         /\ terminate' \in {"open", "closed"}
         /\ \/ lists' = lists
            \/ \E l \in LifeTimes \ {Monitor}, c \in Clients, s \in Delays : Sets(l, c, s)
            \/ \E l \in LifeTimes \ {Monitor}, c \in Clients : Cancels(l, c)
<1>1. due = <<>> /\ terminate \in {"open", "closed"}
  BY DEF Handle, IInv, Position, TypeOK
<1>2. terminate' \in {"open", "closed"}
  BY <1>1 DEF Handle
<1>. QED  BY <1>1, <1>2 DEF Handle, Sets, Cancels

LEMMA TypeStep ==
  ASSUME IInv, [Next]_vars
  PROVE  TypeOK'
<1>. USE Constants DEF IInv, TypeOK
<1>1. CASE LoopTest
  BY <1>1 DEF LoopTest
<1>2. CASE Arm
  BY <1>2 DEF Arm
<1>3. CASE BeginCheck
  <2>1. pos \in DOMAIN Modules
    BY <1>3 DEF BeginCheck
  <2>2. CASE lists[Here] = <<>>
    BY <1>3, <2>1, <2>2 DEF BeginCheck
  <2>3. CASE lists[Here] # <<>>
    BY <1>3, <2>3, BeginCheckFacts DEF BeginCheck
  <2>. QED  BY <2>2, <2>3
<1>4. CASE Call
  <2>1. <<Timer(Monitor, MonitorPeriod)>> \in TimerList
    BY TimerListDef
  <2>2. lists' \in [LifeTimes -> TimerList] /\ due' \in TimerList
    <3>1. due' \in TimerList /\ (Here # Monitor => lists' = lists)
      BY <1>4, CallFacts
    <3>2. Here = Monitor =>
            lists' = [lists EXCEPT ![Monitor] = <<Timer(Monitor, MonitorPeriod)>>]
      BY <1>4, CallFacts
    <3>. QED  BY <2>1, <3>1, <3>2
  <2>3. update' \in BOOLEAN /\ terminate' \in {"open", "closed"}
    BY <1>4 DEF Call
  <2>. QED  BY <1>4, <2>2, <2>3 DEF Call, Loop
<1>5. CASE EndCheck
  <2>1. Here \in LifeTimes /\ pos \in DOMAIN Modules
    BY <1>5 DEF EndCheck, Position, Calling
  <2>2. lists[Here] # <<>> => lists[Here][1].tick - checkTick \in Nat
    <3>1. lists[Here] \in TimerList
      BY <2>1
    <3>2. lists[Here] # <<>> => 1 \in DOMAIN lists[Here] /\ lists[Here][1].tick \in Int
      BY <3>1, TimerFacts
    <3>. QED  BY <1>5, <3>2 DEF EndCheck, Splice, Calling
  <2>3. wait' \in 0..MaxWait
    <3>1. wait' = wait \/ (lists[Here] # <<>> /\ wait' = Min2(wait, lists[Here][1].tick - checkTick))
      BY <1>5 DEF EndCheck
    <3>. QED  BY <2>2, <3>1 DEF Min2
  <2>. QED  BY <1>5, <2>1, <2>3 DEF EndCheck
<1>6. CASE Advertise
  <2>1. notify' \in Nat \ {0}
    BY <1>6 DEF Advertise, Renotified
  <2>2. wait' \in 0..MaxWait
    BY <1>6, <2>1 DEF Advertise, Min2
  <2>3. pos' \in 1..(Len(Modules) + 1) /\ notify' \in Int
    BY <1>6, <2>1 DEF Advertise
  <2>. QED  BY <1>6, <2>1, <2>2, <2>3 DEF Advertise
<1>7. CASE EnterSelect
  <2>1. wait' \in 0..MaxWait /\ pos' \in 1..(Len(Modules) + 1)
    BY <1>7 DEF EnterSelect
  <2>. QED  BY <1>7, <2>1 DEF EnterSelect
<1>8. CASE SelectTimeout
  BY <1>8 DEF SelectTimeout
<1>9. CASE SelectReady
  BY <1>9 DEF SelectReady
<1>10. CASE Selected
  BY <1>10 DEF Selected
<1>11. CASE Reopen
  BY <1>11 DEF Reopen
<1>12. CASE Handle
  <2>1. lists' \in [LifeTimes -> TimerList]
    <3>1. ASSUME NEW l \in LifeTimes \ {Monitor}, NEW c \in Clients, NEW s \in Delays,
                 Sets(l, c, s)
          PROVE  lists' \in [LifeTimes -> TimerList]
      <4>1. lists[l] \in Seq(TimersOf(Data))
        BY TimerListDef
      <4>2. Insert(lists[l], Timer(c, s)) \in TimerList
        BY <4>1, InsertType, TimerListDef
      <4>. QED  BY <3>1, <4>2 DEF Sets
    <3>2. ASSUME NEW l \in LifeTimes \ {Monitor}, NEW c \in Clients, Cancels(l, c)
          PROVE  lists' \in [LifeTimes -> TimerList]
      <4>1. lists[l] \in Seq(TimersOf(Data))
        BY TimerListDef
      <4>2. RemoveData(lists[l], c) \in TimerList
        BY <4>1, RemoveKeepsOrder, TimerListDef
      <4>. QED  BY <3>2, <4>2 DEF Cancels
    <3>. QED  BY <1>12, <3>1, <3>2, HandleFacts
  <2>. QED  BY <1>12, <2>1, HandleFacts
<1>13. CASE Destroy
  <2>1. <<>> \in TimerList
    BY TimerListDef, EmptySeq
  <2>2. lists' \in [LifeTimes -> TimerList]
    BY <1>13, <2>1 DEF Destroy, Flushed
  <2>. QED  BY <1>13, <2>2 DEF Destroy
<1>14. CASE SignalHere
  BY <1>14 DEF SignalHere
<1>15. CASE SignalHereUnderLock
  BY <1>15 DEF SignalHereUnderLock
<1>16. CASE SignalElsewhere
  BY <1>16 DEF SignalElsewhere, Loop
<1>17. CASE Unblock
  BY <1>17 DEF Unblock, Loop
<1>18. CASE Tick
  <2>1. \A q \in TimerList : Aged(q) \in TimerList
    <3>1. \A q \in Seq(TimersOf(Data)) : Aged(q) \in Seq(TimersOf(Data))
      BY AgedTimers
    <3>. QED  BY <3>1, TimerListDef
  <2>2. lists' \in [LifeTimes -> TimerList] /\ due' \in TimerList
    BY <1>18, <2>1 DEF Tick
  <2>3. wait' \in 0..MaxWait /\ busy' \in 0..MaxBusy
    BY <1>18 DEF Tick
  <2>4. checkTick' \in Int /\ notify' \in Int /\ stopping' \in Nat
    BY <1>18 DEF Tick
  <2>. QED  BY <1>18, <2>2, <2>3, <2>4 DEF Tick
<1>19. CASE UNCHANGED vars
  BY <1>19 DEF vars
<1>. QED
  BY <1>1, <1>2, <1>3, <1>4, <1>5, <1>6, <1>7, <1>8, <1>9, <1>10, <1>11, <1>12, <1>13,
     <1>14, <1>15, <1>16, <1>17, <1>18, <1>19
  DEF Next, Thread, PreSelect, Signal

-----------------------------------------------------------------------------
(* The lists.                                                              *)
LEMMA PositionStep ==
  ASSUME IInv, [Next]_vars
  PROVE  Position'
<1>. USE DEF IInv, Position, Calling, Here
<1>1. CASE Calm
  BY <1>1, CalmFacts
<1>2. CASE BeginCheck
  <2>1. CASE lists[Here] = <<>>
    BY <1>2, <2>1 DEF BeginCheck
  <2>2. CASE lists[Here] # <<>>
    BY <1>2, <2>2, BeginCheckFacts
  <2>. QED  BY <2>1, <2>2
<1>3. CASE Call
  BY <1>3 DEF Call, Loop
<1>4. CASE EndCheck
  BY <1>4 DEF EndCheck
<1>5. CASE Advertise
  BY <1>5 DEF Advertise
<1>6. CASE Handle
  BY <1>6 DEF Handle
<1>7. CASE Destroy
  BY <1>7 DEF Destroy
<1>8. CASE Tick
  <2>1. pc' = pc /\ pos' = pos
    BY <1>8 DEF Tick
  <2>2. due = <<>> => due' = <<>>
    <3>1. due \in Seq(TimersOf(Data))
      BY TimerListDef DEF TypeOK
    <3>2. due' \in Seq(TimersOf(Data)) /\ Len(due') = Len(due)
      BY <1>8, <3>1, AgedTimers DEF Tick
    <3>. QED  BY <3>1, <3>2, EmptySeq
  <2>. QED  BY <2>1, <2>2
<1>. QED  BY <1>1, <1>2, <1>3, <1>4, <1>5, <1>6, <1>7, <1>8, CalmSteps

LEMMA SpliceStep ==
  ASSUME IInv, [Next]_vars
  PROVE  Splice'
<1>. USE DEF IInv, Splice, Calling, Here
<1>1. CASE Calm
  BY <1>1, CalmFacts
<1>2. CASE BeginCheck
  <2>1. CASE lists[Here] = <<>>
    BY <1>2, <2>1 DEF BeginCheck
  <2>2. CASE lists[Here] # <<>>
    <3>. DEFINE q == lists[Here]
    <3>1. /\ Here \in LifeTimes /\ q \in Seq(TimersOf(Data)) /\ q \in TimerList
          /\ due' = Due(q) /\ lists' = [lists EXCEPT ![Here] = NotDue(q)]
          /\ pc' = "calling" /\ pos' = pos /\ checkTick' = 0
      BY <1>2, <2>2, BeginCheckFacts, TimerListDef
    <3>2. SoonestFirst(q) /\ OneTimerEach(q)
      BY <3>1 DEF InOrder
    <3>3. lists'[Here] = NotDue(q)
      BY <3>1 DEF TypeOK
    <3>. HIDE DEF q
    <3>4. /\ Len(q) \in Nat /\ DueCount(q) \in 0..Len(q)
          /\ \A i \in 1..DueCount(q) : q[i].tick <= 0
          /\ \A i \in (DueCount(q) + 1)..Len(q) : q[i].tick > 0
          /\ DOMAIN Due(q) = 1..DueCount(q)
          /\ \A i \in 1..DueCount(q) : Due(q)[i] = q[i]
          /\ DOMAIN NotDue(q) = 1..(Len(q) - DueCount(q))
          /\ \A i \in 1..(Len(q) - DueCount(q)) : NotDue(q)[i] = q[DueCount(q) + i]
      BY <3>1, <3>2, DueSplit
    <3>5. \A i \in DOMAIN Due(q) : Due(q)[i].tick <= 0
      BY <3>4
    <3>6. \A i \in DOMAIN NotDue(q) : NotDue(q)[i].tick > 0
      <4>1. \A i \in DOMAIN NotDue(q) : DueCount(q) + i \in (DueCount(q) + 1)..Len(q)
        BY <3>4
      <4>. QED  BY <3>4, <4>1
    <3>7. OneTimerEach(Due(q) \o NotDue(q))
      BY <3>1, <3>2, DueKeepsOrder
    <3>8. checkTick' <= 0 /\ checkTick' >= -busy'
      BY <1>2, <3>1, Constants DEF BeginCheck, TypeOK
    <3>. QED  BY <3>1, <3>3, <3>5, <3>6, <3>7, <3>8
  <2>. QED  BY <2>1, <2>2
<1>3. CASE Call
  <2>. DEFINE q == lists[Here]
  <2>1. UNCHANGED <<pc, pos, checkTick, busy>> /\ pc = "calling"
    BY <1>3 DEF Call, Loop
  <2>2. \A i \in DOMAIN due' : due'[i].tick <= 0
    BY <1>3, <2>1, CallFacts
  <2>3. CASE Here # Monitor
    <3>1. lists' = lists /\ due' = Tail(due) /\ due \in TimerList /\ Len(due) > 0
          /\ q \in TimerList
      BY <1>3, <2>3, CallFacts DEF TypeOK
    <3>2. due \in Seq(TimersOf(Data)) /\ q \in Seq(TimersOf(Data)) /\ due # <<>>
      BY <3>1, TimerListDef, EmptySeq
    <3>3. due \o q \in Seq(TimersOf(Data)) /\ due \o q # <<>> /\ Tail(due \o q) = Tail(due) \o q
      BY <3>2
    <3>4. OneTimerEach(Tail(due) \o q)
      BY <2>1, <3>3, TailKeepsOrder
    <3>. QED  BY <2>1, <2>2, <3>1, <3>4
  <2>4. CASE Here = Monitor
    <3>1. /\ due' = <<>> /\ lists'[Monitor] = <<Timer(Monitor, MonitorPeriod)>>
      BY <1>3, <2>4, CallFacts, Constants DEF TypeOK
    <3>2. <<>> \o <<Timer(Monitor, MonitorPeriod)>> = <<Timer(Monitor, MonitorPeriod)>>
      OBVIOUS
    <3>3. OneTimerEach(due' \o lists'[Monitor])
      BY <3>1, <3>2 DEF OneTimerEach
    <3>4. \A i \in DOMAIN lists'[Monitor] : lists'[Monitor][i].tick > checkTick
      BY <2>1, <3>1, Constants DEF TypeOK, Timer
    <3>. QED  BY <2>1, <2>2, <2>4, <3>3, <3>4
  <2>. QED  BY <2>3, <2>4
<1>4. CASE EndCheck
  BY <1>4 DEF EndCheck
<1>5. CASE Advertise
  BY <1>5 DEF Advertise
<1>6. CASE Handle
  BY <1>6 DEF Handle
<1>7. CASE Destroy
  BY <1>7 DEF Destroy
<1>8. CASE Tick
  <2>1. pc' = pc /\ pos' = pos /\ pc # "hung"
    BY <1>8 DEF Tick, Running
  <2>2. CASE pc # "calling"
    BY <1>8, <2>1, <2>2 DEF Tick
  <2>3. CASE pc = "calling"
    <3>. DEFINE q == lists[Here]
    <3>1. Here \in LifeTimes /\ q \in Seq(TimersOf(Data)) /\ due \in Seq(TimersOf(Data))
      BY <2>3, TimerListDef DEF TypeOK, Position
    <3>2. due' = Aged(due) /\ lists'[Here] = Aged(q) /\ checkTick' = checkTick - 1
          /\ busy' = busy + 1
      BY <1>8, <2>3, <3>1 DEF Tick
    <3>3. /\ due \o q \in Seq(TimersOf(Data)) /\ OneTimerEach(due \o q)
          /\ Aged(due \o q) = Aged(due) \o Aged(q)
      <4>. HIDE DEF q
      <4>1. due \o q \in Seq(TimersOf(Data))
        BY <3>1, ConcatProperties
      <4>2. Aged(due \o q) = Aged(due) \o Aged(q)
        BY <3>1, AgedConcat
      <4>. QED  BY <2>3, <4>1, <4>2 DEF q
    <3>4. OneTimerEach(Aged(due) \o Aged(q))
      BY <3>3, AgedTimers
    <3>5. \A i \in DOMAIN Aged(due) : Aged(due)[i].tick <= 0
      <4>1. \A i \in DOMAIN due : due[i].tick \in Int /\ due[i].tick <= 0
        BY <2>3, TimerFacts DEF TypeOK
      <4>2. /\ DOMAIN Aged(due) = DOMAIN due
            /\ \A i \in DOMAIN due : Aged(due)[i].tick = due[i].tick - 1
        BY <3>1, AgedTimers
      <4>. QED  BY <4>1, <4>2
    <3>6. \A i \in DOMAIN Aged(q) : Aged(q)[i].tick > checkTick - 1
      <4>1. \A i \in DOMAIN q : q[i].tick \in Int /\ q[i].tick > checkTick
        BY <2>3, <3>1, TimerFacts DEF TypeOK
      <4>2. /\ DOMAIN Aged(q) = DOMAIN q
            /\ \A i \in DOMAIN q : Aged(q)[i].tick = q[i].tick - 1
        BY <3>1, AgedTimers
      <4>. QED  BY <4>1, <4>2 DEF TypeOK
    <3>7. checkTick' <= 0 /\ checkTick' >= -busy'
      BY <2>3, <3>2, Constants DEF TypeOK
    <3>. HIDE DEF q
    <3>. QED  BY <2>1, <2>3, <3>2, <3>4, <3>5, <3>6, <3>7
  <2>. QED  BY <2>2, <2>3
<1>. QED  BY <1>1, <1>2, <1>3, <1>4, <1>5, <1>6, <1>7, <1>8, CalmSteps

LEMMA InOrderStep ==
  ASSUME IInv, [Next]_vars
  PROVE  InOrder'
<1>. USE DEF IInv, InOrder
<1>1. CASE Calm \/ EndCheck \/ Advertise
  <2>1. lists' = lists /\ due' = due
    BY <1>1, CalmFacts DEF EndCheck, Advertise
  <2>. QED  BY <2>1
<1>2. CASE BeginCheck
  <2>1. CASE lists[Here] = <<>>
    BY <1>2, <2>1 DEF BeginCheck
  <2>2. CASE lists[Here] # <<>>
    <3>1. /\ Here \in LifeTimes /\ lists[Here] \in Seq(TimersOf(Data))
          /\ due' = Due(lists[Here])
          /\ lists' = [lists EXCEPT ![Here] = NotDue(lists[Here])]
      BY <1>2, <2>2, BeginCheckFacts, TimerListDef
    <3>2. /\ SoonestFirst(Due(lists[Here])) /\ SoonestFirst(NotDue(lists[Here]))
          /\ OneTimerEach(NotDue(lists[Here]))
      BY <3>1, DueKeepsOrder
    <3>. QED  BY <3>1, <3>2 DEF TypeOK
  <2>. QED  BY <2>1, <2>2
<1>3. CASE Call
  <2>1. due \in Seq(TimersOf(Data)) /\ due # <<>> /\ due' = Tail(due)
    BY <1>3, CallFacts, TimerListDef DEF Call
  <2>2. SoonestFirst(due')
    BY <2>1, TailKeepsOrder
  <2>3. CASE Here # Monitor
    BY <1>3, <2>2, <2>3, CallFacts
  <2>4. CASE Here = Monitor
    <3>1. lists' = [lists EXCEPT ![Monitor] = <<Timer(Monitor, MonitorPeriod)>>]
      BY <1>3, <2>4, CallFacts
    <3>2. /\ SoonestFirst(<<Timer(Monitor, MonitorPeriod)>>)
          /\ OneTimerEach(<<Timer(Monitor, MonitorPeriod)>>)
      BY DEF SoonestFirst, OneTimerEach
    <3>. QED  BY <2>2, <3>1, <3>2 DEF TypeOK
  <2>. QED  BY <2>3, <2>4
<1>4. CASE Handle
  <2>1. due' = due
    BY <1>4, HandleFacts
  <2>2. ASSUME NEW l \in LifeTimes \ {Monitor}, NEW c \in Clients, NEW s \in Delays,
               Sets(l, c, s)
        PROVE  InOrder'
    <3>1. lists[l] \in Seq(TimersOf(Data)) /\ Timer(c, s) \in TimersOf(Data)
      BY Constants, TimerListDef DEF TypeOK
    <3>2. SoonestFirst(Insert(lists[l], Timer(c, s)))
      BY <3>1, InsertKeepsOrder
    <3>3. \A i \in DOMAIN lists[l] : lists[l][i].data # Timer(c, s).data
      BY <2>2 DEF Sets, Timer
    <3>4. OneTimerEach(Insert(lists[l], Timer(c, s)))
      BY <3>1, <3>3, InsertKeepsOneEach
    <3>. QED  BY <2>1, <2>2, <3>2, <3>4 DEF Sets, TypeOK
  <2>3. ASSUME NEW l \in LifeTimes \ {Monitor}, NEW c \in Clients, Cancels(l, c)
        PROVE  InOrder'
    <3>1. lists[l] \in Seq(TimersOf(Data))
      BY TimerListDef DEF TypeOK
    <3>2. SoonestFirst(RemoveData(lists[l], c)) /\ OneTimerEach(RemoveData(lists[l], c))
      BY <3>1, RemoveKeepsOrder
    <3>. QED  BY <2>1, <2>3, <3>2 DEF Cancels, TypeOK
  <2>. QED  BY <1>4, <2>1, <2>2, <2>3, HandleFacts
<1>5. CASE Destroy
  <2>1. SoonestFirst(<<>>) /\ OneTimerEach(<<>>)
    BY DEF SoonestFirst, OneTimerEach
  <2>. QED  BY <1>5, <2>1 DEF Destroy, Flushed
<1>6. CASE Tick
  <2>1. \A q \in TimerList :
          (SoonestFirst(q) => SoonestFirst(Aged(q))) /\ (OneTimerEach(q) => OneTimerEach(Aged(q)))
    <3>1. \A q \in Seq(TimersOf(Data)) :
            (SoonestFirst(q) => SoonestFirst(Aged(q))) /\ (OneTimerEach(q) => OneTimerEach(Aged(q)))
      BY AgedTimers
    <3>. QED  BY <3>1, TimerListDef
  <2>. QED  BY <1>6, <2>1 DEF Tick, TypeOK
<1>. QED  BY <1>1, <1>2, <1>3, <1>4, <1>5, <1>6, CalmSteps

-----------------------------------------------------------------------------
(* How late a timer may be.                                                *)
LEMMA EarliestType ==
  ASSUME IInv, NEW p \in DOMAIN Modules
  PROVE  Earliest(p) \in Int /\ -MaxBusy - busy \in Int
BY Constants DEF Earliest, IInv, TypeOK

LEMMA LaterBound ==
  ASSUME NEW q \in TimerList, NEW early \in Int, NEW late \in Int,
         early <= late, NoneBefore(q, late)
  PROVE  NoneBefore(q, early)
<1>1. \A i \in DOMAIN q : q[i].tick \in Int
  BY TimerFacts
<1>. QED  BY <1>1 DEF NoneBefore

LEMMA EarliestCalm ==
  ASSUME IInv, Calm, Running', NEW p \in DOMAIN Modules
  PROVE  Running /\ Earliest(p)' <= Earliest(p) /\ (busy' = busy \/ due = <<>>)
<1>. USE Constants DEF Earliest, BeforeSelect, Passed, Running
<1>0. /\ wait \in Nat /\ busy \in Nat /\ busy <= MaxBusy
      /\ p \in Nat /\ p >= 1 /\ p <= Len(Modules) /\ pos \in Nat
      /\ due # <<>> => pc \in {"calling", "hung"}
  BY DEF IInv, TypeOK, Position
<1>1. CASE LoopTest
  BY <1>0, <1>1 DEF LoopTest
<1>2. CASE Arm
  BY <1>0, <1>2 DEF Arm
<1>3. CASE EnterSelect
  BY <1>0, <1>3 DEF EnterSelect
<1>4. CASE SelectTimeout \/ SelectReady
  BY <1>0, <1>4 DEF SelectTimeout, SelectReady
<1>5. CASE Selected \/ Reopen
  BY <1>0, <1>5 DEF Selected, Reopen
<1>6. CASE Signal
  BY <1>0, <1>6 DEF Signal, SignalHere, SignalHereUnderLock, SignalElsewhere, Loop
<1>7. CASE Unblock \/ UNCHANGED vars
  BY <1>0, <1>7 DEF Unblock, Loop, vars
<1>. QED  BY <1>1, <1>2, <1>3, <1>4, <1>5, <1>6, <1>7 DEF Calm

(* The parts of InTime at one place.                                       *)
InTimeAt(p) ==
  /\ Modules[p] \in LifeTimes => NoneBefore(lists[Modules[p]], Earliest(p))
  /\ Modules[p] = Notifier => notify >= Earliest(p)

LEMMA InTimeParts ==
  InTime <=> (Running => /\ \A p \in DOMAIN Modules : InTimeAt(p)
                         /\ NoneBefore(due, -MaxBusy - busy))
BY DEF InTime, InTimeAt

(* Arithmetic that the proofs cite.                                        *)
LEMMA WaitFacts ==
  /\ \A w, b, n \in Int : b >= 0 /\ w <= n => w - b <= n
  /\ \A v, w, b \in Int : v <= w => v - b <= w - b
  /\ \A w, b \in Int : w - b \in Int /\ (w - 1) - b = (w - b) - 1
  /\ \A w, b \in Int : w - (b + 1) = (w - b) - 1
  /\ \A b, m \in Int : -m - (b + 1) = (-m - b) - 1 /\ -m - b \in Int /\ -b \in Int
  /\ \A b \in Int : -(b + 1) = -b - 1
OBVIOUS

LEMMA InTimeStep ==
  ASSUME IInv, [Next]_vars
  PROVE  InTime'
<1>. SUFFICES ASSUME Running'
              PROVE  /\ \A p \in DOMAIN Modules : InTimeAt(p)'
                     /\ NoneBefore(due, -MaxBusy - busy)'
  BY DEF InTime, InTimeAt
<1>0. /\ TypeOK /\ TypeOK' /\ Position /\ MaxBusy \in Nat
      /\ wait \in Nat /\ busy \in Nat /\ busy <= MaxBusy /\ notify \in Int
      /\ wait' \in Nat /\ busy' \in Nat /\ notify' \in Int
      /\ pos \in Int /\ \A p \in DOMAIN Modules : p \in Int
      /\ due \in TimerList /\ due' \in TimerList
      /\ lists \in [LifeTimes -> TimerList]
      /\ \A l \in LifeTimes : lists[l] \in TimerList /\ lists'[l] \in TimerList
      /\ Running => /\ \A p \in DOMAIN Modules : InTimeAt(p)
                    /\ NoneBefore(due, -MaxBusy - busy)
      /\ \A p \in DOMAIN Modules : Earliest(p) \in Int
  BY TypeStep, InTimeParts, EarliestType, Constants DEF IInv, TypeOK
<1>num. /\ MaxBusy \in Nat /\ wait \in Nat /\ busy \in Nat
        /\ wait' \in Nat /\ busy' \in Nat /\ notify' \in Int
        /\ pos \in Int /\ \A p \in DOMAIN Modules : p \in Int
  BY <1>0
<1>1. CASE Calm
  <2>1. Running /\ lists' = lists /\ due' = due /\ notify' = notify
    <3>1. \E p \in DOMAIN Modules : Modules[p] = Monitor
      BY Constants
    <3>. QED  BY <1>1, <3>1, CalmFacts, EarliestCalm
  <2>2. ASSUME NEW p \in DOMAIN Modules
        PROVE  InTimeAt(p)'
    <3>1. Earliest(p)' <= Earliest(p) /\ Earliest(p)' \in Int
      <4>1. Earliest(p)' \in Int
        BY <1>0 DEF Earliest
      <4>. QED  BY <1>1, <4>1, EarliestCalm
    <3>2. InTimeAt(p)
      BY <1>0, <2>1
    <3>3. Modules[p] \in LifeTimes => NoneBefore(lists[Modules[p]], Earliest(p)')
      BY <1>0, <3>1, <3>2, LaterBound DEF InTimeAt
    <3>4. Modules[p] = Notifier => notify >= Earliest(p)'
      BY <1>0, <3>1, <3>2 DEF InTimeAt
    <3>. QED  BY <2>1, <3>3, <3>4 DEF InTimeAt
  <2>3. NoneBefore(due, -MaxBusy - busy)'
    <3>1. PICK p \in DOMAIN Modules : Modules[p] = Monitor
      BY Constants
    <3>2. busy' = busy \/ due = <<>>
      BY <1>1, <3>1, EarliestCalm
    <3>. QED  BY <1>0, <2>1, <3>2 DEF NoneBefore
  <2>. QED  BY <2>2, <2>3
<1>2. CASE BeginCheck
  <2>1. Running /\ UNCHANGED <<wait, busy, notify>> /\ pc = "preselect"
        /\ Here \in LifeTimes /\ pos \in DOMAIN Modules
    BY <1>0, <1>2 DEF BeginCheck, Running, TypeOK
  <2>2. CASE lists[Here] = <<>>
    <3>1. pos' = pos + 1 /\ UNCHANGED <<pc, lists, due>>
      BY <1>2, <2>2 DEF BeginCheck
    <3>2. ASSUME NEW p \in DOMAIN Modules
          PROVE  InTimeAt(p)'
      <4>1. CASE p = pos
        BY <2>1, <2>2, <3>1, <4>1, Constants DEF InTimeAt, NoneBefore, Here
      <4>2. CASE p # pos
        <5>1. Passed(p)' = Passed(p)
          BY <1>0, <2>1, <3>1, <4>2 DEF Passed
        <5>2. Earliest(p)' = Earliest(p)
          BY <2>1, <3>1, <5>1 DEF Earliest, BeforeSelect
        <5>. QED  BY <1>0, <2>1, <3>1, <5>2 DEF InTimeAt
      <4>. QED  BY <4>1, <4>2
    <3>. QED  BY <1>0, <2>1, <3>1, <3>2
  <2>3. CASE lists[Here] # <<>>
    <3>. DEFINE q == lists[Here]
    <3>1. /\ q \in TimerList /\ q \in Seq(TimersOf(Data))
          /\ due' = Due(q) /\ lists' = [lists EXCEPT ![Here] = NotDue(q)]
          /\ pc' = "calling" /\ pos' = pos
      BY <1>2, <2>3, BeginCheckFacts, TimerListDef
    <3>2. \A p \in DOMAIN Modules : Earliest(p)' = Earliest(p)
      BY <2>1, <3>1 DEF Earliest, BeforeSelect, Passed
    <3>3. NoneBefore(q, -MaxBusy - busy)
      <4>1. Earliest(pos) = -MaxBusy - busy
        BY <2>1, <1>0 DEF Earliest, BeforeSelect, Passed, TypeOK
      <4>. QED  BY <1>0, <2>1, <4>1 DEF InTimeAt, Here
    <3>. HIDE DEF q
    <3>4. NoneBefore(Due(q), -MaxBusy - busy) /\ NoneBefore(NotDue(q), -MaxBusy - busy)
      <4>1. /\ Len(q) \in Nat /\ DueCount(q) \in 0..Len(q) /\ DOMAIN q = 1..Len(q)
            /\ DOMAIN Due(q) = 1..DueCount(q)
            /\ \A i \in 1..DueCount(q) : Due(q)[i] = q[i]
            /\ DOMAIN NotDue(q) = 1..(Len(q) - DueCount(q))
            /\ \A i \in 1..(Len(q) - DueCount(q)) : NotDue(q)[i] = q[DueCount(q) + i]
        BY <3>1, DueSplit
      <4>2. \A i \in 1..(Len(q) - DueCount(q)) : DueCount(q) + i \in 1..Len(q)
        BY <4>1
      <4>. QED  BY <3>3, <4>1, <4>2 DEF NoneBefore
    <3>5. ASSUME NEW p \in DOMAIN Modules
          PROVE  InTimeAt(p)'
      <4>1. CASE p = pos
        <5>1. lists'[Here] = NotDue(q) /\ Modules[p] = Here
          BY <1>0, <2>1, <3>1, <4>1 DEF TypeOK, Here
        <5>2. Earliest(p)' = -MaxBusy - busy
          BY <1>0, <2>1, <3>1, <4>1 DEF Earliest, BeforeSelect, Passed
        <5>. QED  BY <2>1, <3>4, <5>1, <5>2, Constants DEF InTimeAt
      <4>2. CASE p # pos
        <5>1. Modules[p] # Here
          BY <2>1, <4>2, Constants DEF Here
        <5>2. Modules[p] \in LifeTimes => lists'[Modules[p]] = lists[Modules[p]]
          BY <1>0, <3>1, <5>1 DEF TypeOK
        <5>. QED  BY <1>0, <2>1, <3>2, <5>2 DEF InTimeAt
      <4>. QED  BY <4>1, <4>2
    <3>. QED  BY <2>1, <3>1, <3>4, <3>5
  <2>. QED  BY <2>2, <2>3
<1>3. CASE Call
  <2>1. UNCHANGED <<pc, pos, wait, busy, notify>> /\ pc = "calling" /\ Running
    BY <1>3 DEF Call, Loop, Running
  <2>2. \A p \in DOMAIN Modules : Earliest(p)' = Earliest(p)
    BY <2>1 DEF Earliest, BeforeSelect, Passed
  <2>3. NoneBefore(due', -MaxBusy - busy)
    BY <1>0, <1>3, <2>1, CallFacts DEF NoneBefore
  <2>4. CASE Here # Monitor
    <3>1. lists' = lists
      BY <1>3, <2>4, CallFacts
    <3>. QED  BY <1>0, <2>1, <2>2, <2>3, <3>1 DEF InTimeAt
  <2>5. CASE Here = Monitor
    <3>1. /\ lists' = [lists EXCEPT ![Monitor] = <<Timer(Monitor, MonitorPeriod)>>]
          /\ pos \in DOMAIN Modules
      BY <1>3, <2>5, CallFacts
    <3>2. ASSUME NEW p \in DOMAIN Modules
          PROVE  InTimeAt(p)'
      <4>1. CASE p = pos
        <5>1. Earliest(p) = -MaxBusy - busy /\ Modules[p] = Monitor
          BY <1>0, <2>1, <2>5, <4>1 DEF Earliest, BeforeSelect, Passed, TypeOK, Here
        <5>2. lists'[Monitor] = <<Timer(Monitor, MonitorPeriod)>>
          BY <1>0, <3>1 DEF TypeOK
        <5>3. NoneBefore(<<Timer(Monitor, MonitorPeriod)>>, -MaxBusy - busy)
          BY <1>0, Constants DEF NoneBefore, Timer
        <5>. QED  BY <2>2, <5>1, <5>2, <5>3, Constants DEF InTimeAt
      <4>2. CASE p # pos
        <5>1. Modules[p] # Monitor
          BY <2>5, <3>1, <4>2, Constants DEF Here
        <5>2. Modules[p] \in LifeTimes => lists'[Modules[p]] = lists[Modules[p]]
          BY <1>0, <3>1, <5>1 DEF TypeOK
        <5>. QED  BY <1>0, <2>1, <2>2, <5>2 DEF InTimeAt
      <4>. QED  BY <4>1, <4>2
    <3>. QED  BY <2>1, <2>3, <3>2
  <2>. QED  BY <2>4, <2>5
<1>4. CASE EndCheck
  <2>1. /\ pc = "calling" /\ pc' = "preselect" /\ pos' = pos + 1 /\ Running /\ due = <<>>
        /\ UNCHANGED <<lists, due, notify, busy>>
        /\ pos \in DOMAIN Modules /\ Here \in LifeTimes
        /\ wait' \in Nat
    BY <1>0, <1>4 DEF EndCheck, Running, Position, Calling, TypeOK
  <2>2. wait' <= wait /\ NoneBefore(lists[Here], wait' - busy)
    <3>1. CASE lists[Here] = <<>>
      BY <1>0, <1>4, <3>1 DEF EndCheck, NoneBefore
    <3>2. CASE lists[Here] # <<>>
      <4>. DEFINE q == lists[Here]
      <4>1. /\ DOMAIN q = 1..Len(q) /\ Len(q) \in Nat /\ 1 \in DOMAIN q
            /\ \A i \in DOMAIN q : q[i].tick \in Int
        BY <1>0, <2>1, <3>2, TimerFacts
      <4>2. wait' = Min2(wait, q[1].tick - checkTick)
        BY <1>4, <3>2 DEF EndCheck
      <4>3. checkTick >= -busy /\ checkTick \in Int
        BY <1>0, <2>1 DEF IInv, Splice, Calling, TypeOK
      <4>4. \A i \in DOMAIN q : q[1].tick <= q[i].tick
        <5>1. SoonestFirst(q)
          BY <2>1 DEF IInv, InOrder
        <5>2. \A i \in DOMAIN q : i = 1 \/ 1 < i
          BY <4>1
        <5>. QED  BY <4>1, <5>1, <5>2 DEF SoonestFirst
      <4>. HIDE DEF q
      <4>5. wait' <= wait /\ wait' <= q[1].tick - checkTick
        BY <1>0, <4>1, <4>2, <4>3 DEF Min2
      <4>6. wait' - busy <= q[1].tick
        <5>1. wait' \in Int /\ busy \in Int /\ q[1].tick \in Int
          BY <1>0, <4>1
        <5>. QED  BY <4>3, <4>5, <5>1
      <4>7. \A i \in DOMAIN q : q[i].tick >= wait' - busy
        <5>1. wait' - busy \in Int /\ q[1].tick \in Int
          BY <1>0, <4>1
        <5>. QED  BY <4>1, <4>4, <4>6, <5>1
      <4>. QED  BY <4>5, <4>7 DEF NoneBefore, q
    <3>. QED  BY <3>1, <3>2
  <2>3. ASSUME NEW p \in DOMAIN Modules
        PROVE  InTimeAt(p)'
    <3>1. CASE p = pos
      <4>1. Earliest(p)' = wait' - busy
        <5>1. pos < pos' /\ busy' = busy
          BY <1>num, <2>1
        <5>2. Passed(p)' /\ BeforeSelect'
          BY <2>1, <3>1, <5>1 DEF BeforeSelect, Passed
        <5>. QED  BY <5>1, <5>2 DEF Earliest
      <4>. QED  BY <2>1, <2>2, <3>1, <4>1, Constants DEF InTimeAt, Here
    <3>2. CASE p # pos
      <4>1. Passed(p)' = Passed(p)
        BY <1>0, <2>1, <3>2 DEF Passed
      <4>2. Earliest(p)' <= Earliest(p) /\ Earliest(p)' \in Int
        <5>1. BeforeSelect /\ BeforeSelect' /\ busy' = busy
          BY <2>1 DEF BeforeSelect
        <5>2. CASE Passed(p)
          <6>1. Earliest(p) = wait - busy /\ Earliest(p)' = wait' - busy
            BY <4>1, <5>1, <5>2 DEF Earliest
          <6>2. wait' - busy <= wait - busy /\ wait' - busy \in Int
            <7>1. wait' \in Int /\ wait \in Int /\ busy \in Int /\ wait' <= wait
              BY <1>num, <2>1, <2>2
            <7>. QED  BY <7>1, WaitFacts, Zenon
          <6>. QED  BY <6>1, <6>2
        <5>3. CASE ~Passed(p)
          <6>1. Earliest(p) = -MaxBusy - busy /\ Earliest(p)' = -MaxBusy - busy
            BY <4>1, <5>1, <5>3 DEF Earliest
          <6>. QED  BY <1>num, <6>1
        <5>. QED  BY <5>2, <5>3
      <4>3. InTimeAt(p)
        BY <1>0, <2>1
      <4>4. Modules[p] \in LifeTimes => NoneBefore(lists[Modules[p]], Earliest(p)')
        BY <1>0, <4>2, <4>3, LaterBound DEF InTimeAt
      <4>5. Modules[p] = Notifier => notify >= Earliest(p)'
        BY <1>0, <4>2, <4>3 DEF InTimeAt
      <4>. QED  BY <2>1, <4>4, <4>5 DEF InTimeAt
    <3>. QED  BY <3>1, <3>2
  <2>. QED  BY <1>0, <2>1, <2>3
<1>5. CASE Advertise
  <2>1. /\ pc = "preselect" /\ pc' = pc /\ pos' = pos + 1 /\ Running
        /\ UNCHANGED <<lists, due, busy>>
        /\ pos \in DOMAIN Modules /\ Here = Notifier
        /\ wait' \in Nat /\ notify' \in Nat /\ wait' <= wait /\ wait' <= notify'
    BY <1>0, <1>5 DEF Advertise, Running, TypeOK, Renotified, Min2
  <2>2. ASSUME NEW p \in DOMAIN Modules
        PROVE  InTimeAt(p)'
    <3>1. CASE p = pos
      <4>1. Earliest(p)' = wait' - busy
        <5>1. pos < pos' /\ busy' = busy
          BY <1>num, <2>1
        <5>2. Passed(p)' /\ BeforeSelect'
          BY <2>1, <3>1, <5>1 DEF BeforeSelect, Passed
        <5>. QED  BY <5>1, <5>2 DEF Earliest
      <4>2. notify' >= wait' - busy
        <5>1. wait' \in Int /\ busy \in Int /\ notify' \in Int /\ busy >= 0 /\ wait' <= notify'
          BY <1>num, <2>1
        <5>2. wait' - busy <= notify'
          BY <5>1, WaitFacts, Zenon
        <5>. QED  BY <5>1, <5>2
      <4>. QED  BY <2>1, <3>1, <4>1, <4>2, Constants DEF InTimeAt, Here
    <3>2. CASE p # pos
      <4>1. Passed(p)' = Passed(p)
        BY <1>0, <2>1, <3>2 DEF Passed
      <4>2. Earliest(p)' <= Earliest(p) /\ Earliest(p)' \in Int
        <5>1. BeforeSelect /\ BeforeSelect' /\ busy' = busy
          BY <2>1 DEF BeforeSelect
        <5>2. CASE Passed(p)
          <6>1. Earliest(p) = wait - busy /\ Earliest(p)' = wait' - busy
            BY <4>1, <5>1, <5>2 DEF Earliest
          <6>2. wait' - busy <= wait - busy /\ wait' - busy \in Int
            <7>1. wait' \in Int /\ wait \in Int /\ busy \in Int /\ wait' <= wait
              BY <1>num, <2>1
            <7>. QED  BY <7>1, WaitFacts, Zenon
          <6>. QED  BY <6>1, <6>2
        <5>3. CASE ~Passed(p)
          <6>1. Earliest(p) = -MaxBusy - busy /\ Earliest(p)' = -MaxBusy - busy
            BY <4>1, <5>1, <5>3 DEF Earliest
          <6>. QED  BY <1>num, <6>1
        <5>. QED  BY <5>2, <5>3
      <4>3. InTimeAt(p)
        BY <1>0, <2>1
      <4>4. Modules[p] \in LifeTimes => NoneBefore(lists[Modules[p]], Earliest(p)')
        BY <1>0, <4>2, <4>3, LaterBound DEF InTimeAt
      <4>5. Modules[p] # Notifier
        BY <2>1, <3>2, Constants DEF Here
      <4>. QED  BY <2>1, <4>4, <4>5 DEF InTimeAt
    <3>. QED  BY <3>1, <3>2
  <2>. QED  BY <1>0, <2>1, <2>2
<1>6. CASE Handle
  <2>1. /\ pc = "post" /\ pc' = "test" /\ Running
        /\ UNCHANGED <<due, busy, notify>>
        /\ \A p \in DOMAIN Modules : Earliest(p) = -busy /\ Earliest(p)' = -busy
    BY <1>6, HandleFacts DEF Running, Earliest, BeforeSelect
  <2>2. \A l \in LifeTimes : NoneBefore(lists[l], -busy)
    BY <1>0, <2>1, Constants DEF InTimeAt
  <2>3. \A l \in LifeTimes : NoneBefore(lists'[l], -busy)
    <3>1. ASSUME NEW l \in LifeTimes \ {Monitor}, NEW c \in Clients, NEW s \in Delays,
                 Sets(l, c, s)
          PROVE  \A m \in LifeTimes : NoneBefore(lists'[m], -busy)
      <4>1. lists[l] \in Seq(TimersOf(Data)) /\ Timer(c, s) \in TimersOf(Data)
            /\ Timer(c, s).tick = s /\ s \in Nat
        BY <1>0, TimerListDef, Constants DEF Timer
      <4>2. \A i \in DOMAIN Insert(lists[l], Timer(c, s)) :
              \/ Insert(lists[l], Timer(c, s))[i] = Timer(c, s)
              \/ \E j \in DOMAIN lists[l] : Insert(lists[l], Timer(c, s))[i] = lists[l][j]
        BY <4>1, InsertElements
      <4>3. s >= -busy /\ \A j \in DOMAIN lists[l] : lists[l][j].tick >= -busy
        BY <1>0, <2>2, <4>1 DEF NoneBefore
      <4>4. NoneBefore(Insert(lists[l], Timer(c, s)), -busy)
        BY <4>1, <4>2, <4>3 DEF NoneBefore
      <4>. QED  BY <1>0, <2>2, <3>1, <4>4 DEF Sets
    <3>2. ASSUME NEW l \in LifeTimes \ {Monitor}, NEW c \in Clients, Cancels(l, c)
          PROVE  \A m \in LifeTimes : NoneBefore(lists'[m], -busy)
      <4>1. lists[l] \in Seq(TimersOf(Data)) /\ OneTimerEach(lists[l])
        BY <1>0, TimerListDef DEF IInv, InOrder
      <4>2. \A i \in DOMAIN RemoveData(lists[l], c) : \E j \in DOMAIN lists[l] :
              RemoveData(lists[l], c)[i] = lists[l][j]
        BY <4>1, RemoveElements
      <4>3. NoneBefore(RemoveData(lists[l], c), -busy)
        BY <2>2, <4>2 DEF NoneBefore
      <4>. QED  BY <1>0, <2>2, <3>2, <4>3 DEF Cancels
    <3>. QED  BY <1>6, <2>2, <3>1, <3>2, HandleFacts
  <2>4. \A p \in DOMAIN Modules : Modules[p] = Notifier => notify >= -busy
    BY <1>0, <2>1 DEF InTimeAt
  <2>. QED  BY <1>0, <2>1, <2>3, <2>4 DEF InTimeAt
<1>7. CASE Destroy
  BY <1>7 DEF Destroy, Running
<1>8. CASE Tick
  <2>1. /\ Running /\ UNCHANGED <<pc, pos>> /\ notify' = notify - 1
        /\ due' = Aged(due) /\ \A l \in LifeTimes : lists'[l] = Aged(lists[l])
        /\ \/ pc = "select" /\ wait' = wait - 1 /\ busy' = busy
           \/ pc # "select" /\ wait' = wait /\ busy' = busy + 1
    BY <1>8 DEF Tick
  <2>2. \A p \in DOMAIN Modules : Earliest(p)' = Earliest(p) - 1
    <3>. TAKE p \in DOMAIN Modules
    <3>1. BeforeSelect' = BeforeSelect /\ Passed(p)' = Passed(p)
      BY <2>1 DEF BeforeSelect, Passed
    <3>2. CASE pc = "select"
      BY <1>0, <2>1, <3>1, <3>2 DEF Earliest, BeforeSelect
    <3>3. CASE pc # "select"
      <4>1. wait \in Int /\ busy \in Int /\ MaxBusy \in Int /\ busy' = busy + 1 /\ wait' = wait
            /\ pc' # "select"
        BY <1>num, <2>1, <3>3
      <4>2. /\ wait - (busy + 1) = (wait - busy) - 1 /\ -(busy + 1) = -busy - 1
            /\ -MaxBusy - (busy + 1) = (-MaxBusy - busy) - 1
        BY <4>1, WaitFacts, Zenon
      <4>3. CASE BeforeSelect /\ ~Passed(p)
        BY <3>1, <4>1, <4>2, <4>3, Zenon DEF Earliest
      <4>4. CASE BeforeSelect /\ Passed(p)
        BY <3>1, <4>1, <4>2, <4>4, Zenon DEF Earliest
      <4>5. CASE ~BeforeSelect
        BY <3>1, <3>3, <4>1, <4>2, <4>5, Zenon DEF Earliest
      <4>. QED  BY <4>3, <4>4, <4>5
    <3>. QED  BY <3>2, <3>3
  <2>3. ASSUME NEW q \in TimerList, NEW tick \in Int, NoneBefore(q, tick)
        PROVE  NoneBefore(Aged(q), tick - 1)
    <3>1. \A i \in DOMAIN q : q[i].tick \in Int
      BY TimerFacts
    <3>3. q \in Seq(TimersOf(Data))
      BY TimerListDef
    <3>2. DOMAIN Aged(q) = DOMAIN q /\ \A i \in DOMAIN q : Aged(q)[i].tick = q[i].tick - 1
      BY <3>3, AgedTimers
    <3>. QED  BY <2>3, <3>1, <3>2 DEF NoneBefore
  <2>4. \A p \in DOMAIN Modules : InTimeAt(p)'
    <3>. TAKE p \in DOMAIN Modules
    <3>1. InTimeAt(p) /\ Earliest(p) \in Int
      BY <1>0, <2>1
    <3>3. Modules[p] \in LifeTimes => NoneBefore(Aged(lists[Modules[p]]), Earliest(p) - 1)
      BY <1>0, <2>3, <3>1 DEF InTimeAt
    <3>4. Modules[p] = Notifier => notify - 1 >= Earliest(p) - 1
      BY <1>0, <3>1 DEF InTimeAt
    <3>. QED  BY <2>1, <2>2, <3>3, <3>4 DEF InTimeAt
  <2>5. NoneBefore(due', -MaxBusy - busy')
    <3>1. CASE pc = "select"
      <4>1. due' = <<>>
        BY <2>1, <3>1, PositionStep DEF Position
      <4>. QED  BY <4>1 DEF NoneBefore
    <3>2. CASE pc # "select"
      <4>1. NoneBefore(Aged(due), (-MaxBusy - busy) - 1)
        BY <1>0, <2>1, <2>3
      <4>2. (-MaxBusy - busy) - 1 = -MaxBusy - busy'
        <5>1. busy \in Int /\ MaxBusy \in Int /\ busy' = busy + 1
          BY <1>num, <2>1, <3>2
        <5>. QED  BY <5>1, WaitFacts, Zenon
      <4>. QED  BY <2>1, <4>1, <4>2
    <3>. QED  BY <3>1, <3>2
  <2>. QED  BY <2>4, <2>5
<1>. QED  BY <1>1, <1>2, <1>3, <1>4, <1>5, <1>6, <1>7, <1>8, CalmSteps
-----------------------------------------------------------------------------
(* The timer of the monitor, and how long select waits.                    *)

(* What the list of the monitor holds between two looks at the addresses.  *)
HasItsTimer(q) == Len(q) = 1 /\ q[1].tick <= MonitorPeriod

LEMMA MonitoredParts ==
  Monitored <=>
    (Running => IF Calling /\ Here = Monitor
                THEN \/ Len(due) = 1 /\ lists[Monitor] = <<>>
                     \/ /\ due = <<>> /\ HasItsTimer(lists[Monitor])
                        /\ lists[Monitor][1].tick - checkTick <= LongestWait
                ELSE HasItsTimer(lists[Monitor]))
BY DEF Monitored, HasItsTimer

LEMMA MonitoredStep ==
  ASSUME IInv, [Next]_vars
  PROVE  Monitored'
<1>. SUFFICES ASSUME Running'
              PROVE  IF Calling' /\ Here' = Monitor
                     THEN \/ Len(due') = 1 /\ lists'[Monitor] = <<>>
                          \/ /\ due' = <<>> /\ HasItsTimer(lists'[Monitor])
                             /\ lists'[Monitor][1].tick - checkTick' <= LongestWait
                     ELSE HasItsTimer(lists'[Monitor])
  BY DEF Monitored, HasItsTimer
<1>0. /\ TypeOK /\ Position /\ Splice /\ Monitor \in LifeTimes
      /\ lists \in [LifeTimes -> TimerList] /\ lists[Monitor] \in TimerList
      /\ Running => IF Calling /\ Here = Monitor
                    THEN \/ Len(due) = 1 /\ lists[Monitor] = <<>>
                         \/ /\ due = <<>> /\ HasItsTimer(lists[Monitor])
                            /\ lists[Monitor][1].tick - checkTick <= LongestWait
                    ELSE HasItsTimer(lists[Monitor])
  BY MonitoredParts, Constants DEF IInv, TypeOK
<1>e. Len(<<>>) = 0
  OBVIOUS
<1>1. CASE Calm
  <2>1. Running /\ UNCHANGED <<lists, due, checkTick>> /\ (Calling' <=> Calling)
        /\ (Calling => Here' = Here)
    <3>1. \E p \in DOMAIN Modules : Modules[p] = Monitor
      BY Constants
    <3>2. Running
      BY <1>1, <3>1, EarliestCalm
    <3>. QED  BY <1>1, <3>2, CalmFacts DEF Running, Calling, Here
  <2>. QED  BY <1>0, <2>1
<1>2. CASE BeginCheck
  <2>1. Running /\ HasItsTimer(lists[Monitor])
    BY <1>0, <1>2 DEF BeginCheck, Running, Calling
  <2>2. CASE lists[Here] = <<>>
    BY <1>2, <2>1, <2>2 DEF BeginCheck, Calling
  <2>3. CASE lists[Here] # <<>> /\ Here # Monitor
    <3>1. lists' = [lists EXCEPT ![Here] = NotDue(lists[Here])] /\ Here' = Here
      BY <1>2, <2>3, BeginCheckFacts DEF Here
    <3>2. lists'[Monitor] = lists[Monitor]
      BY <1>0, <2>3, <3>1
    <3>. QED  BY <2>1, <2>3, <3>1, <3>2
  <2>4. CASE lists[Here] # <<>> /\ Here = Monitor
    <3>. DEFINE q == lists[Monitor]
    <3>1. /\ lists' = [lists EXCEPT ![Monitor] = NotDue(q)] /\ due' = Due(q)
          /\ Here' = Monitor /\ Calling' /\ checkTick' = 0
          /\ due' \in TimerList /\ NotDue(q) \in TimerList
      BY <1>2, <2>4, BeginCheckFacts DEF Here, Calling
    <3>2. lists'[Monitor] = NotDue(q)
      BY <1>0, <3>1
    <3>3. q \in Seq(TimersOf(Data)) /\ Len(q) = 1 /\ q[1].tick <= MonitorPeriod
      BY <1>0, <2>1, TimerListDef DEF HasItsTimer
    <3>. HIDE DEF q
    <3>4. /\ DueCount(q) \in 0..Len(q)
          /\ Len(Due(q)) = DueCount(q) /\ Len(NotDue(q)) = Len(q) - DueCount(q)
          /\ \A i \in 1..(Len(q) - DueCount(q)) : NotDue(q)[i] = q[DueCount(q) + i]
      BY <3>3, DueSplit
    <3>6. /\ Due(q) \in Seq(TimersOf(Data)) /\ NotDue(q) \in Seq(TimersOf(Data))
      BY <3>1, TimerListDef
    <3>7. CASE DueCount(q) = 1
      <4>2. Len(Due(q)) = 1 /\ Len(NotDue(q)) = 0
        BY <3>3, <3>4, <3>7
      <4>. QED  BY <3>1, <3>2, <3>6, <4>2, EmptySeq
    <3>8. CASE DueCount(q) = 0
      <4>1. NotDue(q)[1] = q[1]
        BY <3>3, <3>4, <3>8
      <4>2. Len(Due(q)) = 0 /\ Len(NotDue(q)) = 1
        BY <3>3, <3>4, <3>8
      <4>3. q[1].tick - 0 <= LongestWait
        <5>1. q[1].tick \in Int
          <6>1. 1 \in 1..Len(q)
            BY <3>3
          <6>2. q[1] \in TimersOf(Data)
            BY <3>3, <6>1, ElementOfSeq
          <6>. QED  BY <6>2 DEF TimersOf
        <5>. QED  BY <3>3, <5>1, Constants DEF LongestWait
      <4>. QED  BY <3>1, <3>2, <3>3, <3>6, <4>1, <4>2, <4>3, EmptySeq DEF HasItsTimer
    <3>. QED  BY <3>3, <3>4, <3>7, <3>8
  <2>. QED  BY <2>2, <2>3, <2>4
<1>3. CASE Call
  <2>1. UNCHANGED <<pc, pos, checkTick>> /\ pc = "calling" /\ Running
    BY <1>3 DEF Call, Loop, Running
  <2>2. CASE Here # Monitor
    <3>1. lists' = lists /\ Here' = Here /\ HasItsTimer(lists[Monitor])
      BY <1>0, <1>3, <2>1, <2>2, CallFacts DEF Here
    <3>. QED  BY <2>2, <3>1
  <2>3. CASE Here = Monitor
    <3>1. /\ due' = <<>> /\ Here' = Monitor /\ Calling'
          /\ lists' = [lists EXCEPT ![Monitor] = <<Timer(Monitor, MonitorPeriod)>>]
      BY <1>3, <2>1, <2>3, CallFacts DEF Here, Calling
    <3>2. /\ lists'[Monitor] = <<Timer(Monitor, MonitorPeriod)>>
          /\ lists'[Monitor][1].tick = MonitorPeriod
      BY <1>0, <3>1 DEF Timer
    <3>3. HasItsTimer(lists'[Monitor])
      BY <3>2, Constants DEF HasItsTimer
    <3>4. MonitorPeriod - checkTick <= LongestWait
      BY <1>0, <2>1, Constants DEF Splice, Calling, LongestWait, TypeOK
    <3>. QED  BY <2>1, <3>1, <3>2, <3>3, <3>4
  <2>. QED  BY <2>2, <2>3
<1>4. CASE EndCheck
  <2>1. Running /\ Calling /\ ~Calling' /\ lists' = lists /\ due = <<>>
    BY <1>4 DEF EndCheck, Running, Calling
  <2>. QED  BY <1>0, <1>e, <2>1
<1>5. CASE Advertise
  <2>1. Running /\ ~Calling /\ ~Calling' /\ lists' = lists
    BY <1>5 DEF Advertise, Running, Calling
  <2>. QED  BY <1>0, <2>1
<1>6. CASE Handle
  <2>1. Running /\ ~Calling /\ ~Calling'
    BY <1>6 DEF Handle, Running, Calling
  <2>2. lists'[Monitor] = lists[Monitor]
    BY <1>0, <1>6, HandleFacts DEF Sets, Cancels
  <2>. QED  BY <1>0, <2>1, <2>2
<1>7. CASE Destroy
  BY <1>7 DEF Destroy, Running
<1>8. CASE Tick
  <2>1. /\ Running /\ UNCHANGED <<pc, pos>> /\ Here' = Here /\ (Calling' <=> Calling)
        /\ due' = Aged(due) /\ lists'[Monitor] = Aged(lists[Monitor])
        /\ checkTick' = IF Calling THEN checkTick - 1 ELSE checkTick
    BY <1>0, <1>8 DEF Tick, Here, Calling
  <2>2. ASSUME NEW q \in TimerList
        PROVE  /\ Len(Aged(q)) = Len(q) /\ (q = <<>> => Aged(q) = <<>>)
               /\ HasItsTimer(q) => HasItsTimer(Aged(q)) /\ Aged(q)[1].tick = q[1].tick - 1
    <3>1. q \in Seq(TimersOf(Data))
      BY TimerListDef
    <3>2. /\ Aged(q) \in Seq(TimersOf(Data)) /\ Len(Aged(q)) = Len(q)
          /\ \A i \in DOMAIN q : Aged(q)[i].tick = q[i].tick - 1
      BY <3>1, AgedTimers
    <3>3. Len(q) = 1 => 1 \in DOMAIN q /\ q[1].tick \in Int
      BY TimerFacts
    <3>. QED  BY <1>e, <3>1, <3>2, <3>3, Constants, EmptySeq DEF HasItsTimer
  <2>3. due \in TimerList
    BY <1>0 DEF TypeOK
  <2>4. CASE Calling /\ Here = Monitor /\ due = <<>>
    <3>1. HasItsTimer(lists[Monitor]) /\ lists[Monitor][1].tick - checkTick <= LongestWait
      BY <1>0, <1>e, <2>1, <2>4
    <3>2. due' = <<>> /\ HasItsTimer(lists'[Monitor])
          /\ lists'[Monitor][1].tick = lists[Monitor][1].tick - 1
      BY <1>0, <2>1, <2>2, <2>3, <2>4, <3>1
    <3>3. lists[Monitor][1].tick \in Int /\ checkTick \in Int
      BY <1>0, <3>1, TimerFacts DEF HasItsTimer, TypeOK
    <3>4. (lists[Monitor][1].tick - 1) - (checkTick - 1) = lists[Monitor][1].tick - checkTick
      BY <3>3
    <3>. QED  BY <2>1, <2>4, <3>1, <3>2, <3>4
  <2>5. CASE Calling /\ Here = Monitor /\ due # <<>>
    BY <1>0, <2>1, <2>2, <2>3, <2>5
  <2>6. CASE ~(Calling /\ Here = Monitor)
    BY <1>0, <2>1, <2>2, <2>6
  <2>. QED  BY <2>4, <2>5, <2>6
<1>. QED  BY <1>1, <1>2, <1>3, <1>4, <1>5, <1>6, <1>7, <1>8, CalmSteps
LEMMA WaitBoundedStep ==
  ASSUME IInv, [Next]_vars
  PROVE  WaitBounded'
<1>0. /\ wait \in Nat /\ wait' \in Nat /\ LongestWait \in Nat
      /\ pos \in Nat /\ pos \in 1..(Len(Modules) + 1) /\ pos' \in Nat
      /\ DOMAIN Modules = 1..Len(Modules) /\ Len(Modules) \in Nat
      /\ \A p \in DOMAIN Modules : p \in Nat /\ p <= Len(Modules) /\ p >= 1
      /\ \A p \in DOMAIN Modules : Modules[p] = Monitor /\ Passed(p) => wait <= LongestWait
      /\ pc = "select" => wait <= LongestWait
      /\ \E p \in DOMAIN Modules : Modules[p] = Monitor
      /\ Monitor \in LifeTimes
  BY TypeStep, Constants DEF IInv, TypeOK, WaitBounded
(* Nobody more has been asked, and the wait is no longer.                  *)
<1>p. ASSUME wait' <= wait, pc' # "select" \/ pc = "select",
             \A p \in DOMAIN Modules : Modules[p] = Monitor /\ Passed(p)' => Passed(p)
      PROVE  WaitBounded'
  BY <1>0, <1>p DEF WaitBounded
<1>1. CASE Calm
  <2>1. CASE EnterSelect
    <3>1. \A p \in DOMAIN Modules : Passed(p)
      BY <1>0, <2>1 DEF EnterSelect, Passed
    <3>2. wait <= LongestWait
      BY <1>0, <3>1
    <3>3. wait' = 0 \/ wait' = wait
      BY <2>1 DEF EnterSelect
    <3>4. \A p \in DOMAIN Modules : ~Passed(p)'
      BY <2>1 DEF EnterSelect, Passed
    <3>5. wait' <= LongestWait
      BY <1>0, <3>2, <3>3
    <3>. QED  BY <3>4, <3>5 DEF WaitBounded
  <2>2. CASE Arm
    <3>1. \A p \in DOMAIN Modules : ~Passed(p)'
      BY <1>0, <2>2 DEF Arm, Passed
    <3>. QED  BY <2>2, <3>1 DEF Arm, WaitBounded
  <2>3. CASE LoopTest \/ SelectTimeout \/ SelectReady \/ Selected \/ Reopen
    <3>1. wait' <= wait /\ pc' # "select" /\ pc' \notin {"preselect", "calling"}
      BY <1>0, <2>3 DEF LoopTest, SelectTimeout, SelectReady, Selected, Reopen
    <3>. QED  BY <1>p, <3>1 DEF Passed
  <2>4. CASE Signal \/ Unblock \/ UNCHANGED vars
    <3>1. wait' = wait /\ pos' = pos /\ (pc' = pc \/ pc' \in {"selected", "hung"})
      BY <2>4 DEF Signal, SignalHere, SignalHereUnderLock, SignalElsewhere, Unblock, Loop, vars
    <3>. QED  BY <1>0, <1>p, <3>1 DEF Passed
  <2>. QED  BY <1>1, <2>1, <2>2, <2>3, <2>4 DEF Calm
<1>2. CASE BeginCheck
  <2>1. wait' = wait /\ pc = "preselect" /\ pc' # "select"
    BY <1>2 DEF BeginCheck
  <2>2. CASE lists[Here] = <<>>
    <3>1. pos' = pos + 1 /\ pc' = pc /\ pos \in DOMAIN Modules
      BY <1>0, <1>2, <2>2 DEF BeginCheck
    <3>2. Here # Monitor
      <4>1. Len(lists[Monitor]) = 1
        BY <2>1 DEF IInv, Monitored, Running, Calling
      <4>2. Len(<<>>) = 0
        OBVIOUS
      <4>. QED  BY <2>2, <4>1, <4>2
    <3>3. \A p \in DOMAIN Modules : Modules[p] = Monitor /\ Passed(p)' => Passed(p)
      BY <1>0, <2>1, <3>1, <3>2 DEF Passed, Here
    <3>. QED  BY <1>0, <1>p, <2>1, <3>3
  <2>3. CASE lists[Here] # <<>>
    BY <1>0, <1>2, <1>p, <2>1, <2>3 DEF BeginCheck, Passed
  <2>. QED  BY <2>2, <2>3
<1>3. CASE Call
  BY <1>0, <1>3, <1>p DEF Call, Loop, Passed
<1>4. CASE EndCheck
  <2>1. /\ pc = "calling" /\ pc' = "preselect" /\ pos' = pos + 1 /\ due = <<>>
        /\ Here \in LifeTimes /\ pos \in DOMAIN Modules
    BY <1>4 DEF EndCheck, IInv, Position, Calling
  <2>2. lists[Here] \in TimerList /\ checkTick \in Int
    BY <2>1 DEF IInv, TypeOK
  <2>3. lists[Here] # <<>> => lists[Here][1].tick - checkTick \in Int
    BY <2>2, TimerFacts
  <2>4. wait' <= wait
    BY <1>0, <1>4, <2>3 DEF EndCheck, Min2
  <2>5. CASE Here # Monitor
    <3>1. \A p \in DOMAIN Modules : Modules[p] = Monitor /\ Passed(p)' => Passed(p)
      BY <1>0, <2>1, <2>5 DEF Passed, Here
    <3>. QED  BY <1>p, <2>1, <2>4, <3>1
  <2>6. CASE Here = Monitor
    <3>1. /\ Len(lists[Monitor]) = 1
          /\ lists[Monitor][1].tick - checkTick <= LongestWait
      <4>1. Len(<<>>) = 0
        OBVIOUS
      <4>. QED  BY <2>1, <2>6, <4>1 DEF IInv, Monitored, Running, Calling
    <3>2. lists[Monitor] # <<>>
      <4>1. Len(<<>>) = 0
        OBVIOUS
      <4>. QED  BY <3>1, <4>1
    <3>3. wait' <= LongestWait
      BY <1>0, <1>4, <2>3, <2>6, <3>1, <3>2 DEF EndCheck, Min2
    <3>. QED  BY <2>1, <3>3 DEF WaitBounded
  <2>. QED  BY <2>5, <2>6
<1>5. CASE Advertise
  <2>1. wait' <= wait /\ pc' = pc /\ pc = "preselect" /\ pos' = pos + 1 /\ Here = Notifier
        /\ pos \in DOMAIN Modules
    <3>1. notify' \in Int
      BY TypeStep DEF TypeOK
    <3>. QED  BY <1>0, <1>5, <3>1 DEF Advertise, Min2
  <2>2. \A p \in DOMAIN Modules : Modules[p] = Monitor /\ Passed(p)' => Passed(p)
    BY <1>0, <2>1, Constants DEF Passed, Here
  <2>. QED  BY <1>p, <2>1, <2>2
<1>6. CASE Handle
  BY <1>6 DEF Handle, WaitBounded, Passed
<1>7. CASE Destroy
  BY <1>7 DEF Destroy, WaitBounded, Passed
<1>8. CASE Tick
  <2>1. wait' <= wait /\ pc' = pc /\ pos' = pos
    BY <1>0, <1>8 DEF Tick
  <2>. QED  BY <1>p, <2>1 DEF Passed
<1>. QED  BY <1>1, <1>2, <1>3, <1>4, <1>5, <1>6, <1>7, <1>8, CalmSteps

LEMMA StopBoundedStep ==
  ASSUME IInv, [Next]_vars
  PROVE  StopBounded'
<1>. SUFFICES ASSUME Running' PROVE StopBounded'
  BY DEF StopBounded
<1>0. /\ wait \in Nat /\ wait' \in Nat /\ LongestWait \in Nat /\ MaxBusy \in Nat
      /\ busy \in Nat /\ busy' \in Nat /\ busy' <= MaxBusy /\ stopping \in Nat
      /\ StopLimit = LongestWait + MaxBusy
      /\ Running /\ break = "none" => stopping = 0
      /\ Running /\ BeforeSelect => stopping <= busy
      /\ Running => stopping + (MaxBusy - busy) + Remaining <= StopLimit
  BY TypeStep, Constants DEF IInv, TypeOK, StopBounded
(* Steps that take no time.                                                *)
<1>p. ASSUME Running, stopping' = stopping, busy' = busy, break' = "none" => break = "none",
             BeforeSelect' => BeforeSelect, Remaining' <= Remaining, Remaining \in Int, Remaining' \in Int
      PROVE  StopBounded'
  <2>1. \A x, r, t, z \in Int : x + r <= z /\ t <= r => x + t <= z
    OBVIOUS
  <2>2. stopping + (MaxBusy - busy) \in Int /\ StopLimit \in Int
        /\ stopping + (MaxBusy - busy) + Remaining <= StopLimit
    BY <1>0, <1>p
  <2>3. stopping + (MaxBusy - busy) + Remaining' <= StopLimit
    BY <1>p, <2>1, <2>2, Zenon
  <2>4. stopping' + (MaxBusy - busy') + Remaining' <= StopLimit
    BY <1>p, <2>3
  <2>. QED  BY <1>0, <1>p, <2>4 DEF StopBounded
<1>r. Remaining \in Int /\ Remaining' \in Int
  BY <1>0 DEF Remaining
<1>1. CASE Calm
  <2>1. CASE LoopTest
    <3>1. Running /\ stopping' = 0 /\ busy' = 0 /\ BeforeSelect' /\ break' = "none"
      BY <1>0, <2>1 DEF LoopTest, Running, BeforeSelect
    <3>2. Remaining' = LongestWait
      BY <3>1 DEF Remaining
    <3>3. 0 <= 0 /\ 0 + (MaxBusy - 0) + LongestWait <= StopLimit
      BY <1>0
    <3>. QED  BY <3>1, <3>2, <3>3 DEF StopBounded
  <2>2. CASE EnterSelect
    <3>1. /\ Running /\ stopping' = stopping /\ busy' = busy /\ break' = break
          /\ pc = "preselect" /\ pc' = "select"
      BY <2>2 DEF EnterSelect, Running
    <3>2. wait' <= LongestWait
      BY <3>1, WaitBoundedStep DEF WaitBounded
    <3>3. Remaining' <= Remaining /\ BeforeSelect /\ ~BeforeSelect'
      BY <3>1, <3>2 DEF Remaining, BeforeSelect
    <3>. QED  BY <1>p, <1>r, <3>1, <3>3
  <2>3. CASE Arm
    <3>1. /\ Running /\ stopping' = stopping /\ busy' = busy /\ break' = break
          /\ BeforeSelect /\ BeforeSelect'
      BY <2>3 DEF Arm, Running, BeforeSelect
    <3>2. Remaining' = Remaining
      BY <3>1 DEF Remaining
    <3>. QED  BY <1>0, <1>p, <1>r, <3>1, <3>2
  <2>4. CASE SelectTimeout \/ SelectReady \/ Selected \/ Reopen
    <3>1. /\ Running /\ stopping' = stopping /\ busy' = busy /\ break' = break
          /\ ~BeforeSelect' /\ ~BeforeSelect /\ pc' # "select"
      BY <2>4 DEF SelectTimeout, SelectReady, Selected, Reopen, Running, BeforeSelect
    <3>2. Remaining' <= Remaining
      BY <1>0, <3>1 DEF Remaining
    <3>. QED  BY <1>p, <1>r, <3>1, <3>2
  <2>5. CASE Signal \/ Unblock \/ UNCHANGED vars
    <3>1. /\ Running /\ stopping' = stopping /\ busy' = busy /\ wait' = wait
          /\ break' = "none" => break = "none"
          /\ pc' = pc \/ (pc' = "selected" /\ pc = "select")
      BY <2>5 DEF Signal, SignalHere, SignalHereUnderLock, SignalElsewhere, Unblock, Loop,
                  vars, Running
    <3>2. Remaining' <= Remaining /\ (BeforeSelect' => BeforeSelect)
      BY <1>0, <3>1 DEF Remaining, BeforeSelect
    <3>. QED  BY <1>p, <1>r, <3>1, <3>2
  <2>. QED  BY <1>1, <2>1, <2>2, <2>3, <2>4, <2>5 DEF Calm
<1>2. CASE BeginCheck \/ Call \/ EndCheck \/ Advertise
  <2>1. /\ Running /\ stopping' = stopping /\ busy' = busy /\ break' = break
        /\ BeforeSelect /\ BeforeSelect'
    BY <1>2 DEF BeginCheck, Call, EndCheck, Advertise, Running, BeforeSelect, Loop
  <2>2. Remaining' = Remaining
    BY <2>1 DEF Remaining
  <2>. QED  BY <1>0, <1>p, <1>r, <2>1, <2>2
<1>3. CASE Handle
  <2>1. /\ Running /\ stopping' = stopping /\ busy' = busy /\ break' = break
        /\ ~BeforeSelect' /\ ~BeforeSelect /\ pc' # "select" /\ pc # "select"
    BY <1>3 DEF Handle, Running, BeforeSelect
  <2>2. Remaining' = Remaining
    BY <2>1 DEF Remaining
  <2>. QED  BY <1>0, <1>p, <1>r, <2>1, <2>2
<1>4. CASE Destroy
  BY <1>4 DEF Destroy, Running
<1>5. CASE Tick
  <2>1. /\ Running /\ pc' = pc /\ break' = break /\ stopping' \in Nat
        /\ \/ stopping' = stopping
           \/ stopping' = stopping + 1
        /\ break = "none" => stopping' = stopping
        /\ \/ pc = "select" /\ wait' = wait - 1 /\ busy' = busy
           \/ pc # "select" /\ wait' = wait /\ busy' = busy + 1
    BY <1>0, <1>5 DEF Tick
  <2>2. stopping' \in Nat /\ stopping' <= stopping + 1
    BY <1>0, <2>1
  <2>3. CASE pc = "select"
    <3>1. Remaining = wait /\ Remaining' = wait - 1 /\ ~BeforeSelect'
      BY <2>1, <2>3 DEF Remaining, BeforeSelect
    <3>2. stopping' + (MaxBusy - busy') + Remaining' <= StopLimit
      <4>1. stopping + (MaxBusy - busy) + wait <= StopLimit
        BY <1>0, <2>1, <3>1
      <4>2. \A s, m, b, w, t, z \in Int : s + (m - b) + w <= z /\ t <= s + 1
                                           => t + (m - b) + (w - 1) <= z
        OBVIOUS
      <4>3. stopping' + (MaxBusy - busy) + (wait - 1) <= StopLimit
        <5>1. stopping \in Int /\ stopping' \in Int /\ MaxBusy \in Int /\ busy \in Int
              /\ wait \in Int /\ StopLimit \in Int
          BY <1>0, <2>2
        <5>. QED  BY <2>2, <4>1, <4>2, <5>1, Zenon
      <4>. QED  BY <2>1, <2>3, <3>1, <4>3
    <3>. QED  BY <1>0, <2>1, <3>1, <3>2 DEF StopBounded
  <2>4. CASE pc # "select"
    <3>1. Remaining' = Remaining /\ BeforeSelect' = BeforeSelect /\ busy' = busy + 1
      BY <2>1, <2>4 DEF Remaining, BeforeSelect
    <3>2. stopping' + (MaxBusy - busy') + Remaining' <= StopLimit
      <4>1. stopping + (MaxBusy - busy) + Remaining <= StopLimit
        BY <1>0, <2>1
      <4>2. \A s, m, b, r, t, z \in Int : s + (m - b) + r <= z /\ t <= s + 1
                                           => t + (m - (b + 1)) + r <= z
        OBVIOUS
      <4>3. stopping' + (MaxBusy - (busy + 1)) + Remaining <= StopLimit
        <5>1. stopping \in Int /\ stopping' \in Int /\ MaxBusy \in Int /\ busy \in Int
              /\ Remaining \in Int /\ StopLimit \in Int
          BY <1>0, <1>r, <2>2
        <5>. QED  BY <2>2, <4>1, <4>2, <5>1, Zenon
      <4>. QED  BY <3>1, <4>3
    <3>3. BeforeSelect' => stopping' <= busy'
      <4>1. BeforeSelect => stopping <= busy
        BY <1>0, <2>1
      <4>2. \A s, b, t \in Int : s <= b /\ t <= s + 1 => t <= b + 1
        OBVIOUS
      <4>3. stopping \in Int /\ stopping' \in Int /\ busy \in Int
        BY <1>0, <2>2
      <4>4. BeforeSelect => stopping' <= busy + 1
        BY <2>2, <4>1, <4>2, <4>3, Zenon
      <4>. QED  BY <3>1, <4>4
    <3>. QED  BY <1>0, <2>1, <3>2, <3>3 DEF StopBounded
  <2>. QED  BY <2>3, <2>4
<1>. QED  BY <1>1, <1>2, <1>3, <1>4, <1>5, CalmSteps

-----------------------------------------------------------------------------
LEMMA IInvStep == IInv /\ [Next]_vars => IInv'
<1>. SUFFICES ASSUME IInv, [Next]_vars PROVE IInv'
  OBVIOUS
<1>1. TypeOK' /\ Position' /\ Splice'
  BY TypeStep, PositionStep, SpliceStep
<1>2. InOrder' /\ InTime'
  BY InOrderStep, InTimeStep
<1>3. Monitored' /\ WaitBounded' /\ StopBounded'
  BY MonitoredStep, WaitBoundedStep, StopBoundedStep
<1>. QED  BY <1>1, <1>2, <1>3 DEF IInv

LEMMA Invariance == Spec => []IInv
<1>1. Init => IInv
  BY InitIInv
<1>2. IInv /\ [Next]_vars => IInv'
  BY IInvStep
<1>. QED  BY <1>1, <1>2, PTL DEF Spec

(* ILibStartChain never calls select with a negative time or with more     *)
(* than UPNP_MAX_WAIT, for any set of timers and any duration of the turns *)
(* of its loop: TypeOK bounds blocktime and types the rest of the state.   *)
THEOREM WaitsWithinBounds == Spec => []TypeOK
<1>1. IInv => TypeOK
  BY DEF IInv
<1>. QED  BY <1>1, Invariance, PTL

(* The list of every ILibLifeTime stays sorted by expiry with one timer    *)
(* per client, and so does what ILibLifeTime_Check has spliced off it.     *)
THEOREM TimersInOrder == Spec => []ListsInOrder
<1>1. IInv => ListsInOrder
  <2>. SUFFICES ASSUME IInv, NEW l \in LifeTimes
                PROVE  LET q == IF pc = "calling" /\ Here = l THEN due \o lists[l] ELSE lists[l]
                       IN  OneTimerEach(q) /\ SoonestFirst(lists[l]) /\ SoonestFirst(due)
    BY DEF ListsInOrder
  <2>1. OneTimerEach(lists[l]) /\ SoonestFirst(lists[l]) /\ SoonestFirst(due)
    BY DEF IInv, InOrder
  <2>2. pc = "calling" /\ Here = l => OneTimerEach(due \o lists[l])
    BY DEF IInv, Splice, Calling
  <2>. QED  BY <2>1, <2>2, Zenon
<1>. QED  BY <1>1, Invariance, PTL

(* ILibStopChain, from any thread and whether or not its wake-up is lost,  *)
(* ends the loop within one period of UpnpIPAddressMonitor and two turns.  *)
THEOREM StopsInTime == Spec => []StopIsPrompt
<1>1. IInv => StopIsPrompt
  <2>. SUFFICES ASSUME IInv, Running
                PROVE  stopping <= StopLimit
    BY DEF StopIsPrompt
  <2>1. /\ stopping \in Nat /\ busy \in Nat /\ busy <= MaxBusy /\ MaxBusy \in Nat
        /\ wait \in Nat /\ LongestWait \in Nat /\ StopLimit \in Nat
    BY Constants DEF IInv, TypeOK
  <2>2. stopping + (MaxBusy - busy) + Remaining <= StopLimit
    BY DEF IInv, StopBounded
  <2>3. Remaining \in Nat
    BY <2>1 DEF Remaining
  <2>. QED  BY <2>1, <2>2, <2>3
<1>. QED  BY <1>1, Invariance, PTL
-----------------------------------------------------------------------------
(* The timers of the chain are those of module Timers.                     *)

(* The list of the monitor, spliced or not, holds its own timers only.     *)
OwnTimers ==
  /\ \A i \in DOMAIN lists[Monitor] : lists[Monitor][i].data = Monitor
  /\ Calling /\ Here = Monitor => \A i \in DOMAIN due : due[i].data = Monitor

Keeps == IInv /\ OwnTimers

LEMMA KeepsInit == Init => Keeps
<1>. SUFFICES ASSUME Init PROVE OwnTimers
  BY InitIInv DEF Keeps
<1>1. lists[Monitor] = <<Timer(Monitor, MonitorPeriod)>> /\ ~Calling
  BY Constants DEF Init, Calling
<1>2. DOMAIN <<Timer(Monitor, MonitorPeriod)>> = {1}
  OBVIOUS
<1>. QED  BY <1>1, <1>2 DEF OwnTimers, Timer

LEMMA KeepsStep == Keeps /\ [Next]_vars => Keeps'
<1>. SUFFICES ASSUME Keeps, [Next]_vars PROVE OwnTimers'
  BY IInvStep DEF Keeps
<1>. DEFINE Own(q) == \A i \in DOMAIN q : q[i].data = Monitor
<1>. SUFFICES Own(lists'[Monitor]) /\ (Calling' /\ Here' = Monitor => Own(due'))
  BY DEF OwnTimers
<1>0. /\ IInv /\ Own(lists[Monitor]) /\ (Calling /\ Here = Monitor => Own(due))
      /\ Monitor \in LifeTimes /\ lists \in [LifeTimes -> TimerList]
      /\ lists[Monitor] \in TimerList /\ due \in TimerList
  BY Constants DEF Keeps, IInv, TypeOK, OwnTimers
<1>. HIDE DEF Own
<1>1. CASE Calm
  BY <1>0, <1>1, CalmFacts DEF Calling, Here
<1>2. CASE BeginCheck
  <2>1. CASE lists[Here] = <<>>
    BY <1>0, <1>2, <2>1 DEF BeginCheck, Calling
  <2>2. CASE lists[Here] # <<>> /\ Here # Monitor
    BY <1>0, <1>2, <2>2, BeginCheckFacts DEF Here
  <2>3. CASE lists[Here] # <<>> /\ Here = Monitor
    <3>. DEFINE q == lists[Monitor]
    <3>1. /\ lists'[Monitor] = NotDue(q) /\ due' = Due(q)
      BY <1>0, <1>2, <2>3, BeginCheckFacts
    <3>2. q \in Seq(TimersOf(Data))
      BY <1>0, TimerListDef
    <3>7. Own(q)
      BY <1>0
    <3>. HIDE DEF q
    <3>3. /\ DueCount(q) \in 0..Len(q) /\ Len(q) \in Nat /\ DOMAIN q = 1..Len(q)
          /\ DOMAIN Due(q) = 1..DueCount(q)
          /\ \A i \in 1..DueCount(q) : Due(q)[i] = q[i]
          /\ DOMAIN NotDue(q) = 1..(Len(q) - DueCount(q))
          /\ \A i \in 1..(Len(q) - DueCount(q)) : NotDue(q)[i] = q[DueCount(q) + i]
      BY <3>2, DueSplit
    <3>4. Own(Due(q))
      BY <3>7, <3>3 DEF Own
    <3>5. \A i \in 1..(Len(q) - DueCount(q)) : DueCount(q) + i \in DOMAIN q
      BY <3>3
    <3>6. Own(NotDue(q))
      BY <3>7, <3>3, <3>5 DEF Own
    <3>. QED  BY <3>1, <3>4, <3>6
  <2>. QED  BY <2>1, <2>2, <2>3
<1>3. CASE Call
  <2>1. UNCHANGED <<pc, pos>> /\ Calling /\ Here' = Here
    BY <1>3 DEF Call, Loop, Calling, Here
  <2>2. CASE Here # Monitor
    BY <1>0, <1>3, <2>1, <2>2, CallFacts
  <2>3. CASE Here = Monitor
    <3>1. /\ lists' = [lists EXCEPT ![Monitor] = <<Timer(Monitor, MonitorPeriod)>>]
          /\ due' = <<>>
      BY <1>0, <1>3, <2>3, CallFacts
    <3>2. lists'[Monitor] = <<Timer(Monitor, MonitorPeriod)>>
      BY <1>0, <3>1
    <3>3. Own(<<>>) /\ Own(<<Timer(Monitor, MonitorPeriod)>>)
      BY DEF Own, Timer
    <3>. QED  BY <3>1, <3>2, <3>3
  <2>. QED  BY <2>2, <2>3
<1>4. CASE EndCheck \/ Advertise
  BY <1>0, <1>4 DEF EndCheck, Advertise, Calling
<1>5. CASE Handle
  <2>1. lists'[Monitor] = lists[Monitor] /\ ~Calling'
    BY <1>0, <1>5, HandleFacts DEF Sets, Cancels, Calling
  <2>. QED  BY <1>0, <2>1
<1>6. CASE Destroy
  <2>1. lists'[Monitor] = <<>> /\ ~Calling' /\ Own(<<>>)
    BY <1>0, <1>6 DEF Destroy, Flushed, Calling, Own
  <2>. QED  BY <2>1
<1>7. CASE Tick
  <2>1. /\ due' = Aged(due) /\ lists'[Monitor] = Aged(lists[Monitor])
        /\ (Calling' <=> Calling) /\ Here' = Here
    BY <1>0, <1>7 DEF Tick, Calling, Here
  <2>2. ASSUME NEW q \in TimerList, Own(q)
        PROVE  Own(Aged(q))
    <3>1. q \in Seq(TimersOf(Data))
      BY TimerListDef
    <3>2. DOMAIN Aged(q) = DOMAIN q /\ \A i \in DOMAIN q : Aged(q)[i].data = q[i].data
      BY <3>1, AgedTimers
    <3>. QED  BY <2>2, <3>2 DEF Own
  <2>. QED  BY <1>0, <2>1, <2>2
<1>. QED  BY <1>1, <1>2, <1>3, <1>4, <1>5, <1>6, <1>7, CalmSteps

-----------------------------------------------------------------------------
(* What the operations on a list do to the set of its timers.              *)
Key(m, t) == [key |-> <<m, t.data>>, tick |-> t.tick]

LEMMA KeyedElements ==
  ASSUME NEW m, NEW q
  PROVE  Keyed(m, q) = {Key(m, q[i]) : i \in DOMAIN q}
BY DEF Keyed, Key

LEMMA KeyedInsert ==
  ASSUME NEW m, NEW q \in TimerList, NEW t \in TimersOf(Data)
  PROVE  Keyed(m, Insert(q, t)) = Keyed(m, q) \cup {Key(m, t)}
<1>1. q \in Seq(TimersOf(Data))
  BY TimerListDef
<1>2. /\ \A i \in DOMAIN Insert(q, t) :
           Insert(q, t)[i] = t \/ \E j \in DOMAIN q : Insert(q, t)[i] = q[j]
      /\ \E k \in DOMAIN Insert(q, t) : Insert(q, t)[k] = t
      /\ \A j \in DOMAIN q : \E i \in DOMAIN Insert(q, t) : Insert(q, t)[i] = q[j]
  BY <1>1, InsertElements
<1>. QED  BY <1>2, KeyedElements, Zenon

LEMMA KeyedRemove ==
  ASSUME NEW m, NEW q \in TimerList, NEW c, OneTimerEach(q)
  PROVE  \/ Keyed(m, RemoveData(q, c)) = Keyed(m, q)
         \/ \E x \in Keyed(m, q) : Keyed(m, RemoveData(q, c)) = Keyed(m, q) \ {x}
<1>. DEFINE r == RemoveData(q, c)
<1>1. q \in Seq(TimersOf(Data))
  BY TimerListDef
<1>2. /\ \A i \in DOMAIN r : \E j \in DOMAIN q : r[i] = q[j] /\ q[j].data # c
      /\ \A j \in DOMAIN q : q[j].data # c => \E i \in DOMAIN r : r[i] = q[j]
  BY <1>1, RemoveElements
<1>. HIDE DEF r
<1>3. CASE \A j \in DOMAIN q : q[j].data # c
  <2>1. Keyed(m, r) = Keyed(m, q)
    <3>1. \A i \in DOMAIN r : \E j \in DOMAIN q : r[i] = q[j]
      BY <1>2
    <3>2. \A j \in DOMAIN q : \E i \in DOMAIN r : r[i] = q[j]
      BY <1>2, <1>3
    <3>. QED  BY <3>1, <3>2, KeyedElements, Zenon
  <2>. QED  BY <2>1 DEF r
<1>4. ASSUME NEW k \in DOMAIN q, q[k].data = c
      PROVE  Keyed(m, r) = Keyed(m, q) \ {Key(m, q[k])}
  <2>1. \A j \in DOMAIN q : q[j].data = c => j = k
    BY <1>4 DEF OneTimerEach
  <2>2. \A j \in DOMAIN q : q[j].data # c <=> Key(m, q[j]) # Key(m, q[k])
    BY <1>4, <2>1 DEF Key
  <2>. QED  BY <1>2, <2>2, KeyedElements
<1>5. ASSUME NEW k \in DOMAIN q, q[k].data = c
      PROVE  \E x \in Keyed(m, q) : Keyed(m, r) = Keyed(m, q) \ {x}
  <2>1. Key(m, q[k]) \in Keyed(m, q)
    BY <1>5, KeyedElements
  <2>. QED  BY <1>4, <1>5, <2>1
<1>. QED  BY <1>3, <1>5 DEF r

LEMMA KeyedSplice ==
  ASSUME NEW m, NEW q \in TimerList
  PROVE  Keyed(m, Due(q)) \cup Keyed(m, NotDue(q)) = Keyed(m, q)
<1>. DEFINE n == DueCount(q)
<1>1. q \in Seq(TimersOf(Data))
  BY TimerListDef
<1>2. /\ n \in 0..Len(q) /\ Len(q) \in Nat /\ DOMAIN q = 1..Len(q)
      /\ DOMAIN Due(q) = 1..n
      /\ \A i \in 1..n : Due(q)[i] = q[i]
      /\ DOMAIN NotDue(q) = 1..(Len(q) - n)
      /\ \A i \in 1..(Len(q) - n) : NotDue(q)[i] = q[n + i]
  BY <1>1, DueSplit
<1>. HIDE DEF n
<1>3. \A i \in DOMAIN q : i \in 1..n \/ (i - n \in 1..(Len(q) - n) /\ n + (i - n) = i)
  BY <1>2
<1>4. \A i \in 1..(Len(q) - n) : n + i \in DOMAIN q
  BY <1>2
<1>5. \A i \in DOMAIN Due(q) : i \in DOMAIN q /\ Due(q)[i] = q[i]
  BY <1>2
<1>6. \A i \in DOMAIN NotDue(q) : \E j \in DOMAIN q : NotDue(q)[i] = q[j]
  BY <1>2, <1>4
<1>7. \A i \in DOMAIN q : \/ \E j \in DOMAIN Due(q) : Due(q)[j] = q[i]
                          \/ \E j \in DOMAIN NotDue(q) : NotDue(q)[j] = q[i]
  <2>. TAKE i \in DOMAIN q
  <2>1. CASE i \in 1..n
    BY <1>2, <2>1
  <2>2. CASE i - n \in 1..(Len(q) - n) /\ n + (i - n) = i
    BY <1>2, <2>2
  <2>. QED  BY <1>3, <2>1, <2>2
<1>. QED  BY <1>5, <1>6, <1>7, KeyedElements, Zenon

LEMMA KeyedAged ==
  ASSUME NEW m, NEW q \in TimerList
  PROVE  Keyed(m, Aged(q)) = {[x EXCEPT !.tick = @ - 1] : x \in Keyed(m, q)}
<1>1. q \in Seq(TimersOf(Data))
  BY TimerListDef
<1>2. /\ DOMAIN Aged(q) = DOMAIN q
      /\ \A i \in DOMAIN q : Aged(q)[i].data = q[i].data /\ Aged(q)[i].tick = q[i].tick - 1
  BY <1>1, AgedTimers
<1>3. \A i \in DOMAIN q : Key(m, Aged(q)[i]) = [Key(m, q[i]) EXCEPT !.tick = @ - 1]
  BY <1>2 DEF Key
<1>. QED  BY <1>2, <1>3, KeyedElements

LEMMA KeyedTail ==
  ASSUME NEW m, NEW q \in TimerList, Len(q) > 0, OneTimerEach(q)
  PROVE  /\ Key(m, q[1]) \in Keyed(m, q)
         /\ Keyed(m, Tail(q)) = Keyed(m, q) \ {Key(m, q[1])}
<1>1. q \in Seq(TimersOf(Data)) /\ q # <<>>
  BY TimerListDef, EmptySeq
<1>2. /\ Len(q) \in Nat /\ DOMAIN q = 1..Len(q)
      /\ DOMAIN Tail(q) = 1..(Len(q) - 1)
      /\ \A i \in 1..(Len(q) - 1) : Tail(q)[i] = q[i + 1]
  BY <1>1, HeadTailProperties
<1>3. 1 \in DOMAIN q /\ \A i \in DOMAIN q : i # 1 => i - 1 \in 1..(Len(q) - 1) /\ (i - 1) + 1 = i
  BY <1>2
<1>4. \A i \in DOMAIN Tail(q) : \E j \in DOMAIN q : j # 1 /\ Tail(q)[i] = q[j]
  <2>. TAKE i \in DOMAIN Tail(q)
  <2>1. i + 1 \in DOMAIN q /\ i + 1 # 1 /\ Tail(q)[i] = q[i + 1]
    BY <1>2
  <2>. QED  BY <2>1
<1>5. \A j \in DOMAIN q : j # 1 => \E i \in DOMAIN Tail(q) : Tail(q)[i] = q[j]
  BY <1>2, <1>3
<1>6. \A j \in DOMAIN q : j # 1 <=> Key(m, q[j]) # Key(m, q[1])
  BY <1>3 DEF OneTimerEach, Key
<1>7. Key(m, q[1]) \in Keyed(m, q)
  BY <1>3, KeyedElements
<1>8. \A x : x \in Keyed(m, Tail(q)) <=> \E j \in DOMAIN q : j # 1 /\ x = Key(m, q[j])
  <2>. DEFINE r == Tail(q)
  <2>1. /\ \A i \in DOMAIN r : \E j \in DOMAIN q : j # 1 /\ r[i] = q[j]
        /\ \A j \in DOMAIN q : j # 1 => \E i \in DOMAIN r : r[i] = q[j]
    BY <1>4, <1>5
  <2>. HIDE DEF r
  <2>2. Keyed(m, r) = {Key(m, r[i]) : i \in DOMAIN r}
    BY KeyedElements
  <2>3. ASSUME NEW x \in Keyed(m, r)
        PROVE  \E j \in DOMAIN q : j # 1 /\ x = Key(m, q[j])
    BY <2>1, <2>2
  <2>4. ASSUME NEW j \in DOMAIN q, j # 1
        PROVE  Key(m, q[j]) \in Keyed(m, r)
    BY <2>1, <2>2, <2>4
  <2>. QED  BY <2>3, <2>4 DEF r
<1>9. \A x : x \in Keyed(m, q) \ {Key(m, q[1])} <=> \E j \in DOMAIN q : j # 1 /\ x = Key(m, q[j])
  BY <1>6, KeyedElements, Zenon
<1>. QED  BY <1>7, <1>8, <1>9, Zenon
-----------------------------------------------------------------------------
(* Every step of the loop is a step of the timers.                         *)

LEMMA KeyedKeys ==
  ASSUME NEW m, NEW q, NEW x \in Keyed(m, q)
  PROVE  \E i \in DOMAIN q : x = Key(m, q[i]) /\ x.key = <<m, q[i].data>> /\ x.tick = q[i].tick
BY KeyedElements DEF Key

LEMMA KeyedEmpty == \A m : Keyed(m, <<>>) = {}
BY DEF Keyed

LEMMA PendingIs ==
  /\ pc # "destroyed" => Pending = Waiting \cup Called \cup {Notice}
  /\ pc' # "destroyed" => Pending' = Waiting' \cup Called' \cup {Notice'}
  /\ pc = "destroyed" => Pending = {}
  /\ pc' = "destroyed" => Pending' = {}
BY Zenon DEF Pending

LEMMA CalledIs == Called = Keyed(Here, due) /\ Called' = Keyed(Here', due')
BY KeyedEmpty DEF Called

LEMMA PhaseIs ==
  /\ Phase = "closed" <=> pc = "destroyed"
  /\ Phase' = "closed" <=> pc' = "destroyed"
  /\ pc = "post" => Phase = "handling"
  /\ pc = "calling" => Phase = "calling"
  /\ pc = "preselect" /\ pos <= Len(Modules) /\ Here = Notifier => Phase = "calling"
BY DEF Phase

LEMMA SamePending ==
  ASSUME pc # "destroyed", pc' # "destroyed", lists' = lists, notify' = notify, Called' = Called
  PROVE  Promise!Proceed
<1>1. Waiting' = Waiting /\ Notice' = Notice
  BY DEF Waiting, Notice
<1>. QED  BY <1>1, PendingIs, PhaseIs DEF Promise!Proceed

(* The timers of one module and those of the others.                       *)
Others(m) == UNION {Keyed(l, lists[l]) : l \in LifeTimes \ {m}}

LEMMA WaitingParts ==
  ASSUME NEW m \in LifeTimes, NEW q, lists \in [LifeTimes -> TimerList],
         lists' = [lists EXCEPT ![m] = q]
  PROVE  /\ Waiting = Keyed(m, lists[m]) \cup Others(m)
         /\ Waiting' = Keyed(m, q) \cup Others(m)
         /\ \A x \in Others(m) : x.key[1] # m
<1>1. Waiting = Keyed(m, lists[m]) \cup Others(m)
  BY DEF Waiting, Others
<1>2. lists'[m] = q /\ \A l \in LifeTimes \ {m} : lists'[l] = lists[l]
  OBVIOUS
<1>3. Waiting' = Keyed(m, q) \cup Others(m)
  BY <1>2 DEF Waiting, Others
<1>4. ASSUME NEW x \in Others(m)
      PROVE  x.key[1] # m
  <2>1. PICK l \in LifeTimes \ {m} : x \in Keyed(l, lists[l])
    BY DEF Others
  <2>2. x.key[1] = l
    BY <2>1, KeyedKeys
  <2>. QED  BY <2>2
<1>. QED  BY <1>1, <1>3, <1>4

LEMMA CalmProceeds ==
  ASSUME Keeps, Calm
  PROVE  Promise!Proceed \/ UNCHANGED Promise!tvars
<1>1. CASE UNCHANGED vars
  <2>1. UNCHANGED <<pc, pos, lists, due, notify>>
    BY <1>1 DEF vars
  <2>2. Phase' = Phase
    BY <2>1, Zenon DEF Phase, Here
  <2>3. Pending' = Pending
    <3>1. Here' = Here /\ due' = due /\ pc' = pc
      BY <2>1 DEF Here
    <3>2. Waiting' = Waiting /\ Called' = Called /\ Notice' = Notice
      BY <2>1, <3>1, CalledIs DEF Waiting, Notice
    <3>. QED  BY <3>1, <3>2, PendingIs
  <2>. QED  BY <2>2, <2>3 DEF Promise!tvars
<1>2. CASE ~UNCHANGED vars
  <2>1. /\ pc # "destroyed" /\ pc' # "destroyed"
        /\ due # <<>> => pos' = pos
    BY <1>2, Constants DEF Keeps, IInv, Position, Calm, LoopTest, Arm, EnterSelect, SelectTimeout,
       SelectReady, Selected, Reopen, Signal, SignalHere, SignalHereUnderLock,
       SignalElsewhere, Unblock, Running, Loop
  <2>2. lists' = lists /\ notify' = notify /\ due' = due
    BY CalmFacts
  <2>3. Called' = Called
    BY <2>1, <2>2, KeyedEmpty, CalledIs DEF Here
  <2>. QED  BY <2>1, <2>2, <2>3, SamePending
<1>. QED  BY <1>1, <1>2

LEMMA CheckProceeds ==
  ASSUME Keeps, BeginCheck \/ EndCheck
  PROVE  Promise!Proceed
<1>0. IInv /\ Position /\ lists \in [LifeTimes -> TimerList]
  BY DEF Keeps, IInv, TypeOK
<1>1. CASE EndCheck
  <2>1. /\ pc # "destroyed" /\ pc' # "destroyed" /\ lists' = lists /\ notify' = notify
        /\ due = <<>> /\ due' = <<>>
    BY <1>1 DEF EndCheck
  <2>2. Called' = Called
    BY <2>1, KeyedEmpty, CalledIs
  <2>. QED  BY <2>1, <2>2, SamePending
<1>2. CASE BeginCheck /\ lists[Here] = <<>>
  <2>1. /\ pc # "destroyed" /\ pc' # "destroyed" /\ lists' = lists /\ notify' = notify
        /\ due = <<>> /\ due' = <<>>
    BY <1>0, <1>2 DEF BeginCheck, Position
  <2>2. Called' = Called
    BY <2>1, KeyedEmpty, CalledIs
  <2>. QED  BY <2>1, <2>2, SamePending
<1>3. CASE BeginCheck /\ lists[Here] # <<>>
  <2>. DEFINE q == lists[Here]
  <2>1. /\ pc # "destroyed" /\ pc' # "destroyed" /\ notify' = notify
        /\ due = <<>> /\ due' = Due(q) /\ pos' = pos /\ Here \in LifeTimes
        /\ lists' = [lists EXCEPT ![Here] = NotDue(q)] /\ q \in TimerList
    BY <1>0, <1>3, BeginCheckFacts DEF BeginCheck, Position
  <2>2. /\ Waiting = Keyed(Here, q) \cup Others(Here)
        /\ Waiting' = Keyed(Here, NotDue(q)) \cup Others(Here)
    BY <1>0, <2>1, WaitingParts
  <2>3. Called = {} /\ Called' = Keyed(Here, Due(q)) /\ Notice' = Notice
    BY <2>1, KeyedEmpty, CalledIs DEF Here, Notice
  <2>4. Keyed(Here, Due(q)) \cup Keyed(Here, NotDue(q)) = Keyed(Here, q)
    BY <2>1, KeyedSplice
  <2>. HIDE DEF q
  <2>5. Waiting' \cup Called' = Waiting \cup Called
    BY <2>2, <2>3, <2>4
  <2>. QED  BY <2>1, <2>3, <2>5, PendingIs, PhaseIs DEF Promise!Proceed
<1>. QED  BY <1>1, <1>2, <1>3

LEMMA CallRings ==
  ASSUME Keeps, Call
  PROVE  Promise!Ring
<1>0. IInv /\ lists \in [LifeTimes -> TimerList] /\ due \in TimerList
  BY DEF Keeps, IInv, TypeOK
<1>1. /\ Here \in LifeTimes /\ Here # Notifier /\ pc = "calling" /\ pc' = "calling"
      /\ due' = Tail(due) /\ Len(due) > 0 /\ pos' = pos /\ notify' = notify
      /\ lists[Here] \in TimerList
  BY <1>0, CallFacts, Constants DEF Call, Loop
<1>. DEFINE x == Key(Here, due[1])
<1>2. 1 \in DOMAIN due /\ due[1].tick <= 0 /\ OneTimerEach(due \o lists[Here])
  <2>1. 1 \in DOMAIN due
    BY <1>0, <1>1, TimerFacts
  <2>. QED  BY <1>0, <1>1, <2>1 DEF IInv, Splice, Calling
<1>3. OneTimerEach(due) /\ \A i \in DOMAIN lists[Here] : lists[Here][i].data # due[1].data
  <2>. DEFINE q == lists[Here]
  <2>1. due \in Seq(TimersOf(Data)) /\ q \in Seq(TimersOf(Data))
    BY <1>0, <1>1, TimerListDef
  <2>. HIDE DEF q
  <2>2. /\ Len(due \o q) = Len(due) + Len(q)
        /\ \A i \in 1..(Len(due) + Len(q)) :
             (due \o q)[i] = IF i <= Len(due) THEN due[i] ELSE q[i - Len(due)]
        /\ due \o q \in Seq(TimersOf(Data))
    BY <2>1, ConcatProperties, Zenon
  <2>3. /\ DOMAIN (due \o q) = 1..(Len(due) + Len(q)) /\ DOMAIN due = 1..Len(due)
        /\ DOMAIN q = 1..Len(q) /\ Len(due) \in Nat /\ Len(q) \in Nat
    BY <2>1, <2>2, LenProperties
  <2>4. OneTimerEach(due)
    <3>1. \A i \in DOMAIN due : i \in DOMAIN (due \o q) /\ (due \o q)[i] = due[i]
      BY <2>2, <2>3
    <3>. QED  BY <1>2, <3>1 DEF OneTimerEach, q
  <2>5. \A i \in DOMAIN q : q[i].data # due[1].data
    <3>. TAKE i \in DOMAIN q
    <3>1. /\ Len(due) + i \in DOMAIN (due \o q) /\ (due \o q)[Len(due) + i] = q[i]
          /\ Len(due) + i # 1
      <4>1. /\ Len(due) + i \in 1..(Len(due) + Len(q)) /\ ~(Len(due) + i <= Len(due))
            /\ (Len(due) + i) - Len(due) = i /\ Len(due) + i # 1
        BY <1>1, <2>3
      <4>. QED  BY <2>2, <2>3, <4>1
    <3>2. 1 \in DOMAIN (due \o q) /\ (due \o q)[1] = due[1]
      BY <1>1, <2>2, <2>3
    <3>. QED  BY <1>2, <3>1, <3>2 DEF OneTimerEach, q
  <2>. QED  BY <2>4, <2>5 DEF q
<1>4. x \in Called /\ Called' = Called \ {x} /\ x.tick <= 0 /\ x.key = <<Here, due[1].data>>
  <2>1. Called' = Keyed(Here, Tail(due))
    BY <1>1, CalledIs DEF Here
  <2>2. x \in Keyed(Here, due) /\ Keyed(Here, Tail(due)) = Keyed(Here, due) \ {x}
    BY <1>0, <1>1, <1>3, KeyedTail
  <2>. QED  BY <1>2, <2>1, <2>2, CalledIs DEF Key
<1>5. x # Notice /\ x \notin Keyed(Here, lists[Here]) /\ Notice' = Notice
  <2>1. x # Notice /\ Notice' = Notice
    BY <1>1, <1>4 DEF Notice
  <2>2. x \notin Keyed(Here, lists[Here])
    BY <1>3, <1>4, KeyedKeys
  <2>. QED  BY <2>1, <2>2
<1>. HIDE DEF x
<1>6. Phase = "calling" /\ Phase' # "closed" /\ Pending = Waiting \cup Called \cup {Notice}
      /\ Pending' = Waiting' \cup Called' \cup {Notice'} /\ x \in Pending
  BY <1>1, <1>4, PhaseIs, PendingIs
<1>7. CASE Here # Monitor
  <2>1. lists' = lists
    BY <1>0, <1>7, CallFacts
  <2>2. Waiting' = Waiting
    BY <2>1 DEF Waiting
  <2>3. x \notin Waiting
    <3>1. ASSUME NEW l \in LifeTimes, x \in Keyed(l, lists[l])
          PROVE  l = Here
      BY <1>4, <3>1, KeyedKeys
    <3>. QED  BY <1>5, <3>1 DEF Waiting
  <2>4. Pending' = Pending \ {x}
    BY <1>4, <1>5, <1>6, <2>2, <2>3
  <2>. QED  BY <1>4, <1>6, <2>4 DEF Promise!Ring
<1>8. CASE Here = Monitor
  <2>. DEFINE y == Key(Monitor, Timer(Monitor, MonitorPeriod))
              q == <<Timer(Monitor, MonitorPeriod)>>
  <2>1. /\ lists' = [lists EXCEPT ![Monitor] = q]
        /\ Len(lists[Monitor]) = 0
    BY <1>0, <1>8, CallFacts
  <2>2. Keyed(Monitor, lists[Monitor]) = {}
    <3>1. lists[Monitor] = <<>>
      <4>1. lists[Monitor] \in Seq(TimersOf(Data))
        BY <1>1, <1>8, TimerListDef
      <4>. QED  BY <2>1, <4>1, EmptySeq
    <3>. QED  BY <3>1, KeyedEmpty
  <2>3. Keyed(Monitor, q) = {y}
    <3>1. DOMAIN q = {1} /\ q[1] = Timer(Monitor, MonitorPeriod)
      OBVIOUS
    <3>. QED  BY <3>1, KeyedElements
  <2>4. y.key = x.key /\ y.tick > 0
    <3>1. due[1].data = Monitor
      BY <1>1, <1>2, <1>8 DEF Keeps, OwnTimers, Calling
    <3>. QED  BY <1>4, <1>8, <3>1, Constants DEF Key, Timer
  <2>. HIDE DEF y, q
  <2>5. Waiting = Others(Monitor) /\ Waiting' = {y} \cup Others(Monitor)
        /\ \A z \in Others(Monitor) : z.key[1] # Monitor
    BY <1>0, <1>1, <1>8, <2>1, <2>2, <2>3, WaitingParts
  <2>6. x \notin Others(Monitor)
    BY <1>4, <1>8, <2>5
  <2>7. Pending' = (Pending \ {x}) \cup {y} /\ y \in Pending'
    BY <1>4, <1>5, <1>6, <2>5, <2>6
  <2>. QED  BY <1>4, <1>6, <2>4, <2>7 DEF Promise!Ring
<1>. QED  BY <1>7, <1>8
LEMMA AdvertiseRings ==
  ASSUME Keeps, Advertise
  PROVE  Promise!Ring \/ Promise!Proceed
<1>0. /\ pc = "preselect" /\ pc' = pc /\ pos <= Len(Modules) /\ Here = Notifier
      /\ lists' = lists /\ due' = due /\ due = <<>> /\ notify' = Renotified
      /\ notify \in Int
  BY DEF Advertise, Keeps, IInv, Position, TypeOK
<1>1. Phase = "calling" /\ Phase' # "closed" /\ Waiting' = Waiting /\ Called = {} /\ Called' = {}
  BY <1>0, PhaseIs, KeyedEmpty, CalledIs DEF Waiting
<1>2. Pending = Waiting \cup {Notice} /\ Pending' = Waiting \cup {Notice'}
  BY <1>0, <1>1, PendingIs
<1>3. CASE notify > 0
  <2>1. notify' = notify
    BY <1>0, <1>3 DEF Renotified
  <2>. QED  BY <1>0, <1>1, <2>1, SamePending
<1>4. CASE notify <= 0
  <2>1. notify' = NotifyPeriod
    BY <1>0, <1>4 DEF Renotified
  <2>2. /\ Notice.tick <= 0 /\ Notice'.tick > 0 /\ Notice'.key = Notice.key
        /\ Notice.key = <<Notifier, Notifier>>
    BY <1>4, <2>1, Constants DEF Notice
  <2>3. Notice \notin Waiting
    <3>1. ASSUME NEW l \in LifeTimes, Notice \in Keyed(l, lists[l])
          PROVE  l = Notifier
      BY <2>2, <3>1, KeyedKeys
    <3>. QED  BY <3>1, Constants DEF Waiting
  <2>4. Pending' = (Pending \ {Notice}) \cup {Notice'}
    BY <1>2, <2>3
  <2>5. Notice \in Pending /\ Notice' \in Pending'
    BY <1>2
  <2>. QED  BY <1>1, <2>2, <2>4, <2>5 DEF Promise!Ring
<1>. QED  BY <1>0, <1>3, <1>4

LEMMA HandleSets ==
  ASSUME Keeps, Handle
  PROVE  Promise!Set \/ Promise!Cancel \/ Promise!Proceed
<1>0. /\ IInv /\ lists \in [LifeTimes -> TimerList]
      /\ pc = "post" /\ pc' = "test" /\ due = <<>> /\ due' = due /\ notify' = notify
  BY HandleFacts DEF Keeps, IInv, TypeOK
<1>1. /\ Phase = "handling" /\ Phase' # "closed" /\ Called = {} /\ Called' = {}
      /\ Notice' = Notice
  BY <1>0, PhaseIs, KeyedEmpty, CalledIs DEF Notice
<1>2. Pending = Waiting \cup {Notice} /\ Pending' = Waiting' \cup {Notice}
  BY <1>0, <1>1, PendingIs
<1>3. Notice.key[1] \notin LifeTimes
  BY Constants DEF Notice
<1>4. CASE lists' = lists
  BY <1>0, <1>1, <1>4, SamePending
<1>5. ASSUME NEW l \in LifeTimes \ {Monitor}, NEW c \in Clients, NEW s \in Delays, Sets(l, c, s)
      PROVE  Promise!Set
  <2>. DEFINE x == Key(l, Timer(c, s))
  <2>1. Keyed(l, Insert(lists[l], Timer(c, s))) = Keyed(l, lists[l]) \cup {x}
    BY <1>0, Constants, KeyedInsert
  <2>2. /\ Waiting = Keyed(l, lists[l]) \cup Others(l)
        /\ Waiting' = Keyed(l, Insert(lists[l], Timer(c, s))) \cup Others(l)
        /\ \A y \in Others(l) : y.key[1] # l
    BY <1>0, <1>5, WaitingParts DEF Sets
  <2>3. x.key = <<l, c>> /\ x.tick >= 0
    <3>1. s \in Nat
      BY Constants
    <3>. QED  BY <3>1 DEF Key, Timer
  <2>4. \A y \in Keyed(l, lists[l]) : y.key # <<l, c>>
    BY <1>5, KeyedKeys DEF Sets
  <2>. HIDE DEF x
  <2>5. \A y \in Pending : y.key # x.key
    BY <1>2, <1>3, <2>2, <2>3, <2>4
  <2>6. Pending' = Pending \cup {x} /\ x \in Pending'
    BY <1>2, <2>1, <2>2
  <2>. QED  BY <1>1, <2>3, <2>5, <2>6 DEF Promise!Set
<1>6. ASSUME NEW l \in LifeTimes \ {Monitor}, NEW c \in Clients, Cancels(l, c)
      PROVE  Promise!Cancel \/ Promise!Proceed
  <2>. DEFINE r == RemoveData(lists[l], c)
  <2>1. \/ Keyed(l, r) = Keyed(l, lists[l])
        \/ \E x \in Keyed(l, lists[l]) : Keyed(l, r) = Keyed(l, lists[l]) \ {x}
    BY <1>0, KeyedRemove DEF IInv, InOrder
  <2>2. /\ Waiting = Keyed(l, lists[l]) \cup Others(l)
        /\ Waiting' = Keyed(l, r) \cup Others(l)
        /\ \A y \in Others(l) : y.key[1] # l
    BY <1>0, <1>6, WaitingParts DEF Cancels
  <2>. HIDE DEF r
  <2>3. CASE Keyed(l, r) = Keyed(l, lists[l])
    <3>1. Pending' = Pending
      BY <1>2, <2>2, <2>3
    <3>. QED  BY <1>1, <3>1 DEF Promise!Proceed
  <2>4. ASSUME NEW x \in Keyed(l, lists[l]), Keyed(l, r) = Keyed(l, lists[l]) \ {x}
        PROVE  Promise!Cancel
    <3>1. x.key[1] = l
      BY KeyedKeys
    <3>2. x \notin Others(l) /\ x # Notice
      BY <1>3, <2>2, <3>1
    <3>3. Pending' = Pending \ {x} /\ x \in Pending
      BY <1>2, <2>2, <2>4, <3>2
    <3>. QED  BY <1>1, <3>3 DEF Promise!Cancel
  <2>. QED  BY <2>1, <2>3, <2>4
<1>. QED  BY <1>0, <1>4, <1>5, <1>6, HandleFacts

LEMMA TickPasses ==
  ASSUME Keeps, Tick
  PROVE  Promise!Pass
<1>. DEFINE Older(x) == [x EXCEPT !.tick = @ - 1]
            latest == 2 * MaxBusy
<1>0. /\ IInv /\ Running /\ UNCHANGED <<pc, pos>> /\ notify' = notify - 1
      /\ due' = Aged(due) /\ \A l \in LifeTimes : lists'[l] = Aged(lists[l])
      /\ (pc = "select" /\ wait > 0) \/ (pc # "select" /\ busy < MaxBusy)
      /\ due \in TimerList /\ lists \in [LifeTimes -> TimerList] /\ notify \in Int
  BY DEF Keeps, IInv, TypeOK, Tick
<1>1. Phase' = Phase /\ Phase # "closed" /\ Here' = Here
      /\ pc # "destroyed" /\ pc' # "destroyed"
  BY <1>0, PhaseIs DEF Phase, Here, Running
<1>2. /\ wait \in Int /\ busy \in Int /\ MaxBusy \in Int /\ wait >= 0 /\ busy >= 0 /\ MaxBusy >= 0
      /\ busy <= MaxBusy /\ latest \in Int
  BY <1>0, Constants DEF IInv, TypeOK
<1>3. \A p \in DOMAIN Modules : Earliest(p) \in Int /\ Earliest(p) > -latest
  <2>. TAKE p \in DOMAIN Modules
  <2>1. CASE pc = "select"
    BY <1>0, <1>2, <2>1 DEF Earliest, BeforeSelect
  <2>2. CASE pc # "select"
    BY <1>0, <1>2, <2>2 DEF Earliest
  <2>. QED  BY <2>1, <2>2
<1>4. ASSUME NEW l \in LifeTimes, NEW i \in DOMAIN lists[l]
      PROVE  lists[l][i].tick > -latest
  <2>1. PICK p \in DOMAIN Modules : Modules[p] = l
    BY Constants
  <2>2. lists[l][i].tick >= Earliest(p)
    BY <1>0, <2>1 DEF IInv, InTime, NoneBefore
  <2>3. lists[l][i].tick \in Int
    BY <1>0, TimerFacts
  <2>. QED  BY <1>2, <1>3, <2>2, <2>3
<1>5. notify > -latest
  <2>1. PICK p \in DOMAIN Modules : Modules[p] = Notifier
    BY ChainAssumption
  <2>2. notify >= Earliest(p)
    BY <1>0, <2>1 DEF IInv, InTime
  <2>. QED  BY <1>0, <1>2, <1>3, <2>2
<1>6. ASSUME NEW i \in DOMAIN due
      PROVE  due[i].tick > -latest
  <2>1. due[i].tick >= -MaxBusy - busy /\ due[i].tick \in Int
    BY <1>0, TimerFacts DEF IInv, InTime, NoneBefore
  <2>2. pc # "select"
    <3>1. due # <<>>
      OBVIOUS
    <3>. QED  BY <1>0, <3>1 DEF IInv, Position
  <2>3. busy < MaxBusy
    BY <1>0, <2>2
  <2>. QED  BY <1>2, <2>1, <2>3
<1>. HIDE DEF latest
<1>7. \A x \in Pending : x.tick > -latest
  <2>. TAKE x \in Pending
  <2>1. CASE x \in Waiting
    <3>1. PICK l \in LifeTimes : x \in Keyed(l, lists[l])
      BY <2>1 DEF Waiting
    <3>2. PICK i \in DOMAIN lists[l] : x.tick = lists[l][i].tick
      BY <3>1, KeyedKeys
    <3>. QED  BY <1>4, <3>2
  <2>2. CASE x \in Called
    <3>1. PICK i \in DOMAIN due : x.tick = due[i].tick
      BY <2>2, CalledIs, KeyedKeys
    <3>. QED  BY <1>6, <3>1
  <2>3. CASE x = Notice
    BY <1>5, <2>3 DEF Notice
  <2>. QED  BY <1>1, <2>1, <2>2, <2>3, PendingIs
<1>. HIDE DEF Older
<1>8. Called' = {Older(x) : x \in Called}
  BY <1>0, <1>1, CalledIs, KeyedAged DEF Older
<1>9. Waiting' = {Older(x) : x \in Waiting}
  <2>1. \A l \in LifeTimes : Keyed(l, lists'[l]) = {Older(x) : x \in Keyed(l, lists[l])}
    BY <1>0, KeyedAged DEF Older
  <2>. QED  BY <2>1 DEF Waiting
<1>10. Notice' = Older(Notice)
  BY <1>0 DEF Notice, Older
<1>11. Pending' = {Older(x) : x \in Pending}
  BY <1>1, <1>8, <1>9, <1>10, PendingIs
<1>. QED  BY <1>1, <1>7, <1>11 DEF Promise!Pass, Older, latest

LEMMA StepMaps == Keeps /\ [Next]_vars => [Promise!Next]_(Promise!tvars)
<1>. SUFFICES ASSUME Keeps, [Next]_vars
              PROVE  Promise!Next \/ UNCHANGED Promise!tvars
  OBVIOUS
<1>1. CASE Calm
  BY <1>1, CalmProceeds DEF Promise!Next
<1>2. CASE BeginCheck \/ EndCheck
  BY <1>2, CheckProceeds DEF Promise!Next
<1>3. CASE Call
  BY <1>3, CallRings DEF Promise!Next
<1>4. CASE Advertise
  BY <1>4, AdvertiseRings DEF Promise!Next
<1>5. CASE Handle
  BY <1>5, HandleSets DEF Promise!Next
<1>6. CASE Destroy
  <2>1. Phase # "closed" /\ Phase' = "closed" /\ Pending' = {}
    BY <1>6, PhaseIs, PendingIs DEF Destroy
  <2>. QED  BY <2>1 DEF Promise!Close, Promise!Next
<1>7. CASE Tick
  BY <1>7, TickPasses DEF Promise!Next
<1>. QED  BY <1>1, <1>2, <1>3, <1>4, <1>5, <1>6, <1>7, CalmSteps

LEMMA InitMaps == Init => Promise!Init
<1>. SUFFICES ASSUME Init PROVE Promise!Init
  OBVIOUS
<1>1. Phase = "waiting"
  BY DEF Init, Phase
<1>2. /\ \A l \in LifeTimes : lists[l] = IF l = Monitor THEN <<Timer(Monitor, MonitorPeriod)>>
                                                       ELSE <<>>
      /\ due = <<>> /\ notify = NotifyPeriod /\ pc # "destroyed"
  BY DEF Init
<1>3. ASSUME NEW x \in Pending
      PROVE  x.tick >= 0
  <2>1. CASE x \in Waiting
    <3>1. PICK l \in LifeTimes : x \in Keyed(l, lists[l])
      BY <2>1 DEF Waiting
    <3>2. lists[l] = <<Timer(Monitor, MonitorPeriod)>>
      BY <1>2, <3>1, KeyedEmpty
    <3>3. PICK i \in DOMAIN lists[l] : x.tick = lists[l][i].tick
      BY <3>1, KeyedKeys
    <3>4. x.tick = MonitorPeriod
      BY <3>2, <3>3 DEF Timer
    <3>. QED  BY <3>4, Constants
  <2>2. CASE x = Notice
    BY <1>2, <2>2, Constants DEF Notice
  <2>3. x \notin Called
    BY <1>2, KeyedEmpty, CalledIs
  <2>. QED  BY <1>2, <2>1, <2>2, <2>3, PendingIs
<1>. QED  BY <1>1, <1>3 DEF Promise!Init

(* The chain keeps what module Timers promises, for every set of modules   *)
(* and of delays: a callback comes once, never before its time and never   *)
(* later than twice what a turn of the loop may take; none is lost; only   *)
(* handlers set or cancel timers.                                          *)
THEOREM TimersKept == Spec => KeepsTime
<1>1. Init => Keeps /\ Promise!Init
  BY KeepsInit, InitMaps
<1>2. Keeps /\ [Next]_vars => Keeps' /\ [Promise!Next]_(Promise!tvars)
  BY KeepsStep, StepMaps
<1>. QED  BY <1>1, <1>2, PTL DEF Spec, KeepsTime, Promise!Spec
=============================================================================
