------------------------------- MODULE Chain -------------------------------
(***************************************************************************)
(* The thread that runs the program: ILibStartChain calls the PreSelect of *)
(* every module of the chain, waits in select no longer than they allow,   *)
(* and calls their PostSelect.  Modules are timer lists (ILibLifeTime) and *)
(* the periodic advertisement of UpnpMicroStack.c.  Socket activity is     *)
(* arbitrary.  BreakSink of tv-now.c stops the chain from a signal handler *)
(* that runs on this thread or on another one.  All seconds are relative   *)
(* to gettimeofday, see LifeTime.                                          *)
(***************************************************************************)
EXTENDS LifeTime, FiniteSets

CONSTANTS
  Modules,        (* the chain, in the order of ILibAddToChain             *)
  Notifier,       (* the struct UpnpDataObject among them                  *)
  Monitor,        (* UpnpMonitor, the timer list of the address monitor    *)
  Clients,        (* what the other timer lists time: sessions, requests   *)
  Delays,         (* seconds their callers ask for                         *)
  MonitorPeriod,  (* seconds between two looks at the addresses (4)        *)
  NotifyPeriod,   (* NotifyCycleTime/3                                     *)
  MaxWait,        (* UPNP_MAX_WAIT                                         *)
  MaxBusy         (* seconds one turn of the loop may spend outside select *)

LifeTimes == {Modules[i] : i \in DOMAIN Modules} \ {Notifier}

ASSUME ChainAssumption ==
  /\ Modules \in Seq({Modules[i] : i \in DOMAIN Modules})
  /\ Notifier \in {Modules[i] : i \in DOMAIN Modules}
  /\ Monitor \in LifeTimes /\ Monitor \notin Clients
  /\ \A i, j \in DOMAIN Modules : Modules[i] = Modules[j] => i = j
  /\ Delays \subseteq Nat
  /\ MonitorPeriod \in Nat \ {0} /\ NotifyPeriod \in Nat \ {0}
  /\ MaxWait \in Nat /\ MaxBusy \in Nat

VARIABLES
  pc,         (* where ILibStartChain is                                   *)
  pos,        (* the module whose PreSelect comes next                     *)
  lists,      (* LM of every ILibLifeTime                                  *)
  due,        (* the timers ILibLifeTime_Check has spliced off             *)
  checkTick,  (* its CurrentTick                                           *)
  wait,       (* blocktime, then what is left of it                        *)
  poll,       (* slct = -1: wait for nothing                               *)
  terminate,  (* the wake-up socket: "open", or "closed" (~0)              *)
  update,     (* UpdateFlag: the addresses have changed                    *)
  notify,     (* NotifyTime                                                *)
  break,      (* BreakSink: "none", "flagged" (TerminateFlag set), "done"  *)
  busy,       (* seconds this turn has spent outside select                *)
  stopping    (* history: seconds since TerminateFlag, up to StopLimit + 1 *)

vars == <<pc, pos, lists, due, checkTick, wait, poll, terminate, update, notify,
          break, busy, stopping>>

Loop == <<pc, pos, checkTick, wait, poll, busy, stopping>>

Here == Modules[pos]

Min2(a, b) == IF a < b THEN a ELSE b

(* What a stop may take: the longest wait and two turns of the loop.       *)
StopLimit == MonitorPeriod + 2 * MaxBusy

Running == pc \notin {"destroyed", "hung"}

-----------------------------------------------------------------------------
Init ==
  /\ pc = "test" /\ pos = 1
  /\ lists = [l \in LifeTimes |->
                IF l = Monitor THEN <<Timer(Monitor, MonitorPeriod)>> ELSE <<>>]
  /\ due = <<>> /\ checkTick = 0
  /\ wait = MaxWait /\ poll = FALSE
  /\ terminate = "open" /\ update = FALSE
  /\ notify = NotifyPeriod
  /\ break = "none" /\ busy = 0 /\ stopping = 0

(* Variant: the loop goes on when the wake-up socket is open again.        *)
LoopTestLooksAtSocket ==
  /\ pc = "test" /\ (break = "none" \/ terminate = "open")
  /\ pc' = "arm" /\ busy' = 0
  /\ UNCHANGED <<pos, lists, due, checkTick, wait, poll, terminate, update,
                 notify, break, stopping>>

(* while(TerminateFlag==0)                                                 *)
LoopTest ==
  /\ pc = "test" /\ break = "none"
  /\ pc' = "arm" /\ busy' = 0
  /\ UNCHANGED <<pos, lists, due, checkTick, wait, poll, terminate, update,
                 notify, break, stopping>>

(* The region under ILibChainLock: a wake-up that came since the last      *)
(* select makes the next one a poll.                                       *)
Arm ==
  /\ pc = "arm"
  /\ pc' = "preselect" /\ pos' = 1
  /\ wait' = MaxWait
  /\ poll' = (terminate = "closed")
  /\ UNCHANGED <<lists, due, checkTick, terminate, update, notify, break, busy,
                 stopping>>

(* Variant: the last of the timers that are due is lost.                   *)
BeginCheckLosesOne ==
  /\ pc = "preselect" /\ pos <= Len(Modules) /\ Here \in LifeTimes
  /\ IF lists[Here] = <<>>
     THEN pos' = pos + 1 /\ UNCHANGED <<pc, lists, due, checkTick>>
     ELSE /\ pc' = "calling" /\ pos' = pos
          /\ checkTick' = 0
          /\ due' = IF DueCount(lists[Here]) > 1 THEN Front(Due(lists[Here]))
                                                 ELSE Due(lists[Here])
          /\ lists' = [lists EXCEPT ![Here] = NotDue(@)]
  /\ UNCHANGED <<wait, poll, terminate, update, notify, break, busy, stopping>>

(* ILibLifeTime_Check up to the callbacks: reads the clock and splices.    *)
BeginCheck ==
  /\ pc = "preselect" /\ pos <= Len(Modules) /\ Here \in LifeTimes
  /\ IF lists[Here] = <<>>
     THEN pos' = pos + 1 /\ UNCHANGED <<pc, lists, due, checkTick>>
     ELSE /\ pc' = "calling" /\ pos' = pos
          /\ checkTick' = 0
          /\ due' = Due(lists[Here])
          /\ lists' = [lists EXCEPT ![Here] = NotDue(@)]
  /\ UNCHANGED <<wait, poll, terminate, update, notify, break, busy, stopping>>

(* Variant: the address monitor does not set its timer again.              *)
CallOnce ==
  /\ pc = "calling" /\ due # <<>>
  /\ due' = Tail(due)
  /\ UNCHANGED <<Loop, lists, update, terminate, notify, break>>

(* One callback.  Those of sessions and requests set no timer; the address *)
(* monitor looks for a change and sets its own timer again, the only one   *)
(* of its list, which always closes the wake-up socket.                    *)
Call ==
  /\ pc = "calling" /\ due # <<>>
  /\ due' = Tail(due)
  /\ IF Here = Monitor
     THEN LET t == Timer(Monitor, MonitorPeriod)
          IN  /\ lists' = [lists EXCEPT ![Monitor] = Insert(@, t)]
              /\ update' \in {update, TRUE}
              /\ terminate' = IF update' # update \/ BecomesFirst(lists[Monitor], t)
                              THEN "closed" ELSE terminate
     ELSE UNCHANGED <<lists, update, terminate>>
  /\ UNCHANGED <<Loop, notify, break>>

(* Variant: nexttick is not compared with what other modules asked for.    *)
EndCheckForgetsOthers ==
  /\ pc = "calling" /\ due = <<>>
  /\ pc' = "preselect" /\ pos' = pos + 1
  /\ checkTick' = 0
  /\ wait' = IF lists[Here] = <<>> THEN wait
             ELSE lists[Here][1].tick - checkTick
  /\ UNCHANGED <<lists, due, poll, terminate, update, notify, break, busy,
                 stopping>>

(* The end of ILibLifeTime_Check: the wait is reckoned from the clock as   *)
(* it was read before the callbacks.                                       *)
EndCheck ==
  /\ pc = "calling" /\ due = <<>>
  /\ pc' = "preselect" /\ pos' = pos + 1
  /\ checkTick' = 0
  /\ wait' = IF lists[Here] = <<>> THEN wait
             ELSE Min2(wait, lists[Here][1].tick - checkTick)
  /\ UNCHANGED <<lists, due, poll, terminate, update, notify, break, busy,
                 stopping>>

(* UpnpPeriodicNotify: NotifyTime once an advertisement that is due has    *)
(* been sent.                                                              *)
Renotified == IF notify <= 0 THEN NotifyPeriod ELSE notify

(* Variant: UpdateFlag is not cleared.                                     *)
AdvertiseKeepsTheFlag ==
  /\ pc = "preselect" /\ pos <= Len(Modules) /\ Here = Notifier
  /\ pos' = pos + 1
  /\ notify' = Renotified
  /\ wait' = Min2(wait, notify')
  /\ UNCHANGED <<pc, lists, due, checkTick, poll, terminate, update, break, busy,
                 stopping>>

(* Variant: the wait is reckoned from the advertisement that is due.       *)
AdvertiseReckonsFirst ==
  /\ pc = "preselect" /\ pos <= Len(Modules) /\ Here = Notifier
  /\ pos' = pos + 1
  /\ update' = FALSE
  /\ notify' = Renotified
  /\ wait' = Min2(wait, notify)
  /\ UNCHANGED <<pc, lists, due, checkTick, poll, terminate, break, busy, stopping>>

(* UpnpMasterPreSelect: new addresses, and UpnpPeriodicNotify.             *)
Advertise ==
  /\ pc = "preselect" /\ pos <= Len(Modules) /\ Here = Notifier
  /\ pos' = pos + 1
  /\ update' = FALSE
  /\ notify' = Renotified
  /\ wait' = Min2(wait, notify')
  /\ UNCHANGED <<pc, lists, due, checkTick, poll, terminate, break, busy,
                 stopping>>

EnterSelect ==
  /\ pc = "preselect" /\ pos > Len(Modules)
  /\ pc' = "select" /\ pos' = 1
  /\ wait' = IF poll THEN 0 ELSE wait
  /\ poll' = FALSE
  /\ UNCHANGED <<lists, due, checkTick, terminate, update, notify, break, busy,
                 stopping>>

(* select returns on its timeout, ...                                      *)
SelectTimeout ==
  /\ pc = "select" /\ wait = 0
  /\ pc' = "selected"
  /\ UNCHANGED <<pos, lists, due, checkTick, wait, poll, terminate, update,
                 notify, break, busy, stopping>>

(* ... or before, because a socket is ready or the wake-up socket was      *)
(* closed before the call, unless its number has been given out again.     *)
SelectReady ==
  /\ pc = "select" /\ wait > 0
  /\ pc' = "selected" /\ wait' = 0
  /\ UNCHANGED <<pos, lists, due, checkTick, poll, terminate, update, notify,
                 break, busy, stopping>>

(* if(Terminate==~0), read without the lock ...                            *)
Selected ==
  /\ pc = "selected"
  /\ pc' = IF terminate = "closed" THEN "reopen" ELSE "post"
  /\ UNCHANGED <<pos, lists, due, checkTick, wait, poll, terminate, update,
                 notify, break, busy, stopping>>

(* ... and Terminate = socket(), written without the lock.                 *)
Reopen ==
  /\ pc = "reopen"
  /\ pc' = "post" /\ terminate' = "open"
  /\ UNCHANGED <<pos, lists, due, checkTick, wait, poll, update, notify, break,
                 busy, stopping>>

(* A PostSelect handler sets a timer for a client that has none, cancels   *)
(* one, or does neither.                                                   *)
Handle ==
  /\ pc = "post" /\ pc' = "test"
  /\ \/ UNCHANGED <<lists, terminate>>
     \/ \E l \in LifeTimes \ {Monitor}, c \in Clients, s \in Delays :
          /\ \A i \in DOMAIN lists[l] : lists[l][i].data # c
          /\ lists' = [lists EXCEPT ![l] = Insert(@, Timer(c, s))]
          /\ terminate' = IF BecomesFirst(lists[l], Timer(c, s))
                          THEN "closed" ELSE terminate
     \/ \E l \in LifeTimes \ {Monitor}, c \in Clients :
          /\ lists' = [lists EXCEPT ![l] = RemoveData(@, c)]
          /\ UNCHANGED terminate
  /\ UNCHANGED <<pos, due, checkTick, wait, poll, update, notify, break, busy,
                 stopping>>

(* ILibLifeTime_Flush on every list.                                       *)
Flushed == [l \in LifeTimes |-> <<>>]

(* After the loop every module's Destroy is called.                        *)
Destroy ==
  /\ pc = "test" /\ break # "none"
  /\ pc' = "destroyed"
  /\ lists' = Flushed
  /\ UNCHANGED <<pos, due, checkTick, wait, poll, terminate, update, notify,
                 break, busy, stopping>>

(* BreakSink on this thread runs to its end, and interrupts select.        *)
SignalHere ==
  /\ Running /\ break = "none" /\ pc # "arm"
  /\ break' = "done" /\ terminate' = "closed"
  /\ pc' = IF pc = "select" THEN "selected" ELSE pc
  /\ UNCHANGED <<pos, lists, due, checkTick, wait, poll, update, notify, busy,
                 stopping>>

(* Interrupted while it holds ILibChainLock, in ILibStartChain itself or   *)
(* in ILibForceUnBlockChain, this thread waits for itself.                 *)
SignalHereUnderLock ==
  /\ break = "none"
  /\ pc \in {"arm", "post"} \/ (pc = "calling" /\ due # <<>> /\ Here = Monitor)
  /\ break' = "flagged" /\ pc' = "hung"
  /\ UNCHANGED <<pos, lists, due, checkTick, wait, poll, terminate, update,
                 notify, busy, stopping>>

(* On another thread: the flag first, ...                                  *)
SignalElsewhere ==
  /\ Running /\ break = "none"
  /\ break' = "flagged"
  /\ UNCHANGED <<Loop, lists, due, terminate, update, notify>>

(* ... then ILibForceUnBlockChain.  Closing the socket there does not end  *)
(* a select that already waits on it.                                      *)
Unblock ==
  /\ Running /\ break = "flagged"
  /\ break' = "done" /\ terminate' = "closed"
  /\ UNCHANGED <<Loop, lists, due, update, notify>>

(* A second goes by.  select ends on time, and a turn of the loop takes no *)
(* more than MaxBusy seconds of its own.                                   *)
Tick ==
  /\ Running
  /\ IF pc = "select" THEN /\ wait > 0
                           /\ wait' = wait - 1 /\ busy' = busy
                      ELSE /\ busy < MaxBusy
                           /\ busy' = busy + 1 /\ wait' = wait
  /\ lists' = [l \in LifeTimes |-> Aged(lists[l])]
  /\ due' = Aged(due)
  /\ checkTick' = IF pc = "calling" THEN checkTick - 1 ELSE checkTick
  /\ notify' = notify - 1
  /\ stopping' = IF break = "none" \/ stopping > StopLimit THEN stopping
                                                           ELSE stopping + 1
  /\ UNCHANGED <<pc, pos, poll, terminate, update, break>>

PreSelect == BeginCheck \/ Call \/ EndCheck \/ Advertise

Signal == SignalHere \/ SignalHereUnderLock \/ SignalElsewhere

Thread ==
  \/ LoopTest \/ Arm \/ PreSelect \/ EnterSelect \/ SelectTimeout
  \/ Selected \/ Reopen \/ Handle \/ Destroy

Next == Thread \/ SelectReady \/ Signal \/ Unblock \/ Tick

(* The thread is scheduled, and time passes; nothing else is promised.     *)
Fairness == WF_vars(Thread) /\ WF_vars(Tick)

Spec == Init /\ [][Next]_vars /\ Fairness
-----------------------------------------------------------------------------
TimerList == Seq([data : Clients \cup {Monitor}, tick : Int])

(* Types, and blocktime stays within its bounds: a negative one would be   *)
(* taken for 136 years by the select call.                                 *)
TypeOK ==
  /\ pc \in {"test", "arm", "preselect", "calling", "select", "selected", "reopen",
             "post", "destroyed", "hung"}
  /\ pos \in 1..(Len(Modules) + 1)
  /\ lists \in [LifeTimes -> TimerList]
  /\ due \in TimerList
  /\ checkTick \in Int /\ notify \in Int
  /\ wait \in 0..MaxWait /\ busy \in 0..MaxBusy
  /\ poll \in BOOLEAN /\ update \in BOOLEAN
  /\ terminate \in {"open", "closed"}
  /\ break \in {"none", "flagged", "done"}
  /\ stopping \in Nat

(* Every list stays sorted with one timer per client, spliced ones         *)
(* included: ILibLifeTime_Check stops at the first timer that is not due   *)
(* and waits for the first one only, so a timer out of order oversleeps.   *)
ListsInOrder ==
  \A l \in LifeTimes :
    LET q == IF pc = "calling" /\ Here = l THEN due \o lists[l] ELSE lists[l]
    IN  OneTimerEach(q) /\ SoonestFirst(lists[l]) /\ SoonestFirst(due)

(* ILibStopChain ends ILibStartChain on whatever thread the signal came    *)
(* and although the wake-up may be lost, unless the signal caught this     *)
(* thread under the lock it then waits for.                                *)
StopEndsTheChain == (break # "none") ~> (pc \in {"destroyed", "hung"})

(* It does so within one period of the monitor and two turns of the loop,  *)
(* whatever becomes of the wake-up: UpnpIPAddressMonitor sets its timer    *)
(* again each time, and no wait is longer than its period.                 *)
StopIsPrompt == Running => stopping <= StopLimit

(* A change of addresses seen by the monitor, the last module, reaches the *)
(* notifier, an earlier one, unless the chain is stopped first.            *)
AddressChangeIsAnnounced == update ~> (~update \/ ~Running)

(* The timers of module m that q holds.                                    *)
Keyed(m, q) == {[key |-> <<m, q[i].data>>, tick |-> q[i].tick] : i \in DOMAIN q}

(* The timers that wait, those about to be called, and the next            *)
(* advertisement.                                                          *)
Waiting == UNION {Keyed(l, lists[l]) : l \in LifeTimes}

Called == IF due = <<>> THEN {} ELSE Keyed(Here, due)

Notice == [key |-> <<Notifier, Notifier>>, tick |-> notify]

Pending == IF pc = "destroyed" THEN {} ELSE Waiting \cup Called \cup {Notice}

Phase ==
  CASE pc = "destroyed" -> "closed"
    [] pc = "post" -> "handling"
    [] pc = "calling" \/ (pc = "preselect" /\ pos <= Len(Modules) /\ Here = Notifier)
         -> "calling"
    [] OTHER -> "waiting"

Promise == INSTANCE Timers WITH
  MaxLate <- 2 * MaxBusy, pending <- Pending, phase <- Phase

(* The lists, the select timeout and the order of the modules implement    *)
(* the timers of module Timers: none is early, lost, or later than twice   *)
(* what one turn of the loop can take.                                     *)
KeepsTime == Promise!Spec
=============================================================================
