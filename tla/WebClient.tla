----------------------------- MODULE WebClient ------------------------------
(***************************************************************************)
(* The HTTP client that delivers events (ILibWebClient.c): a data object   *)
(* per remote address with its queue of requests, a pool of sockets        *)
(* (ILibAsyncSocket.c), a backlog of objects that wait for a socket, and   *)
(* timers for idle connections and for retries.  Everything runs on the    *)
(* chain thread.  The kernel reports a refused connection as an exception  *)
(* or, on POSIX, as a writable socket.                                     *)
(***************************************************************************)
EXTENDS Integers, Sequences, FiniteSets, HashTree

CONSTANTS
  Remotes,        (* addresses of servers                                  *)
  PoolSize,       (* sockets of the pool                                   *)
  Requests,       (* bound: requests made to each remote                   *)
  MaxIdle,        (* MAX_IDLE_SESSIONS                                     *)
  RetryCount      (* HTTP_CONNECT_RETRY_COUNT                              *)

ASSUME WebClientAssumption ==
  /\ PoolSize \in Nat \ {0} /\ Requests \in [Remotes -> Nat]
  /\ MaxIdle \in Nat /\ RetryCount \in Nat \ {0}

VARIABLES
  table,      (* DataTable                                                 *)
  idle,       (* idleTable                                                 *)
  idleCount,
  backlog,    (* backlogQueue                                              *)
  object,     (* struct ILibWebClientDataObject of each remote             *)
  sock,       (* the sockets of the pool                                   *)
  timers,     (* the LifeTime entries of each object                       *)
  asked,      (* requests made to each remote                              *)
  told,       (* requests whose OnResponse was told the end of the answer  *)
  thread      (* "running", "stopped", or what ended the chain thread      *)

tables == <<table, idle, idleCount, backlog>>
ghosts == <<asked, told>>
vars == <<tables, object, sock, timers, ghosts, thread>>

Sockets == 1..PoolSize
NoSocket == 0

(* reading: what OnData expects, from FinHeader, WaitForClose, Chunked and *)
(* the Flag of the chunk; answered: InitialRequestAnswered.                *)
NoObject == [queue |-> <<>>, socket |-> NoSocket, pipeline |-> "unknown",
             answered |-> FALSE, reading |-> "header", backoff |-> 0]

NoTimers == [idle |-> 0, retry |-> 0]

(* due: requests the server got on this connection and has not answered;   *)
(* reset: a reset has arrived that the chain has not seen.                 *)
Disconnected == [state |-> "free", user |-> NoSocket, due |-> 0, reset |-> FALSE]

ConnectTo(r) == [Disconnected EXCEPT !.state = "connecting", !.user = r]

Init ==
  /\ table = EmptyTree /\ idle = EmptyTree /\ idleCount = 0 /\ backlog = <<>>
  /\ object = [r \in Remotes |-> NoObject]
  /\ sock = [s \in Sockets |-> Disconnected]
  /\ timers = [r \in Remotes |-> NoTimers]
  /\ asked = [r \in Remotes |-> 0]
  /\ told = [r \in Remotes |-> {}]
  /\ thread = "running"

Running == thread = "running"

Free(s) == sock[s].state = "free"

Connected(s) == sock[s].state = "connected"

Queue(r) == object[r].queue

User(s) == sock[s].user

(* Variant: only the first request of an object that is destroyed.         *)
AbandonedHead(r) == IF Queue(r) = <<>> THEN {} ELSE {Head(Queue(r))}

(* The requests whose sinks hear that the object of r is destroyed.        *)
Abandoned(r) == {Queue(r)[i] : i \in DOMAIN Queue(r)}

(* What the sink of the head of the queue of r is told.                    *)
ToldHead(r) == [told EXCEPT ![r] = @ \cup {Head(Queue(r))}]

-----------------------------------------------------------------------------
(* ILibWebClient_OnDisconnect of r, whose object is o, with Closing zero:  *)
(* what the sink of the head is told.                                      *)
ToldOnLoss(r, o) ==
  IF o.queue # <<>> /\ (o.reading = "close" \/ ~o.answered) THEN ToldHead(r) ELSE told

(* FinishedResponse does nothing there, the socket being free: the request *)
(* stays at the head of the queue and the socket connects again.           *)
SocketOnLoss(r, o) == IF o.queue = <<>> THEN Disconnected ELSE ConnectTo(r)

Lost(s, r, o) ==
  /\ sock' = [sock EXCEPT ![s] = SocketOnLoss(r, o)]
  /\ object' = [object EXCEPT ![r] = [o EXCEPT !.pipeline = "no"]]
  /\ told' = ToldOnLoss(r, o)

(* A callback of the thread waits for QLock, which the thread holds.       *)
Deadlock ==
  /\ thread' = "deadlock"
  /\ UNCHANGED <<tables, object, sock, timers, ghosts>>

-----------------------------------------------------------------------------
(* Variant: the timer of an idle connection is left running.               *)
OutOfIdleKeepsTimer(r) ==
  /\ idleCount' = idleCount - 1
  /\ idle' = DeleteEntry(idle, r)
  /\ UNCHANGED timers

(* A request for an object with an empty queue: the timer, or the entry in *)
(* idleTable that the timer made.                                          *)
OutOfIdle(r) ==
  /\ idleCount' = idleCount - 1
  /\ idle' = DeleteEntry(idle, r)
  /\ timers' = [timers EXCEPT ![r].idle = IF @ = 0 THEN 0 ELSE @ - 1]

NewRequest(r) == asked[r] + 1

(* ILibWebClient_PipelineRequestEx.  The socket an idle object remembers   *)
(* may be closed, and then nothing is sent; or be another's by now, and    *)
(* then the request goes there.                                            *)
RequestFirst(r) ==
  /\ ~HasEntry(table, r)
  /\ object' = [object EXCEPT ![r] = [NoObject EXCEPT !.queue = <<NewRequest(r)>>]]
  /\ table' = AddEntry(table, r, r)
  /\ backlog' = Append(backlog, r)
  /\ UNCHANGED <<idle, idleCount, sock, timers, thread>>

RequestQueued(r) ==
  /\ HasEntry(table, r) /\ Queue(r) # <<>>
  /\ object' = [object EXCEPT ![r].queue = Append(@, NewRequest(r))]
  /\ UNCHANGED <<tables, sock, timers, thread>>

RequestToIdle(r) ==
  LET s == object[r].socket
  IN
  /\ HasEntry(table, r) /\ Queue(r) = <<>>
  /\ OutOfIdle(r)
  /\ object' = [object EXCEPT ![r].queue = <<NewRequest(r)>>]
  /\ backlog' = IF s = NoSocket THEN Append(backlog, r) ELSE backlog
  /\ sock' = IF s = NoSocket \/ Free(s) THEN sock ELSE [sock EXCEPT ![s].due = @ + 1]
  /\ s # NoSocket => ~sock[s].reset
  /\ UNCHANGED <<table, thread>>

PipelineRequestEx(r) ==
  /\ Running /\ asked[r] < Requests[r]
  /\ asked' = [asked EXCEPT ![r] = NewRequest(r)]
  /\ RequestFirst(r) \/ RequestQueued(r) \/ RequestToIdle(r)
  /\ UNCHANGED told

(* Its send fails under QLock: Disconnect, OnDisconnect, QLock.            *)
PipelineRequestFails(r) ==
  /\ Running /\ asked[r] < Requests[r]
  /\ HasEntry(table, r) /\ Queue(r) = <<>>
  /\ object[r].socket # NoSocket /\ sock[object[r].socket].reset
  /\ Deadlock

-----------------------------------------------------------------------------
(* Variant: free sockets connect, objects in the backlog or none.          *)
PreProcessAnyway ==
  LET free == {s \in Sockets : Free(s)}
      turn(s) == Cardinality({t \in free : t <= s})
      user(s) == IF turn(s) <= Len(backlog) THEN backlog[turn(s)] ELSE NoSocket
  IN
  /\ Running /\ free # {}
  /\ sock' = [s \in Sockets |-> IF s \in free THEN ConnectTo(user(s)) ELSE sock[s]]
  /\ backlog' = SubSeq(backlog, Cardinality(free) + 1, Len(backlog))
  /\ UNCHANGED <<table, idle, idleCount, object, timers, ghosts, thread>>

(* Variant: the loop takes one more object than there are free sockets.    *)
PreProcessDropsOne ==
  LET free == {s \in Sockets : Free(s)}
      turn(s) == Cardinality({t \in free : t <= s})
  IN
  /\ Running /\ backlog # <<>> /\ free # {}
  /\ sock' = [s \in Sockets |-> IF s \in free /\ turn(s) <= Len(backlog)
                                THEN ConnectTo(backlog[turn(s)]) ELSE sock[s]]
  /\ backlog' = SubSeq(backlog, Cardinality(free) + 2, Len(backlog))
  /\ UNCHANGED <<table, idle, idleCount, object, timers, ghosts, thread>>

(* ILibWebClient_PreProcess: free sockets are given to the backlog.        *)
PreProcess ==
  LET free == {s \in Sockets : Free(s)}
      turn(s) == Cardinality({t \in free : t <= s})
  IN
  /\ Running /\ backlog # <<>> /\ free # {}
  /\ sock' = [s \in Sockets |-> IF s \in free /\ turn(s) <= Len(backlog)
                                THEN ConnectTo(backlog[turn(s)]) ELSE sock[s]]
  /\ backlog' = SubSeq(backlog, Cardinality(free) + 1, Len(backlog))
  /\ UNCHANGED <<table, idle, idleCount, object, timers, ghosts, thread>>

(* ILibWebClient_OnConnect: what it does to the object before it sends.    *)
Opened(s) == [object[User(s)] EXCEPT !.socket = s, !.answered = FALSE, !.backoff = 1]

(* The head of the queue is sent.                                          *)
Connects(s) ==
  /\ Running /\ sock[s].state = "connecting"
  /\ object' = [object EXCEPT ![User(s)] = Opened(s)]
  /\ sock' = [sock EXCEPT ![s].state = "connected", ![s].due = @ + 1]
  /\ UNCHANGED <<tables, timers, asked, told, thread>>

(* A refusal that makes the socket writable looks like a connection; the   *)
(* first send fails, and OnDisconnect connects again.                      *)
RefusedWritable(s) ==
  /\ Running /\ sock[s].state = "connecting"
  /\ Lost(s, User(s), Opened(s))
  /\ UNCHANGED <<tables, timers, asked, thread>>

(* A refusal that is reported as such: OnConnect frees the socket, with    *)
(* Closing set to 2, and sets the retry timer.                             *)
RefusedException(s) ==
  LET r == User(s)
  IN
  /\ Running /\ sock[s].state = "connecting"
  /\ sock' = [sock EXCEPT ![s] = Disconnected]
  /\ object' = [object EXCEPT ![r].socket = s, ![r].answered = FALSE,
                              ![r].pipeline = "unknown"]
  /\ told' = IF object[r].reading = "close" THEN ToldHead(r) ELSE told
  /\ timers' = [timers EXCEPT ![r].retry = @ + 1]
  /\ UNCHANGED <<tables, asked, thread>>

Backoff(r) == IF object[r].backoff = 0 THEN 1 ELSE object[r].backoff * 2

GivesUp(r) == Backoff(r) = 2 ^ RetryCount

(* The socket an object remembers is in use by another.                    *)
Stale(r) == LET s == object[r].socket
            IN s # NoSocket /\ ~Free(s) /\ User(s) # r

(* Variant: after the last retry the object is left as it is.              *)
RetrySinkForgets(r) ==
  /\ Running /\ timers[r].retry > 0
  /\ timers' = [timers EXCEPT ![r].retry = @ - 1]
  /\ object' = [object EXCEPT ![r].backoff = Backoff(r)]
  /\ backlog' = IF GivesUp(r) THEN backlog ELSE Append(backlog, r)
  /\ UNCHANGED <<table, idle, idleCount, sock, asked, told, thread>>

(* ILibWebClient_RetrySink: the object waits for a socket again, or gives  *)
(* up and is destroyed, which tells the sinks of all its requests.  The    *)
(* socket it remembers may be another's: that one is disconnected, under   *)
(* QLock.                                                                  *)
RetrySink(r) ==
  /\ Running /\ timers[r].retry > 0
  /\ IF ~GivesUp(r)
     THEN /\ timers' = [timers EXCEPT ![r].retry = @ - 1]
          /\ object' = [object EXCEPT ![r].backoff = Backoff(r)]
          /\ backlog' = Append(backlog, r)
          /\ UNCHANGED <<table, idle, idleCount, sock, ghosts, thread>>
     ELSE IF Stale(r) THEN Deadlock
     ELSE /\ timers' = [timers EXCEPT ![r].retry = @ - 1]
          /\ table' = DeleteEntry(table, r)
          /\ idle' = DeleteEntry(idle, r)
          /\ object' = [object EXCEPT ![r] = NoObject]
          /\ told' = [told EXCEPT ![r] = @ \cup Abandoned(r)]
          /\ UNCHANGED <<idleCount, backlog, sock, asked, thread>>

-----------------------------------------------------------------------------
(* Data and disconnects.                                                   *)

(* What OnData expects after a piece that is not the last of an answer:    *)
(* of the header by the kind of answer, of the chunks by ProcessChunk.     *)
AfterPiece == [header |-> {"length", "close", "chunk"}, length |-> {},
               close |-> {}, chunk |-> {"data", "footer"}, data |-> {"chunkend"},
               chunkend |-> {"chunk"}, footer |-> {}]

ChunkStages == {"chunk", "data", "chunkend", "footer"}

(* Where a piece may complete the answer.  Anything after the header of an *)
(* answer without a length does.                                           *)
MayComplete == {"header", "length", "close", "footer"}

Speaks(s) == Running /\ Connected(s) /\ ~sock[s].reset /\ sock[s].due > 0

PieceArrives(s, stage) ==
  LET r == User(s)
  IN
  /\ Speaks(s) /\ Queue(r) # <<>> /\ stage \in AfterPiece[object[r].reading]
  /\ object' = [object EXCEPT ![r].reading = stage]
  /\ UNCHANGED <<tables, sock, timers, ghosts, thread>>

(* ILibWebClient_FinishedResponse without its lock and its send.           *)
Finished(r) == [object[r] EXCEPT !.reading = "header", !.answered = TRUE,
                                 !.queue = Tail(@)]

(* The rest of the answer arrives: the sink is told, and FinishedResponse  *)
(* sends the next request or starts the idle timer.                        *)
AnswerComplete(s) ==
  LET r == User(s)
      more == Len(Queue(r)) > 1
      next == more /\ object[r].pipeline # "no"
  IN
  /\ Speaks(s) /\ Queue(r) # <<>> /\ object[r].reading \in MayComplete
  /\ told' = ToldHead(r)
  /\ object' = [object EXCEPT ![r] = [Finished(r) EXCEPT !.pipeline =
                                        IF next THEN "yes" ELSE @]]
  /\ sock' = [sock EXCEPT ![s].due = IF next THEN @ ELSE @ - 1]
  /\ timers' = IF more THEN timers ELSE [timers EXCEPT ![r].idle = @ + 1]
  /\ UNCHANGED <<tables, asked, thread>>

(* That send fails under QLock, a reset having come behind the answer.     *)
NextRequestFails(s) ==
  LET r == User(s)
  IN
  /\ Speaks(s) /\ Len(Queue(r)) > 1 /\ object[r].reading \in MayComplete
  /\ object[r].pipeline # "no"
  /\ Deadlock

(* With an empty queue OnData drops what arrives.                          *)
DataDropped(s) ==
  /\ Speaks(s) /\ Queue(User(s)) = <<>>
  /\ sock' = [sock EXCEPT ![s].due = @ - 1]
  /\ UNCHANGED <<tables, object, timers, ghosts, thread>>

(* The server closes or has reset the connection and recv finds it so.     *)
PeerCloses(s) ==
  /\ Running /\ Connected(s)
  /\ Lost(s, User(s), object[User(s)])
  /\ UNCHANGED <<tables, timers, asked, thread>>

(* A reset arrives while the thread is busy elsewhere.                     *)
ResetArrives(s) ==
  /\ Running /\ Connected(s) /\ ~sock[s].reset
  /\ sock' = [sock EXCEPT ![s].reset = TRUE]
  /\ UNCHANGED <<tables, object, timers, ghosts, thread>>

-----------------------------------------------------------------------------
(* Variant: the entry in idleTable is not made.                            *)
IntoIdleUnlisted(r) ==
  /\ UNCHANGED idle
  /\ idleCount' = idleCount + 1

(* The timer of an object that is idle still.                              *)
IntoIdle(r) ==
  /\ idle' = AddEntry(idle, r, r)
  /\ idleCount' = idleCount + 1

(* ILibWebClient_TimerSink: the connection is closed, be it another's by   *)
(* now, whose OnDisconnect then finds its own Closing zero.                *)
TimerSink(r) ==
  LET s == object[r].socket
      v == User(s)
  IN
  /\ Running /\ timers[r].idle > 0 /\ Queue(r) = <<>> /\ idleCount <= MaxIdle
  /\ timers' = [timers EXCEPT ![r].idle = @ - 1]
  /\ IntoIdle(r)
  /\ IF Stale(r)
     THEN /\ sock' = [sock EXCEPT ![s] = SocketOnLoss(v, object[v])]
          /\ object' = [object EXCEPT ![r].socket = NoSocket, ![v].pipeline = "no"]
          /\ told' = ToldOnLoss(v, object[v])
     ELSE /\ sock' = [t \in Sockets |-> IF t = s THEN Disconnected ELSE sock[t]]
          /\ object' = [object EXCEPT ![r].socket = NoSocket]
          /\ UNCHANGED told
  /\ UNCHANGED <<table, backlog, asked, thread>>

(* With more than MAX_IDLE_SESSIONS counted the sink frees its own object  *)
(* under another's key, goes on using it and lists it as idle.             *)
TimerSinkEvicts(r) ==
  /\ Running /\ timers[r].idle > 0 /\ idleCount > MaxIdle /\ Queue(r) = <<>>
  /\ thread' = "evicted"
  /\ UNCHANGED <<tables, object, sock, timers, ghosts>>

(* ILibDestroyWebClient destroys the objects of DataTable, which tells the *)
(* sinks of their requests; then it takes the objects of the backlog for   *)
(* requests.                                                               *)
DestroyWebClient ==
  /\ Running
  /\ IF backlog # <<>>
     THEN thread' = "confused" /\ UNCHANGED <<tables, object, sock, timers, told>>
     ELSE /\ thread' = "stopped"
          /\ object' = [r \in Remotes |-> IF HasEntry(table, r) THEN NoObject ELSE object[r]]
          /\ told' = [r \in Remotes |-> told[r] \cup
                       IF HasEntry(table, r) THEN Abandoned(r) ELSE {}]
          /\ table' = EmptyTree /\ idle' = EmptyTree
          /\ sock' = [s \in Sockets |-> Disconnected]
          /\ timers' = [r \in Remotes |-> NoTimers]
          /\ UNCHANGED <<idleCount, backlog>>
  /\ UNCHANGED asked

OnSocket(s) ==
  \/ Connects(s) \/ RefusedWritable(s) \/ RefusedException(s)
  \/ \E stage \in DOMAIN AfterPiece : PieceArrives(s, stage)
  \/ AnswerComplete(s) \/ NextRequestFails(s) \/ DataDropped(s) \/ PeerCloses(s) \/ ResetArrives(s)

OnTimer(r) == RetrySink(r) \/ TimerSink(r) \/ TimerSinkEvicts(r)

Next ==
  \/ \E r \in Remotes :
       PipelineRequestEx(r) \/ PipelineRequestFails(r) \/ OnTimer(r)
  \/ PreProcess
  \/ \E s \in Sockets : OnSocket(s)
  \/ DestroyWebClient

(* The chain runs PreProcess in every turn and timers when they are due;   *)
(* a server that is asked again and again accepts some connection, answers *)
(* some request and drops a connection it has done with.                   *)
Fairness ==
  /\ WF_vars(PreProcess)
  /\ \A r \in Remotes : WF_vars(OnTimer(r))
  /\ \A s \in Sockets : /\ SF_vars(Connects(s)) /\ SF_vars(AnswerComplete(s))
                        /\ SF_vars(PeerCloses(s))
                        /\ SF_vars(PieceArrives(s, "footer"))
                        /\ SF_vars(\E stage \in ChunkStages : PieceArrives(s, stage))

Spec == Init /\ [][Next]_vars /\ Fairness
-----------------------------------------------------------------------------
Nodes == [key : Remotes, value : Remotes]

ObjectType == [queue : Seq(Nat), socket : Sockets \cup {NoSocket},
               pipeline : {"unknown", "yes", "no"}, answered : BOOLEAN,
               reading : DOMAIN AfterPiece, backoff : Nat]

InUse == [state : {"connecting", "connected"}, user : Remotes, due : Nat,
          reset : BOOLEAN]

SockType == {Disconnected} \cup InUse

TimersType == [idle : Nat, retry : Nat]

TypeOK ==
  /\ table \in Seq(Nodes) /\ idle \in Seq(Nodes) /\ idleCount \in Int
  /\ backlog \in Seq(Remotes)
  /\ object \in [Remotes -> ObjectType]
  /\ sock \in [Sockets -> SockType]
  /\ timers \in [Remotes -> TimersType]
  /\ asked \in [Remotes -> Nat] /\ told \in [Remotes -> SUBSET Nat]
  /\ thread \in {"running", "stopped", "deadlock", "evicted", "confused"}

(* Where an object is that will get a connection or has one.               *)
Places(r) == {<<"backlog", i>> : i \in {j \in DOMAIN backlog : backlog[j] = r}}
             \cup {<<"socket", s>> : s \in {t \in Sockets : ~Free(t) /\ User(t) = r}}
             \cup {<<"retry", i>> : i \in 1..timers[r].retry}

(* An object whose request was sent over the socket of a connection that   *)
(* had been closed while it was idle: nothing will ever send it.           *)
Forgotten(r) ==
  /\ Queue(r) # <<>> /\ Places(r) = {}
  /\ object[r].socket # NoSocket /\ object[r].backoff = 1

(* An object with requests waits in exactly one place - the backlog, a     *)
(* socket, the retry timer - or has been forgotten; an idle one is in none *)
(* but on the socket it remembers.                                         *)
PlacedOnce ==
  Running => \A r \in Remotes :
    IF Queue(r) # <<>> THEN Cardinality(Places(r)) = 1 \/ Forgotten(r)
    ELSE Places(r) \subseteq {<<"socket", object[r].socket>>}

(* Every connection that is idle is watched by one timer until it is       *)
(* listed as idle, none that is in use is: no connection is cut while a    *)
(* request of its own is answered.                                         *)
WatchedIffIdle ==
  Running => \A r \in Remotes :
    timers[r].idle + (IF HasEntry(idle, r) THEN 1 ELSE 0)
      = IF HasEntry(table, r) /\ Queue(r) = <<>> THEN 1 ELSE 0

(* The count of idle sessions falls behind the table when a connection is  *)
(* used again before its timer, and never runs ahead of it: the eviction   *)
(* only happens with more sessions listed than MAX_IDLE_SESSIONS.          *)
NeverEvictsEarly ==
  /\ Running => idleCount <= Len(idle)
  /\ thread = "evicted" => Len(idle) > MaxIdle

(* Shutdown leaves no request whose sink was not told.                     *)
AllToldAtStop ==
  thread = "stopped" => \A r \in Remotes : told[r] = 1..asked[r]

(* Every request is answered, or its object is forgotten, or the thread    *)
(* has come to its end.                                                    *)
EveryRequestIsTold ==
  \A r \in Remotes : \A n \in 1..Requests[r] :
    asked[r] >= n ~> n \in told[r] \/ Forgotten(r) \/ ~Running
=============================================================================
