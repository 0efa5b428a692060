# TV-Now in TLA+

TV-Now is a DLNA media server: it finds television channels with a tuner
library, lists them (with their programme guide) in a UPnP content directory and
streams them over HTTP.  Nearly everything happens on one thread, which runs a
chain of modules around `select`; a second thread runs the tuner library, and a
signal handler stops the whole.  This directory specifies and checks the parts of
that machinery whose correctness depends on the order of events.

Contents: [components](#components), [plan](#plan), [eventing](#eventing),
[timers and chain](#timers-and-chain), [HTTP sessions](#http-sessions), [HTTP client](#http-client),
[content directory](#content-directory), [requests and DIDL](#requests-and-didl),
[runs](#runs-and-their-bounds), [proofs](#proofs), [findings](#findings),
[not modelled](#not-modelled), [limits](#what-is-not-shown).

## Components

| Component | State | Operations | What makes it correct |
|---|---|---|---|
| GENA eventing (`UpnpMicroStack.c`) | two doubly linked lists of subscribers with leases and reference counts, SIDs, notifications held by the web client | SUBSCRIBE, renewal, UNSUBSCRIBE, purge of lapsed leases, state-variable events, outcome of a delivery, shutdown | lists and counters agree; a record lives exactly as long as something refers to it; nobody's subscription is lost or revived |
| Timers (`ILibParsers.c`, ILibLifeTime) | sorted list of timers per owner | add, remove, check, flush | no timer early, lost, late or called twice |
| Chain (`ILibParsers.c`, `tv-now.c`) | position in the loop, wake-up socket, terminate flag | PreSelect, select, PostSelect, unblock, stop | nobody's timer is slept over; a stop ends the loop |
| SSDP (`UpnpMicroStack.c`) | time of the next advertisement, delayed answers | NOTIFY, M-SEARCH, byebye | advertised before the announcement expires; address changes announced |
| Asynchronous sockets (`ILibAsyncSocket.c`) | per socket: receive buffer, list of pending sends with three kinds of buffer ownership, pause flag | connect, send, receive, pause and resume, disconnect | bytes leave in order; each buffer is released once; one disconnect per connect |
| Accept pool (`ILibAsyncServerSocket.c`) | fixed set of slots, listening socket | accept, forward events | no slot is lost; a full pool delays and does not refuse |
| HTTP server sessions (`ILibWebServer.c`) | per session: request made, answered, done, close override, idle timer | receive, send, stream, answered, idle, disconnect | responses in request order; exactly one idle timer while idle; a busy session is not reaped |
| HTTP client (`ILibWebClient.c`) | pool of sockets, backlog, queues of requests per peer, idle table and counter, retry delays | pipeline, connect, retry, respond, idle, destroy | the sink of each request is told; an object waits in one place; only idle connections are cut; no lock is waited for twice |
| Parsers and containers (`ILibParsers.c`) | queue, stack, hash tree; XML and HTTP text | | queue and tree behave as a sequence and a map |
| SOAP and HTTP dispatch (`UpnpMicroStack.c`) | errno, the static length and text of the description, the list of addresses | check arguments, call the application, answer | a request does not suffer from an earlier one; an answer fits its buffer |
| Content directory (`MicroMediaServer.c`, `PortingFunctions.c`) | the Browse that is answered: its window, its place in the walk, what it has counted | Browse with paging, nested counts | a page is the right slice of a listing; counts match it |
| DIDL-Lite (`CdsObjectToDidl.c`) | none | count the bytes of an entry, print it | what is printed fits what was counted |
| File transfer (`MicroMediaServer.c`) | per transfer: file, position, bytes left, buffer | range arithmetic, send loop driven by OnSendOK | unreachable code, see [not modelled](#not-modelled) |
| Channel list and guide (`dvbteeserver.cpp`) | sorted lists filled by the tuner thread | insert, iterate (erasing what is over), look up, destroy | lists stay sorted; only what is over is erased; an iterator never reads what is gone |
| Start and shutdown (`tv-now.c`) | | create the chain, SIGINT | stop is prompt |
| Strings, MIME table, operating-system layer, test data | | | plain helpers: left to tests |

How they interact: `ILibStartChain` calls every module's `PreSelect` and
`PostSelect` on one thread.  An accepted connection becomes a session of the HTTP
server, whose requests go to the UPnP stack (SUBSCRIBE, SOAP, description) or to a
virtual directory (streams).  Subscriptions make the stack send NOTIFY requests
through the HTTP client, which calls back once or twice per request.  Sessions,
idle client connections, retries, delayed M-SEARCH answers and the address monitor
are timed by ILibLifeTime objects, themselves modules of the chain.  The tuner
thread shares only the channel list and the guide with the chain thread.

What is hard: callbacks that re-enter or free what their caller holds, reference
counts spread over four functions, deadlines computed from a clock read earlier, a
wake-up that can be lost, a signal handler that takes a lock, a connection that
closes in the middle of any of this.  `PROJECT.json` lists each such place under
`hazards` with the property that watches over it, or the reason why none does yet.

## Plan

| # | Modules | Abstract specification | State |
|---|---|---|---|
| 1 | `SubscriberList`, `Eventing` | `Subscriptions` | checked; safety and refinement proved, state changes at run time only of services with one subscriber |
| 2 | `LifeTime`, `Chain` | `Timers` | safety and refinement proved, liveness checked |
| 3 | `HttpSession`: life cycle of a server session with its socket, idle timer, pipelined requests, streamed responses, and the accept pool | | safety proved, liveness checked |
| 4 | `HashTree`, `WebClient`: pool, backlog, pipelining, idle table, retry, lock order | | safety proved, liveness checked |
| 5 | `Guide`, `VirtualDirectory`, `ContentDirectory`: the lists, the directory made of them, Browse over both | `Listing`, the directory as one sequence, and `Page`, its window | safety proved, liveness checked |
| 6 | `Didl`, `Control`: the text of an entry in two passes, and every other request of the device | | checked and proved |
| 7 | `Ssdp`: delayed answers, byebye | | open |
| 8 | composition of `WebClient` with `Eventing`, so that delivery outcomes are the client's and not a choice | | open |

`LifeTime` and `HashTree`, `Guide`, `VirtualDirectory` and `Didl` have no state of
their own: they are the operators of the modules they serve.

Theorems worth having beyond those below come with rows 7 and 8.
The modules are written for both tools: parameters are CONSTANTS with named
assumptions, one action per operation, no RECURSIVE operator.  Where the code loops over a list, the model
says what is left of the list (`Kept`, `Sweep`, `SumTo`) or, where each turn depends on the last
(`FirstDayFrom`), is a recursive function on the states of the loop.

## Eventing

`SubscriberList` is the pointer level: a record of the functions Head, Total (per
service) and Next, Previous (per record).  `InsertHead` is the end of
`UpnpTryToSubscribe`.  `Remove` and `Removed` are what `UpnpRemoveSubscriberInfo` does to
the lists and the record it returns: `Unlink` for a SID that is found, and the head,
left where it is, for bad data (`BadCount`, a counter out of range; a SID out of range is in
`UnsubscribeBadData` below).  `Scrub` is the `memset` of `UpnpDestructSubscriberInfo`, and
`Expire`, `ExpireSpins`, `ExpireRefuses` are the three ways through `UpnpExpireSubscriberInfo`.  They write the pointers the C
code writes, in its order; what is *on* a list is derived (`Linked`: the least set
closed under Next that contains the head), never stored.

`Eventing` has the other fields of a record (`info`: SID, SEQ, RefCount, RenewByTime,
and whether the memory is live), the SID counter, the notifications the web client
holds (`events`, each with the pointer of its container), the list walk that owns
EventLock (`handler`), the clock, and how the process ended, if it did (`mode`).
`misdirected` is a history: how many references of a record requests with bad data
have dropped.

| Action | Code |
|---|---|
| `BeginSubscribe`, `PurgeStep`, `Admit`, `RefuseCallback`, `RefuseFull` | `UpnpSubscribeEvents` and `UpnpTryToSubscribe`, one step per record of the purge loop, because the loop reads the clock each time.  A refused callback leaves the record allocated for it behind (`Forgotten`); the address list may then be freed twice, so the process may crash |
| `Renew` | `UpnpRenewEvents` (no clamp on the new lease; a lapsed lease not yet purged can be renewed) |
| `Unsubscribe` | `UpnpProcessUNSUBSCRIBE` for a SID of the list; one of 1 to 64 characters that is not on it gets a 412 and changes nothing |
| `UnsubscribeBadData` | the same for an empty SID or one of more than 64 characters: the head, still linked, loses a reference, and the answer is 200 |
| `EventDone`, `EventDoneAgain` | `UpnpSendEventSink`, first and later report of one request |
| `BeginSendEvent`, `SendEventStep`, `SendEventExpire`, `EndSendEvent` | `UpnpSendEvent` with `UpnpSendEvent_Body` |
| `DestroyMicroStack` | `UpnpDestroyMicroStack` |

Abstractions.  A SID is the number printed into `uuid:%d`; the texts of requests,
answers and property sets are left out.  A `Timeout` header that does not parse
leaves `TimeoutVal` unset, which is any of `Timeouts`.  When a delivery fails the
container is handed to `UpnpExpireSubscriberInfo` in place of a subscriber; the
read past the container's end is a choice between "no list's head" (nothing
happens) and `crashed`.  Walks under EventLock are interleaved with the clock only:
every caller runs on the chain thread.

A record may be destructed while it is on a list or behind a notification in flight: by
the purge, which does not look at the reference count, or once an UNSUBSCRIBE with
bad data has made the count one short.  The next use of it reads freed memory, which has no defined
outcome, so the model stops there (`mode = "dangling"`), and the properties are about
everything up to that moment and about what may lead to it.

`RuntimeStateChanges` names what the application may do: the services whose `UpnpSetState_*` it
calls while there are subscribers.  `tv-now.c` only does so before the chain starts, so
for this program the set is empty.  Nothing limits how long a notification is in
flight: the web client has no timeout on a response.

`Subscriptions` is what a subscriber may count on: a SID is granted once, with room
left, never granted again, and ends only by its owner's cancel, by a walk that finds
its lease over, or with the stack; or all are lost at once (`Lose`), which the code comes to when
`mode` is `"dangling"`.  `KeepsPromise` is the refinement.

## Timers and chain

`LifeTime` has the list operations as operators on sequences: `Insert` (before the
first timer that is not sooner), `Due`/`NotDue` (the splice of
`ILibLifeTime_Check`), `RemoveData` (only the first timer of an object:
unlinking it clears the Next pointer the C loop continues with), and ageing.
All seconds are relative to `gettimeofday`, since the code only ever compares and
subtracts ticks.  That makes the state space finite without a bound on time, so
liveness is checked over behaviours that really are infinite.

`Chain` is `ILibStartChain`, one action per stage of the loop; `BeginCheck`, `Call`,
`EndCheck` are `ILibLifeTime_Check` before, in and after the callbacks; `Advertise`
is `UpnpMasterPreSelect`; `Selected` and `Reopen` are the unlocked test and
re-creation of the wake-up socket; `Handle` is what a PostSelect handler may do to
timers.  Closing the wake-up socket (`terminate = "closed"`) makes the next select a
poll if it is noticed before the set is built.  Afterwards it makes `select` fail
at once, unless the descriptor's number was given to another socket: both are allowed.
A stop comes from `SignalHere` (this thread, interrupting select),
`SignalElsewhere` then `Unblock` (another thread, which does not interrupt it), or
`SignalHereUnderLock`, where BreakSink waits for the lock its own thread holds
(`hung`).

`Timers` promises: no timer rings before its time, twice, or more than `MaxLate`
seconds late, none is lost, and only handlers set or cancel one.
`KeepsTime` shows that `Chain` implements it with `MaxLate = 2 * MaxBusy`: one turn
of the loop between the reading of the clock and the next check, and one for the
callbacks before.  Two assumptions on time are built into `Tick`: `select` returns when its
timeout is over, and a turn of the loop spends at most `MaxBusy` seconds outside it.

Fairness: `WF(Thread)`, the operating system schedules the process, and `WF(Tick)`,
time passes.  Nothing is assumed of sockets, signals or the second half of a stop
on another thread.  `Eventing` states safety only and needs no fairness.

## HTTP sessions

`HttpSession` is the server side of a connection through four files: the socket of
the accept pool, the reader of requests, the session, and its idle timer.  Per slot of
the pool it has `sock` (open, PAUSE, the number of unsent buffers, the requests
in the receive buffer), `sess` (Reserved4, Reserved5 and Reserved8 under the names
their comments give them, the request whose body is awaited, what the
application has said), the number of timers the LifeTime object holds with the
session's address, and `peer`, the client with the kernel between.

| Action | Code |
|---|---|
| `Accept` | `ILibAsyncServerSocket_PostSelect`, `ILibAsyncSocket_UseThisSocket`, `ILibWebServer_OnConnect` |
| `IdleSink` | `ILibWebServer_IdleSink`, called between turns |
| `Turn` | the sets of `ILibAsyncSocket_PreSelect`, select, the call of PostSelect |
| `WriteBuffer`, `WriteFails` | one round of the write loop of PostSelect, with `ILibWebServer_OnSendOK` after the last buffer |
| `PeerReset`, `Receive`, `Recv`, `TurnDone` | the read half: the error set; `ILibProcessAsyncSocket` with its loop over what was left over, recv, the loop over what is fresh; each request through `ILibWebClient_OnData` to `ILibWebServer_OnResponse` |
| `SendMore`, `SendLast`, `EndStream` | the application's calls of `ILibWebServer_Send_Raw` and `ILibWebServer_StreamBody` down to `ILibAsyncSocket_Send`, with `ILibWebServer_RequestAnswered` where they reach it |
| `AppReturns` | the end of `ILibWebServer_OnResponse`, which pauses the reader |
| `Client` | external |

Any of the sends may close the connection under its caller, so the state is looked
at again after each (`Open`).  `Hangup` is the common effect of the four places that close a
socket.

Abstractions.  Whether a connection persists (version, Connection header,
Reserved6) is a choice.  A request comes whole, or as a head and a body;
how its bytes fall into packets is left to the reader of headers.  The sockets of the chain
take their turns in any order, and the idle timer may ring between any two.
A client stops reading at most once per connection; while it does, the write loop goes
round on EWOULDBLOCK and keeps the only thread (no step is enabled for it).
Urgent data, which select reports as an error, counts as leaving.  A send that fails
with SIGPIPE ends the process and is not followed.  The application sends any
number of buffers, the last marked done, goes on in OnSendOK after one was left unsent, or gives no answer:
`UpnpProcessPOST` with an action it does not know, `SendXML` without its file.

Fairness.  The thread runs: `WF` of the disjunction of its steps over all slots, as there is one
thread.  `SF(Service(s))`: select does not starve a socket or a timer that is due again
and again, and a client that stops reading reads again or leaves.  `SF(SendLast(s))`:
an answer that goes on comes to its last buffer, as files and descriptions are finite
(a live channel ends when its client leaves).  Clients are under no obligation to send or leave.

## HTTP client

`WebClient` is the client that delivers events: a data object per server with its
queue of requests (`object`), the map that finds it (`table`, a `HashTree`), the
map and the counter of idle connections (`idle`, `idleCount`), the objects that wait
for a socket (`backlog`), the pool (`sock`), and the LifeTime entries set with each
object's address (`timers`).  `asked` and `told` are histories: how many requests
were made to a server and which sinks heard the end of theirs.

| Action | Code |
|---|---|
| `PipelineRequestEx`, `PipelineRequestFails` | `ILibWebClient_PipelineRequestEx`: a new object to the backlog, a request behind others, or one sent at once on an idle connection (`OutOfIdle`) |
| `PreProcess` | `ILibWebClient_PreProcess`: free sockets connect for the backlog |
| `Connects`, `RefusedWritable`, `RefusedException`, `RetrySink` | the outcomes of a connection and the timer of the next attempt |
| `PieceArrives`, `AnswerComplete`, `NextRequestFails`, `DataDropped` | `ILibWebClient_OnData` with `ILibWebClient_ProcessChunk` and `ILibWebClient_FinishedResponse` |
| `PeerCloses`, `ResetArrives` | the end of a connection, seen or not yet seen |
| `TimerSink`, `TimerSinkEvicts` | `ILibWebClient_TimerSink`: a connection goes to the idle table, where it may push another out |
| `DestroyWebClient` | `ILibDestroyWebClient` |

`thread` says how the client came to its end when it did not go on: `stopped`;
`deadlock`, when a callback waits for `QLock`, which its own thread holds (a send
that fails inside `PipelineRequestEx`, `FinishedResponse` or `RetrySink`);
`evicted`, when `TimerSink` frees its own object under another's key; `confused`,
when `DestroyWebClient` takes the objects of the backlog for requests.  What
follows each of the last three has no defined outcome.

Reading the code for the model showed more than the properties say.
`PipelineRequestEx` sends on the socket an object remembers without asking whether
the connection is still there: the request is lost, and its object is `Forgotten`, or it goes
out on the connection another object has by now.  An idle object whose socket serves
another cuts that one's connection.  `idleCount` is lowered by every use of an
idle connection, listed or not, so it only falls behind.  An answer that ends with its connection
and a failed attempt report a sink more than once and send the request again.

Fairness.  `WF(PreProcess)`: the chain calls it in every turn.  `WF(OnTimer(r))`:
due timers ring.  The rest is the servers' part, `SF` of `Connects`, `AnswerComplete`,
`PeerCloses` and of the pieces that lead on: a server that is tried again and again
accepts, answers, finishes a chunked answer and closes in the end.

## Content directory

`Guide` has the lists of `dvbteeserver.cpp` as sequences: the insertions, the sweeps
that erase ended programmes as they look for one, `firstEpgDay`, `nextEpgDay`,
`firstEpgEvent`, `nextEpgEvent`, and the lookup of a programme.  `VirtualDirectory`
is the tree `PortingFunctions.c` makes of them: `./`, `./Channels/`, `./EPG/`, a
guide per channel, a directory per day, an item per programme; what an object
ID may name, and the first and next entry of a directory with the iterator between
(`walk`).  `ContentDirectory` is a Browse over this, one action per call on the
lists: `CdsBrowse`, `OpenDir`, `Entry`, `NextEntry`, `Skipped`, `CountFirst` and
`CountNext` (the nested walk that counts the children of an entry), `Describe` and `Answer`.
Between any two of these the tuner thread (`chandump`, `epg_event`), the clock
(`Tick`) and the signal handler (`destroy_lists`) may act; no lock is shared.

`Dangling` says whether the element an iterator stands on is gone; then the next
call has no defined outcome (`undefined`, where the server may stop).  `quiet` is a history: nothing
but the Browse itself touched the lists, and they held no ended programme when it began if
the directory is one whose walk steps over the entry behind an ended one (`Settled`).

`PageIsExact` compares with a reference: `Listing` says what a directory shows, without
walking: which programmes have an entry is a set (`Programmes`), and their place is how many of it
start no later (`Rank`); `Page` says what a window of a listing is.  The reference gives way to
the code in two places.  The guide of a channel is empty unless a programme is on now.  The child
count of `./EPG/` is not looked at: `PCGetGetDirEntryCount` is asked for the path without its
delimiter, which `PCGetDirFirstFile` takes for a channel's guide, so the count is always 0,
although `PortingFunctions.h:160` promises the number of entries.

Fairness.  `WF(BrowseStep)`: the thread that answers runs.

## Requests and DIDL

`Control` is every request but SUBSCRIBE and UNSUBSCRIBE: descriptions, the actions
without arguments, `GetCurrentConnectionInfo`, and Browse up to the walk; further
the refresh of the addresses and any other call that sets errno.  One step is one request, since
`SPAWN_BROWSE_THREAD` is not defined and a Browse is answered on the chain thread; its entries are
steps of their own.  What a request may find from an earlier one is state: errno,
`bufferLen` and `description`, the addresses.  An answer is its code and, for
each buffer that is filled, the bytes allocated and the bytes printed.

`Didl` has the two passes of `CdsToDidl_GetMediaObjectDidlEscaped`: `size` adds up,
`length` is what is printed, with the tests on filter bits each of them makes;
`GetMetaData` has the six shapes of object the program makes.  Texts are sequences of
kinds of characters, as an escaped one is longer; dates and numbers are printed at their longest.

A number is its size against `ULongMax` and `UIntMax`; wider than `unsigned int` it is
cut.  Fields that nothing in the program fills, empty arguments and requests
without a `SOAPACTION` are left out.

What the model shows beside its properties: `GetCurrentConnectionInfo` answers 501
to every body that begins with `<` (Browse has the same test commented out);
`GET /` without a Host header announces the length of the whole previous answer, or
sends a text that was never written (`unwritten`); an unknown action and a description file that
cannot be read get no answer (`http` shows what becomes of such a session); after one number out of range every legal number is refused
until another failing call changes errno; a client on the loopback or an unlisted interface takes the
place of the first address.

No fairness is assumed: every step is a whole request, and only safety is stated.

## Runs and their bounds

| Run | Shows |
|---|---|
| `eventing` | Types and limits, list structure, exact reference counts, no leak but that of refused callbacks, and the refinement of `Subscriptions`, under every order of SUBSCRIBE, refusal, purge, renewal, UNSUBSCRIBE with good data and bad, state changes, delivery, time and shutdown, until a destructed record is left in use; and that this happens in two ways only |
| `chain` | Lists in order, blocktime within bounds, refinement of `Timers`, stop prompt and certain, address changes announced |
| `http` | Requests of one connection are answered one at a time; exactly the idle sessions have a timer, exactly one; a closed socket has nothing unsent; a session ends, unless it is stranded in one of two known ways or awaits a body |
| `webclient` | An object with requests waits in exactly one place; exactly the idle connections are watched; no early eviction; every sink told at the stop, and in the end without one, but for the two exceptions named |
| `directory` | Lists in order; a page exactly the window of its listing when nothing interfered, never an entry twice when something did; only an interference makes a walk read what is gone; only what is over is erased; a Browse ends |
| `control` | A legal number is refused only after one out of range; the description's length is right; entries and answers fit their buffers; no address lost |
| `http_stranded`, `eventing_premature`, `eventing_undelivered`, `eventing_expire_head`, `eventing_bad_data`, `directory_race` | The [findings](#findings) |

`MCEventing.cfg`: two services that share two record addresses; `cm` has room for two
subscribers, `cd` for one and state changes.  Two records are needed for a list with a
head and a successor, two services to confuse the lists and to have one full while the other has
room; a freed address is given out again.  With two subscribers the expiry of the head in a state change leaves a
head that is its own predecessor (finding 3), so only the one-subscriber case is
sound.  Three SIDs (`MaxSid`), SEQ up to `MaxSeq`, and two moments of time (`MaxNow`) with leases
of 0 seconds: a lease runs, is over, and is renewed afterwards.
The four configurations of findings have three addresses, two subscribers for
each service, leases of 0 and 2 seconds clamped to 1, and three moments of time.
Record addresses are symmetric; no liveness is checked with symmetry.

`MCChain.cfg`: one client list before the notifier, the monitor's list after it, two
clients with delays of 0, 1 and 3 seconds against periods of 2 and 7, so that
timers tie, overtake one another and fall due while callbacks run; one second of
work per turn.  `stopping` is a history variable, capped just above the bound it is
compared with.

`MCHttpSession.cfg`: two slots, so that one waits or times out while the other is in the middle of
its turn; the client of one pipelines two requests (the second arrives before,
while or after the first is answered), two buffers unsent at most, so that the list
is empty, has a last buffer, or has a successor.  Slots serve one client after
another without bound: no counter of connections is needed.

`MCWebClient.cfg`: two servers share one socket, so that one waits in the backlog,
takes the socket the other remembers, or has it cut; one is asked twice, so that a
queue has a second request while the first is answered, lost or retried.  Two attempts are enough
for one that is repeated and one that is given up, `MaxIdle = 0` for an eviction with one idle connection.
`Requests` bounds the requests.

`MCContentDirectory.cfg`: a channel with four programmes on two days of two ticks, two of
which start together, so that one replaces the other, and a channel without programmes before it.  Four programmes
give a day a second entry, a walk something to erase in front of it and behind it, and a
guide a second day.  The windows are everything, the second entry, and one entry from the start.
`MaxTime` is the end of the last programme but one; the tuner hands over every channel once, before the programmes.

`MCControl.cfg`: two interfaces and the loopback; `unsigned long` has four bits and
`unsigned int` two, so that numbers fit, are cut, or are out of range; with a sign and with rubbish besides.
Requests differ from a good one in one respect or two.  A buffer that was never written holds
nothing or more than anything; texts hold each kind of character; a programme is absent, an hour long, a day and an hour, or a day.

All configurations but `MCControl.cfg` say `CHECK_DEADLOCK FALSE`: the process ends (`destroyed`), may
crash or hang, the bounds on SIDs, requests and time end behaviours of `Eventing`,
`WebClient` and `ContentDirectory`, and the
server of `HttpSession` does nothing more when every slot is stranded.

## Proofs

### Eventing

`SubscriberListProofs` and `EventingProofs` are checked by TLAPS for any services,
any finite set of record addresses, any limit, leases and number of clients.

*Lemmas on lists.*  `Linked` is the least closed set (`LinkedIsLeast`), depends only on the
pointers inside it (`LinkedFrame`); `ExpireAlone` says that on a list of one record
`UpnpExpireSubscriberInfo` comes to an end and writes what `UpnpRemoveSubscriberInfo` would; `InsertHeadLinks` and `UnlinkRemoves` say that
the pointer writes add and take out exactly one record of exactly one list and keep
`WellFormed`; `ScrubKeepsLists` that clearing a record that is on no list disturbs none.
No induction is used: the leastness of `Linked` replaces it.

*Inductive invariant.*  `IInv` is `TypeOK`, `ListsSound`, `RefCountExact`,
`OnlyRefusedLeak`, and four strengthenings: `IsFiniteSet(events)`, without which counting
the pending notifications means nothing; `WalkSound`, that the cursor of a walk
is null or on the walked list, without which the step after an unlinking could
act on a freed record; `InFlightSound`, that a pending notification points to a
live record with its SID, whose next SEQ is above the notification's, which makes a new notification one
more, so that the reference taken for it is counted; and `RefPositive`, that a record has a
reference left.  `RefCountExact` would allow 0 there, since `misdirected` may take any number off, and a count
that starts at 0 never reaches 0 again.  All but the types and finiteness are claimed until a destructed
record is left in use.  `DropKeeps` is the argument for every dropped reference: if it is
the last one and something still refers to the record, then by the account a
request with bad data took a reference from it; otherwise the account goes on.  `PurgeKeeps` is the same for the purge, where
what is left may only be a notification.  There is one lemma per action (`StepPreserves` puts them together) and
`Inductive` concludes; `TypesAndLimits`, `ListsStaySound`, `RefCountIsExact` and
`OnlyRefusalsLeak` follow, as do `NoWalkHangs`, that the loop over Previous always ends, and
`DanglesNoOtherWay`, that no step but the two named leaves a destructed record in use.

*Refinement.*  `PromiseIsKept`: every step of `Eventing` is a step of `Subscriptions` or leaves
its variables as they are.  The set of leases is read off the lists (`Active`), so two records
with one SID would make one lease of two, and a cancel would end another's
subscription.  `SidsTellApart` excludes it: SIDs on lists are granted ones, and different records
have different SIDs.  It needs `IInv` and is kept by each action (`SidsKept`).
`OneLeaves` and `NoneTouched` say what an unlinking and the other steps do to the leases; there is one lemma per action.
`LossRefines` is the step into `"dangling"`.

*Hypotheses.*  The theorems of `EventingProofs` have one hypothesis, `ExpiresOnlyAlone`: a service of
`RuntimeStateChanges` has at most one subscriber.  It holds of this program, whose
`RuntimeStateChanges` is empty, with any limits, and of any application as long as the
services it changes have one subscriber.  It cannot be dropped: `eventing_expire_head`
is the counterexample with two subscribers.  Nothing is assumed of how late a delivery is
reported or of the SIDs clients send.

### HTTP sessions

`HttpSessionProofs` is checked for any set of slots, any number of requests per
connection and any `MaxUnsent` above zero, without further hypotheses.  All five
invariants of the run `http` are theorems.

`SlotSound(s)` describes one slot, in six parts.  `ClosedIsClean`, `FlagsAgree` and
`Accounted` tie the timers, the unsent buffers and the answer owed to the flags of the
session; these are the facts wanted.  They are not inductive alone: a request received while the last one is
being answered would spoil the account, so `PausedWhileBusy` says that the reader
is paused then, from the return of the application on, and before that the thread is still in the
application; `PlaceSound` says that the write loop has a buffer to
send and that the application is only called with a request;
`GoesOn`, that an answer which was begun has a buffer unsent, unless the client
is gone, is what `StrandedOnlyIf` needs.  An action concerns one slot
(`SlotBySlot` disposes of the others); `HangupPreserves` and
`RequestAnsweredPreserves` are cited wherever a step ends in one of these.

### Timers and chain

`LifeTimeProofs` has what the operators on one list return: `Insert` puts a timer at one place and
keeps order and one timer per client, the splice divides a list into its due front and the
rest, `RemoveData` takes out one.  `ChainProofs` is checked for any modules, clients,
delays and periods and any `MaxBusy`.

The invariant is `IInv`.  Besides `TypeOK` it says where the loop may be (`Position`), what
`ILibLifeTime_Check` has cut off and left (`Splice`), and that lists are in order (`InOrder`).
`InTime` carries the argument about lateness.  A module that has been asked in this turn has no timer
before the end of the wait computed so far, except for what the turn has used of its time since; one not yet asked
may be late by the turn before in addition (`Earliest`).  So nothing is slept over, and no callback is
late by more than two turns.  `Monitored` and `WaitBounded` say that the address monitor always has its timer and that this
bounds every wait; from that `StopBounded` reckons what can still go by before a stop takes effect.

`TimersKept` is the refinement of `Timers`: `StepMaps` has one case per action.  `Keyed`
turns a list into its set of timers, and lemmas say what each operation on a list does to the set.

### HTTP client

`WebClientProofs` is checked for any remote addresses, any pool of at least one socket, any bounds on requests, idle sessions
and retries, without further hypotheses.  All five invariants of the run are theorems.

`IInv` describes each remote address by itself (`RemoteFits`).  `InPlace` is
`PlacedOnce` with the socket, retry timer and back-off that belong to each place; a connection is
watched exactly while its queue is empty; requests made are those told and those queued, which is what
`AllToldAtStop` needs.  `SocketFits` ties a socket to the object that remembers it, and
`OneEntryEach` says that the tables hold a key once, without which a deletion would leave a
second entry.  An action concerns one address and one socket; `SamePlaces`, `OwnSocketStep` and
`OtherSockets` dispose of the others, and the cases share `LostStep`, `AnswerStep`, `RequestStep` and `RefusedStep`.

### Content directory

`ContentDirectoryProofs` is checked for any channels, programmes, day length,
requested objects and windows.

*Lists.*  `KeptFacts` says that erasing positions leaves the other elements in order, `SweepFacts` and
`FirstDayFacts` that the walks erase only what is over and find what is left, `InsertSortedEpgFacts` and
`InsertSortedFacts` where an insertion goes.  The loop of `firstEpgDay` erases and may start over behind
the last element, so that it ends needs an argument: each turn lowers the
elements left or the way to the end (`FewerRounds`).  `LoopFunction` and `LoopInduction` define a
function by recursion, and prove a fact about it, along such a measure, by the well-foundedness of `<`.
`Guided` (types, order, channels belong to the broadcast) is inductive and gives
`ListsStayInOrder` and `NothingLostEarly`.

*Browse.*  `Browsing` says that the place of the Browse and its iterators match: `Stood` describes, for each
directory, what the iterator of a walk over it may hold; `DirectoryTypes` follows.  `Undisturbed` says
that while nobody interferes an iterator stands on an element that is in its list and not over (`Alive`);
it is inductive because whatever the Browse erases is over, and gives `SelfErasingIsSafe`.
`Fresh` is about any interference: entries shown are `Behind` the walk, that is, their names, numbers, days or starts
come before those of the entry at hand (`Passed`), and lists in order keep that so (`PassedStays`).
With `DistinctIDs`, that different objects have different IDs, `NothingShownTwice` follows.

*Exact pages.*  `PagesAreExact` needs to know, at every step, which entry of the listing a walk is at: `Reached(dir, w, k)`
says it is at the k-th, for a guide and a day the programme of rank k.  `FirstReached` and `NextReached` show
that `PCGetDirFirstFile` reaches the first and `PCGetDirNextFile` the next, or that there is none left; below them lie
`SweepFindsEarliest` (a sweep of a list in order finds the earliest programme sought), `FirstDay`, `NextDay`, `FirstOfDay`,
`NextOfDay` for the four walks, and `FirstRank`, `NextRank`, `LastRank` for ranks.
`ReachedEntry` says that this entry is the listed one and carries the ID of its directory as parent; `./VOD`, the third of
the root, is the exception.  The inductive invariant is `Exact`: TotalMatches is the number of entries behind the walk
(`WalkedSoFar`), the entries in the window have been shown (`ShownSoFar`, with `Taken` for how many those are), the
nested walk is at the entry after those counted, and nothing is over where a walk could step across it.
Each call of the Browse erases what is over, so `SteadyLists` is the other half: what is on or to come,
and with it every listing, is the same after the call.

*Hypotheses.*  Throughout, that no channel is the value `End` stands for, the end of a list
(`VirtualDirectoryAssumption`).  `NothingShownTwice` alone assumes `UniqueIds`: the programmes of a channel that start on one day have
different event ids.  It cannot be dropped, since an object ID names a programme by channel, day and
event id, and the ids are the broadcaster's.

### Requests

`ControlProofs` is checked for any numbers, word sizes, interfaces, address lists, requests and texts.
It assumes `ControlAssumption`, the types of the constants, and two facts about strings that TLC evaluates and the
provers cannot: `TextAssumption`, that the messages have lengths, and `EscapedAssumption`,
that an entity is as long as the table of the first pass says.

*errno.*  `LegalRefusedOnlyOverrun` speaks of an answer; it needs `ErrnoTold`, that
errno is `ERANGE` only if some request held a number out of range, which is inductive because
every other failure leaves something else.  `ULongRefusal`, `ULongErrno` and `LegalNumberKeepsErrno` say
what one call of `ILibGetULong` takes from errno and leaves in it; in a Browse the second number is read
with the errno of the first.  `Inductive` concludes, and gives `LegalNumbersAreRead` and `DescriptionsAreWhole`.

*Addresses.*  `AddressesReordered` says that a Browse holds the list of the server
after `ReachableFirst`, and the list does not change under it.  What remains is
`ReachableFirstKeeps`: the first place of the client's address gets what was first,
so both are still there.  That there is a first place (`FirstPlace`) is that a set of numbers has a
least one (`LeastElement`), from the well-foundedness of `<`.

*Room for answers.*  Most answers allocate and print in one step.  The exception is the description, whose
length and text are kept from one request to the next: `DescriptionKept`, that the length kept is never less than the
document's once there is a text, is the strengthening `AnswersFit` needs.

*Room for entries.*  An entry is a sum over its fields.  `SumTo` is a recursive function; `SumToTable` unfolds
it, and `Upwards` (what holds of 0, and of n + 1 if of n, holds up to the end, by a least counterexample) gives
`SumIsNat` and `SumIsMonotone`.  `PrintedIsCounted` compares the two passes field by field.  The second pass prints
any field whose bits overlap those of a counted one, so it also has to print no field the first did not count:
`FilterStringBits` says that a filter names everything or none of the texts and dates,
which `PassesAgree` puts together.  `MetaDataDescribable` says that the six objects `GetMetaData` makes are of the kind these lemmas speak of.
The days of a duration are taken to be printed in at most `DayDigits` digits,
and the texts that were never written stay excepted, as in the property.

### What is only model-checked

The liveness properties `StopEndsTheChain`, `AddressChangeIsAnnounced`, `SessionsEnd`, `EveryRequestIsTold` and
`EveryBrowseEnds`, since liveness under fairness is out of the prover's reach.  Everything else the passing runs check
is a theorem.  With state changes at run time of a service with two subscribers,
nothing is proved of `Eventing`: the lists are spoilt there (finding 3).

## Findings

1. `eventing_premature` (`UpnpMicroStack.c:1189`).  The purge of a SUBSCRIBE destructs a
   lapsed subscriber whatever its reference count.  A notification still in flight is then
   completed on a freed record, against `NoPrematureDestruction`.  The TODO at lines 980-982 describes the symptom.
2. `eventing_undelivered` (`UpnpMicroStack.c:1942`).  After a failed delivery the
   container, not the subscriber, is passed to `UpnpExpireSubscriberInfo`, so the subscriber
   stays, contrary to the comment above the call.
3. `eventing_expire_head` (`UpnpMicroStack.c:1035`).  Expiring the head while it has a
   successor sets the successor's Previous to the successor itself; the next walk for
   it never ends.  This needs `RuntimeStateChanges`, which this program does not use.

4. `http_stranded` (`ILibAsyncSocket.c:648`).  When a send in the write loop fails, the list of unsent
   buffers is cleared and nothing else is.  The reader is paused while an answer is
   under way, so select never looks at the socket again, and a session that is not idle has no timer: the slot is
   lost to the pool of 64.  `StrandedOnlyIf` shows that the only other way there is a request without an answer.

5. `directory_race` (`PortingFunctions.c:660`).  A Browse keeps an iterator over a list
   of the guide between its calls, and the tuner thread, the end of a programme or the
   signal handler may erase its element: the next call reads freed memory, where
   `PortingFunctions.h:145` promises the next entry of the directory.  `BreaksOnlyDisturbed` shows that the Browse
   itself, which erases too, never does this to itself.

6. `eventing_bad_data` (`UpnpMicroStack.c:942`).  For a SID of length 0 or above 64
   `UpnpRemoveSubscriberInfo` says "BAD DATA--ignoring" (line 941) and returns the head of the list, still linked.
   `UpnpProcessUNSUBSCRIBE` (lines 1128-1136) takes it for the record asked for, drops one of its
   references, destructs it at zero and answers 200.  `DanglesOnlyTwoWays` says that this and finding 1 are
   the only ways to a destructed record in use.

## Not modelled

- File transfer (`HandleWebRequest` and what follows it): nothing calls
  `UpnpPresentationRequest`, the only way in; streams are served by the tuner library.
- `ILibWebClient_PipelineRequest` and `ILibWebClient_DeleteRequests`: nothing calls them.
- The HTTP and XML parsers, base64, escaping, string helpers, the MIME table and the recorded broadcasts: functions of their arguments,
  or constants, without state or order.
- Sends accepted in part, with the ownership of what is left of a buffer: `HttpSession` counts whole buffers,
  `WebClient` sends whole requests.  SIGPIPE ends the process.
- Races of two threads inside one call on a list: there is no defined outcome to check.
- Delayed M-SEARCH answers and byebye: open in the plan; advertisement is in `Chain`.

## What is not shown

Once a destructed record is left in use nothing is said of `Eventing`: what follows is undefined.
`UpnpDestroyMicroStack` frees subscribers while the web client, destroyed later,
may still report notifications: `NoPrematureDestruction` and `DanglesOnlyTwoWays` are about a running
stack, and `AllToldAtStop` sees that the sinks are told, not what they touch.
`DestroyWebClient` leaves out the socket an object remembers that is another's by then
(`ILibWebClient.c:247-251`): the sinks are told all the same, but the code may touch a freed object.
`ILibForceUnBlockChain` on another thread may touch the chain after it was freed at the very
end of the process; `Unblock` is not enabled then.  The clock is assumed not to be set back.
A page is shown to be exact for a guide without ended programmes; with them `firstEpgDay` steps
over the programme behind an ended one (`dvbteeserver.cpp:319`), and `Settled` excepts that, so no property covers it.
A day is a fixed number of seconds, where `nextEpgDay` (`dvbteeserver.cpp:356-373`) adds 24 hours to a midnight of
`localtime`: the days on which the clock is changed, of 23 and 25 hours, are not considered.
With an empty list of addresses `ReachableFirst` stores nothing; the code writes past an allocation of no bytes there.  `EntriesFit` and `AnswersFit`
except texts that were never written, whose length nobody knows; a duration of 100,000 days or more is not considered.
