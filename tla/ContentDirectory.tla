-------------------------- MODULE ContentDirectory --------------------------
(***************************************************************************)
(* Browse (MicroMediaServer.c) over the lists of the guide, while the      *)
(* tuner thread fills them, the clock erases from them and the shutdown    *)
(* empties them (dvbteeserver.cpp).  No lock is shared: a step is one call *)
(* on the lists.  Races inside one call are not modelled.                  *)
(***************************************************************************)
EXTENDS VirtualDirectory

CONSTANTS
  Requested,    (* the objects clients ask for                             *)
  Windows,      (* the StartingIndex and RequestedCount they ask with      *)
  MaxTime       (* bound: the clock stops here                             *)

(* What clients ask for is an object that its path leads back to.          *)
ASSUME ContentDirectoryAssumption ==
  /\ \A o \in Requested : o \in Entries /\ PathObject(Path(o)) = o
  /\ Windows \subseteq Nat \X Nat
  /\ MaxTime \in Nat

VARIABLES
  db,           (* channel_list and the program_list of each channel       *)
  now,          (* time()                                                  *)
  dumped,       (* the channels the tuner has handed over                  *)
  reported,     (* the programmes it has handed over                       *)
  stopped,      (* destroy_lists has run                                   *)
  b,            (* the Browse that is being answered                       *)
  quiet         (* history: nothing touched the lists during this Browse   *)

vars == <<db, now, dumped, reported, stopped, b, quiet>>
lists == <<db, dumped, reported, stopped>>

Idle == [pc |-> "idle", dir |-> Root, meta |-> FALSE, si |-> 0, rc |-> 0, nr |-> 0,
         tm |-> 0, entry |-> Root, walk |-> NoWalk, inner |-> NoWalk, count |-> 0,
         shown |-> <<>>]

Init ==
  /\ db = [channels |-> <<>>, programs |-> [c \in Channels |-> <<>>]]
  /\ now = 0 /\ dumped = {} /\ reported = {} /\ stopped = FALSE
  /\ b = Idle /\ quiet = FALSE

-----------------------------------------------------------------------------
(* The tuner thread, the clock and the shutdown, until the program reads   *)
(* memory that is gone.                                                    *)

Running == b.pc # "undefined"

chandump(c) ==
  /\ Running /\ ~stopped /\ c \notin dumped /\ reported = {}
  /\ dumped' = dumped \cup {c}
  /\ db' = [db EXCEPT !.channels = insert_sorted(@, c)]
  /\ quiet' = FALSE
  /\ UNCHANGED <<now, reported, stopped, b>>

(* A programme of a channel that is not listed is dropped.                 *)
epg_event(e) ==
  LET c == Programme[e].channel IN
  /\ Running /\ ~stopped /\ e \notin reported
  /\ reported' = reported \cup {e}
  /\ db' = IF ischannel(db, c)
           THEN [db EXCEPT !.programs[c] = insert_sorted_epg(@, e, now)] ELSE db
  /\ quiet' = FALSE
  /\ UNCHANGED <<now, dumped, stopped, b>>

Tick ==
  /\ Running /\ now < MaxTime
  /\ now' = now + 1
  /\ quiet' = FALSE
  /\ UNCHANGED <<lists, b>>

(* dvbtee_stop, from the SIGINT handler                                    *)
destroy_lists ==
  /\ Running /\ ~stopped
  /\ stopped' = TRUE
  /\ db' = [channels |-> <<>>, programs |-> [c \in Channels |-> <<>>]]
  /\ quiet' = FALSE
  /\ UNCHANGED <<now, dumped, reported, b>>

-----------------------------------------------------------------------------
(* The object IDs: the path below the root, in front of it 0.              *)

parentID(o) == IF o = Root THEN <<-1>> ELSE <<0>> \o Front(Path(o))

cpId(o) == IF o = Root THEN <<0>> ELSE parentID(o) \o <<Last(Path(o))>>

filepath(id) == Tail(id)

(* One callback of ProcessDir; TM and CI are always equal.                 *)
At(pc) == b' = [b EXCEPT !.pc = pc]
AfterEntry == IF b.meta THEN "answer" ELSE "next"

(* Variant: the window is one longer.                                      *)
InWindowLong(r) == r.tm >= r.si /\ (r.nr <= r.rc \/ r.rc = 0)

InWindow(r) == r.tm >= r.si /\ (r.nr < r.rc \/ r.rc = 0)

Emit(children, airing) ==
  b' = [b EXCEPT !.shown = Append(@, [id |-> cpId(b.entry), parent |-> parentID(b.entry),
                                      children |-> children, airing |-> airing]),
                 !.nr = @ + 1, !.tm = @ + 1, !.inner = NoWalk, !.count = 0,
                 !.pc = AfterEntry]

(* Nothing is over, or the walk of the directory looks at no programme:    *)
(* otherwise firstEpgDay may step over one.                                *)
Settled(dir) ==
  \/ dir.shape \in {"Channels", "day"}
  \/ \A c \in Channels : \A i \in DOMAIN db.programs[c] : ~Over(db.programs[c][i], now)

CdsBrowse(id, meta, window) ==
  LET o == PathObject(filepath(id))
      type == PCGetFileDirType(db, o)
  IN
  /\ b.pc = "idle"
  /\ type = 2 \/ (type = 1 /\ meta)
  /\ b' = [Idle EXCEPT !.dir = o, !.entry = o, !.meta = meta,
                       !.si = IF meta THEN 0 ELSE window[1],
                       !.rc = IF meta THEN 0 ELSE window[2],
                       !.pc = IF meta THEN "didl" ELSE "open"]
  /\ quiet' = Settled(o)
  /\ UNCHANGED <<lists, now>>

(* ProcessDir: the first entry.                                            *)
OpenDir ==
  LET first == PCGetDirFirstFile(db, b.dir, TRUE, now) IN
  /\ b.pc = "open"
  /\ db' = first.db
  /\ b' = [b EXCEPT !.walk = first.walk,
                    !.pc = IF first.walk = NoWalk THEN "answer" ELSE "entry"]
  /\ UNCHANGED <<now, dumped, reported, stopped, quiet>>

(* Variant: an entry that is passed over is looked at again.               *)
EntryAgain ==
  /\ b.pc = "entry"
  /\ b' = IF ProceedWithDirEntry(db, b.walk.entry)
          THEN [b EXCEPT !.entry = b.walk.entry, !.pc = "didl"]
          ELSE b
  /\ UNCHANGED <<lists, now, quiet>>

Entry ==
  /\ b.pc = "entry"
  /\ b' = IF ProceedWithDirEntry(db, b.walk.entry)
          THEN [b EXCEPT !.entry = b.walk.entry, !.pc = "didl"]
          ELSE [b EXCEPT !.pc = "next"]
  /\ UNCHANGED <<lists, now, quiet>>

(* The walk goes on from an element that may have been erased.             *)
NextEntry ==
  LET next == PCGetDirNextFile(db, b.dir, b.walk, now) IN
  /\ b.pc = "next"
  /\ IF Dangling(db, b.dir, b.walk)
     THEN At("undefined") /\ UNCHANGED db
     ELSE /\ db' = next.db
          /\ b' = [b EXCEPT !.walk = next.walk,
                            !.pc = IF next.walk = NoWalk THEN "answer" ELSE "entry"]
  /\ UNCHANGED <<now, dumped, reported, stopped, quiet>>

-----------------------------------------------------------------------------
(* DirectoryEntryToDidl.                                                   *)

(* Variant: an entry outside the window counts as returned.                *)
SkippedReturned ==
  /\ b.pc = "didl" /\ ~InWindow(b)
  /\ b' = [b EXCEPT !.nr = @ + 1, !.tm = @ + 1, !.pc = AfterEntry]
  /\ UNCHANGED <<lists, now, quiet>>

Skipped ==
  /\ b.pc = "didl" /\ ~InWindow(b)
  /\ b' = [b EXCEPT !.tm = @ + 1, !.pc = AfterEntry]
  /\ UNCHANGED <<lists, now, quiet>>

(* PCGetGetDirEntryCount: only the path of the root ends with a delimiter. *)
CountFirst ==
  LET first == PCGetDirFirstFile(db, b.entry, b.entry = Root, now) IN
  /\ b.pc = "didl" /\ InWindow(b) /\ PCGetFileDirType(db, b.entry) = 2
  /\ db' = first.db
  /\ IF first.walk = NoWalk THEN Emit(0, NoEvent)
     ELSE b' = [b EXCEPT !.inner = first.walk, !.pc = "count"]
  /\ UNCHANGED <<now, dumped, reported, stopped, quiet>>

CountNext ==
  LET counted == IF ProceedWithDirEntry(db, b.inner.entry) THEN b.count + 1 ELSE b.count
      next == PCGetDirNextFile(db, b.entry, b.inner, now)
  IN
  /\ b.pc = "count"
  /\ IF Dangling(db, b.entry, b.inner)
     THEN At("undefined") /\ UNCHANGED db
     ELSE /\ db' = next.db
          /\ IF next.walk = NoWalk THEN Emit(counted, NoEvent)
             ELSE b' = [b EXCEPT !.inner = next.walk, !.count = counted]
  /\ UNCHANGED <<now, dumped, reported, stopped, quiet>>

(* GetMetaData leaves the target of a channel that has gone NULL, and      *)
(* strlen reads it.                                                        *)
Describe ==
  LET found == GetMetaData(db, b.entry, now) IN
  /\ b.pc = "didl" /\ InWindow(b) /\ PCGetFileDirType(db, b.entry) # 2
  /\ IF b.entry.shape = "channel" /\ ~ischannel(db, b.entry.channel)
     THEN At("undefined") /\ UNCHANGED db
     ELSE db' = found.db /\ Emit(0, found.at)
  /\ UNCHANGED <<now, dumped, reported, stopped, quiet>>

(* NumberReturned and TotalMatches are sent; the metadata of one object    *)
(* always counts 1.                                                        *)
Answer ==
  /\ b.pc = "answer"
  /\ b' = Idle /\ quiet' = FALSE
  /\ UNCHANGED <<lists, now>>

BrowseStep ==
  \/ OpenDir \/ Entry \/ NextEntry
  \/ Skipped \/ CountFirst \/ CountNext \/ Describe
  \/ Answer

Next ==
  \/ \E c \in Channels : chandump(c)
  \/ \E e \in Events : epg_event(e)
  \/ Tick
  \/ destroy_lists
  \/ \E o \in Requested, meta \in BOOLEAN, w \in Windows : CdsBrowse(cpId(o), meta, w)
  \/ BrowseStep

(* The thread that answers a Browse keeps running.                         *)
Spec == Init /\ [][Next]_vars /\ WF_vars(BrowseStep)

-----------------------------------------------------------------------------
(* The state is made of listed channels, programmes of their own channel   *)
(* and a Browse with its counters in range.                                *)
TypeOK ==
  /\ db.channels \in Seq(Channels)
  /\ \A c \in Channels : /\ db.programs[c] \in Seq(Events)
                         /\ \A i \in DOMAIN db.programs[c] :
                              Programme[db.programs[c][i]].channel = c
  /\ now \in 0..MaxTime /\ dumped \subseteq Channels /\ reported \subseteq Events
  /\ b.pc \in {"idle", "open", "entry", "next", "didl", "count", "answer", "undefined"}
  /\ b.dir \in Entries /\ b.entry \in Entries /\ b.walk.entry \in Entries
  /\ {b.nr, b.tm, b.si, b.rc, b.count} \subseteq Nat
  /\ b.nr = Len(b.shown) /\ b.nr <= b.tm
  /\ {stopped, quiet, b.meta} \subseteq BOOLEAN

(* What the walks rely on when they stop at the first later day, at the    *)
(* first later channel and at the first programme that is on: the channels *)
(* are in the order of their numbers, and a channel's programmes start one *)
(* after the other (insert_sorted, insert_sorted_epg).                     *)
ListsInOrder ==
  /\ \A i, j \in DOMAIN db.channels :
       i < j => /\ Number[db.channels[i]] <= Number[db.channels[j]]
                /\ db.channels[i] # db.channels[j]
  /\ \A c \in Channels : \A i, j \in DOMAIN db.programs[c] :
       i < j => Programme[db.programs[c][i]].start < Programme[db.programs[c][j]].start

(* The programmes of a channel that are on or to come.                     *)
Live(c) ==
  {e \in Events : ~Over(e, now) /\ \E i \in DOMAIN db.programs[c] : db.programs[c][i] = e}

(* The programmes a directory of the guide has an entry for: a day has all *)
(* of its own, a guide the first of every day, once the first of all is on. *)
Programmes(o) ==
  LET live == Live(o.channel)
      begins(e) == Programme[e].start
  IN IF o.shape = "day" THEN {e \in live : DayOf(e) = o.day}
     ELSE {e \in live : /\ \E q \in live : begins(q) <= now
                        /\ \A q \in live : DayOf(q) = DayOf(e) => begins(e) <= begins(q)}

(* How many of a set of programmes start no later than one of them.        *)
Rank(T, e) == Cardinality({q \in T : Programme[q].start <= Programme[e].start})

ByStart(T) == [n \in 1..Cardinality(T) |-> CHOOSE e \in T : Rank(T, e) = n]

(* What a directory shows: the programmes one after the other.             *)
Listing(o) ==
  LET programmes == ByStart(Programmes(o)) IN
  CASE o = Root -> <<Top("Channels"), Top("EPG")>>
    [] o.shape = "Channels" -> [i \in DOMAIN db.channels |-> ChannelItem(db.channels[i])]
    [] o.shape = "EPG" -> [i \in DOMAIN db.channels |-> GuideOf(db.channels[i])]
    [] o.shape = "guide" ->
         [n \in DOMAIN programmes |-> DayEntry(o.channel, programmes[n])]
    [] o.shape = "day" -> [n \in DOMAIN programmes |-> EventEntry(o, programmes[n])]
    [] OTHER -> <<>>

(* The entries StartingIndex and RequestedCount ask for.                   *)
Page(list, si, rc) ==
  LET inside == {i \in DOMAIN list : si < i /\ (rc = 0 \/ i <= si + rc)}
  IN [i \in 1..Cardinality(inside) |-> list[si + i]]

(* The earliest of a set of programmes, if it has any.                     *)
Earliest(T, e) ==
  IF T = {} THEN e = NoEvent
  ELSE e \in T /\ \A q \in T : Programme[e].start <= Programme[q].start

(* The programme described with an item: for a channel the first that is   *)
(* not over, for a programme itself.                                       *)
Described(o, e) ==
  Earliest({q \in Live(o.channel) : o.shape = "channel" \/ Programme[q].id = o.id}, e)

(* An entry of the answer says what its object is, carries the ID that     *)
(* leads back to it, and the number of its children.  The number of        *)
(* children of EPG is 0 whatever is listed.                                *)
Shows(s, o) ==
  /\ PathObject(filepath(s.id)) = o
  /\ o # Root => PathObject(filepath(s.parent)) = b.dir \/ b.meta
  /\ IF o.shape \in {"channel", "event"} THEN Described(o, s.airing)
     ELSE o.shape # "EPG" => s.children = Len(Listing(o))

(* A Browse during which the lists, the clock and the server were left     *)
(* alone answers with exactly the entries of the requested window, in      *)
(* order, and with the number of all entries as TotalMatches; so a client  *)
(* that asks for page after page sees every child once (CdsBrowse,         *)
(* ProcessDir, DirectoryEntryToDidl, the walks of the guide).              *)
PageIsExact ==
  b.pc = "answer" /\ quiet =>
    LET page == IF b.meta THEN <<b.dir>> ELSE Page(Listing(b.dir), b.si, b.rc)
    IN /\ Len(b.shown) = Len(page) /\ \A i \in DOMAIN page : Shows(b.shown[i], page[i])
       /\ ~b.meta => b.tm = Len(Listing(b.dir))

(* However the lists change under a Browse, its answer never holds an      *)
(* entry twice: the walks only go forward in lists that stay in order.     *)
NeverShownTwice ==
  \A i, j \in DOMAIN b.shown : i < j => b.shown[i].id # b.shown[j].id

(* A Browse never reads a list element that is gone: said of the walk by   *)
(* PortingFunctions.h.                                                     *)
WalksStay == b.pc # "undefined"

(* Only a change of the lists or of the clock under a Browse can make its  *)
(* walk read an element that is gone: the erasing the Browse itself does   *)
(* while it counts children and describes items never does.                *)
BreaksOnlyDisturbed == b.pc = "undefined" => ~quiet

(* A programme leaves its list only when it is over, when one with the     *)
(* same start replaces it, or at the shutdown: no walk and no insertion    *)
(* loses one that is on or to come.                                        *)
EndedOnlyErased ==
  [][\A c \in Channels : \A i \in DOMAIN db.programs[c] :
       LET e == db.programs[c][i] IN
       \/ \E j \in DOMAIN db'.programs[c] : Programme[db'.programs[c][j]].start
                                              = Programme[e].start
       \/ Over(e, now) \/ stopped']_vars

(* Every Browse comes to its answer, whatever the tuner inserts and the    *)
(* clock erases meanwhile, unless it reads an element that is gone.        *)
EveryBrowseEnds == b.pc # "idle" ~> b.pc \in {"idle", "undefined"}
=============================================================================
