-------------------------- MODULE VirtualDirectory --------------------------
(***************************************************************************)
(* The directory tree that the lists of the guide are shown as             *)
(* (PortingFunctions.c with NDi_LiveTV): ./Channels/<channel> and          *)
(* ./EPG/<channel>/<date>/<programme>.  A path is a record; the file       *)
(* system calls take the lists and the time, and return the lists the      *)
(* walks of the guide leave.                                               *)
(***************************************************************************)
EXTENDS Guide

CONSTANT End    (* no channel; the end of a list                           *)

(* A channel is never mistaken for the end of its list.                    *)
ASSUME VirtualDirectoryAssumption == End \notin Channels

Object(shape, c, d, id) == [shape |-> shape, channel |-> c, day |-> d, id |-> id]

Top(name) == Object(name, End, 0, 0)
Root == Top("root")
ChannelItem(c) == Object("channel", c, 0, 0)
GuideOf(c) == Object("guide", c, 0, 0)
DayOfGuide(c, d) == Object("day", c, d, 0)
Airing(c, d, id) == Object("event", c, d, id)

Shapes == {"root", "Channels", "EPG", "VOD", "none", "channel", "guide", "day", "event"}
Entries == [shape : Shapes, channel : Channels \cup {End}, day : Nat, id : Nat]

(* The parts of an object's path below the root.                           *)
Path(o) ==
  CASE o.shape = "root" -> <<>>
    [] o.shape = "channel" -> <<"Channels", o.channel>>
    [] o.shape = "guide" -> <<"EPG", o.channel>>
    [] o.shape = "day" -> <<"EPG", o.channel, o.day>>
    [] o.shape = "event" -> <<"EPG", o.channel, o.day, o.id>>
    [] OTHER -> <<o.shape>>

PathObject(path) ==
  CASE Len(path) = 0 -> Root
    [] Len(path) = 1 -> Top(path[1])
    [] Len(path) = 2 /\ path[1] = "Channels" -> ChannelItem(path[2])
    [] Len(path) = 2 /\ path[1] = "EPG" -> GuideOf(path[2])
    [] Len(path) = 3 -> DayOfGuide(path[2], path[3])
    [] OTHER -> Airing(path[2], path[3], path[4])

rootDirs == <<"Channels", "EPG", "VOD">>

ischannel(db, c) == \E i \in DOMAIN db.channels : db.channels[i] = c

(* The caller only asks for dates and for titles that a walk produced, so  *)
(* the parts of a path that isDate and the missing isListing look at are   *)
(* well formed.                                                            *)
PCGetFileDirType(db, o) ==
  CASE o.shape \in {"root", "Channels", "EPG"} -> 2
    [] o.shape \in {"guide", "day"} /\ ischannel(db, o.channel) -> 2
    [] o.shape \in {"channel", "event"} /\ ischannel(db, o.channel) -> 1
    [] OTHER -> 0

ProceedWithDirEntry(db, entry) == PCGetFileDirType(db, entry) # 0

(* An open walk: the entry it is at, and what its iterator points to: for  *)
(* the channels the one after the entry, for programmes the entry itself.  *)
NoWalk == [entry |-> Top("none"), next |-> End]

RootWalk(i) ==
  IF i > Len(rootDirs) THEN NoWalk ELSE [entry |-> Top(rootDirs[i]), next |-> i + 1]

(* firstchannel and nextchannel                                            *)
ChannelWalk(list, i, shape) ==
  IF i > Len(list) THEN NoWalk
  ELSE [entry |-> Object(shape, list[i], 0, 0), next |-> IF i = Len(list) THEN End ELSE list[i + 1]]

WithLists(db, walk) == [db |-> db, walk |-> walk]

DayEntry(c, e) == DayOfGuide(c, DayOf(e))
EventEntry(dir, e) == Airing(dir.channel, dir.day, Programme[e].id)

(* A guide lists days, a day lists programmes.                             *)
EpgWalk(db, dir, found) ==
  WithLists([db EXCEPT !.programs[dir.channel] = found.list],
            IF found.at = NoEvent THEN NoWalk
            ELSE [entry |-> IF dir.shape = "guide" THEN DayEntry(dir.channel, found.at)
                            ELSE EventEntry(dir, found.at),
                  next |-> found.at])

(* delimited: the path ends with the delimiter.  ./EPG without it is       *)
(* taken for the guide of a channel named EPG.                             *)
PCGetDirFirstFile(db, dir, delimited, t) ==
  LET c == dir.channel IN
  CASE dir.shape = "root" -> WithLists(db, RootWalk(1))
    [] dir.shape = "Channels" -> WithLists(db, ChannelWalk(db.channels, 1, "channel"))
    [] dir.shape = "EPG" /\ delimited ->
         WithLists(db, ChannelWalk(db.channels, 1, "guide"))
    [] dir.shape = "guide" /\ ischannel(db, c) ->
         EpgWalk(db, dir, firstEpgDay(db.programs[c], t))
    [] dir.shape = "day" /\ ischannel(db, c) ->
         EpgWalk(db, dir, firstEpgEvent(db.programs[c], dir.day, t))
    [] OTHER -> WithLists(db, NoWalk)

PCGetDirNextFile(db, dir, walk, t) ==
  LET c == dir.channel
      NextChannel(shape) ==
        IF walk.next = End THEN NoWalk
        ELSE ChannelWalk(db.channels, Position(db.channels, walk.next), shape)
  IN
  CASE dir.shape = "root" -> WithLists(db, RootWalk(walk.next))
    [] dir.shape = "Channels" -> WithLists(db, NextChannel("channel"))
    [] dir.shape = "EPG" -> WithLists(db, NextChannel("guide"))
    [] dir.shape = "guide" /\ ischannel(db, c) ->
         EpgWalk(db, dir, nextEpgDay(db.programs[c], walk.next, t))
    [] dir.shape = "day" /\ ischannel(db, c) ->
         EpgWalk(db, dir, nextEpgEvent(db.programs[c], walk.next, dir.day, t))
    [] OTHER -> WithLists(db, NoWalk)

(* PCGetDirNextFile would read a list element that has been erased.        *)
Dangling(db, dir, walk) ==
  \/ /\ dir.shape \in {"Channels", "EPG"}
     /\ walk.next # End /\ ~ischannel(db, walk.next)
  \/ /\ dir.shape \in {"guide", "day"} /\ ischannel(db, dir.channel)
     /\ Position(db.programs[dir.channel], walk.next) = 0

(* What get_epg_data_simple finds for GetMetaData: for a channel the first *)
(* programme that is not over, for a programme the one with its id.        *)
GetMetaData(db, o, t) ==
  IF ~ischannel(db, o.channel) \/ o.shape \notin {"channel", "event"}
  THEN [db |-> db, at |-> NoEvent]
  ELSE LET list == db.programs[o.channel]
           found == IF o.shape = "channel" THEN EpgDataNow(list, t)
                    ELSE EpgData(list, o.id, t)
       IN [db |-> [db EXCEPT !.programs[o.channel] = found.list], at |-> found.at]
=============================================================================
