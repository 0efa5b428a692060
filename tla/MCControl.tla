----------------------------- MODULE MCControl ------------------------------
(***************************************************************************)
(* Two interfaces and the loopback; numbers are scaled to an unsigned long *)
(* of four bits and an unsigned int of two.                                *)
(***************************************************************************)
EXTENDS Control

CONSTANTS eth, wlan, lo

MCInterfaces == {eth, wlan, lo}
MCAddressLists == {<<>>, <<eth>>, <<eth, wlan>>}

Written(digits) == [digits |-> digits, minus |-> FALSE, junk |-> FALSE]
MCNumbers ==
  {Written(2), Written(5), Written(16),
   [Written(2) EXCEPT !.minus = TRUE], [Written(2) EXCEPT !.junk = TRUE]}

Named(names) == [star |-> FALSE, names |-> names]
MCFilters ==
  {[star |-> TRUE, names |-> {}], Named({}), Named({"Res", "Genre"}),
   Named({"Size", "ChildCount"})}

(* A good request, and those that differ from it in one respect or two.    *)
Good == [given |-> Arguments, flag |-> "BrowseDirectChildren", StartingIndex |-> Written(5),
         RequestedCount |-> Written(2), filter |-> [star |-> TRUE, names |-> {}],
         object |-> "container", sorted |-> FALSE]
MCRequests ==
  {[Good EXCEPT !.given = @ \ {a}] : a \in {"ObjectID", "SortCriteria"}}
    \cup {[Good EXCEPT !.filter = f] : f \in MCFilters}
    \cup {[Good EXCEPT !.StartingIndex = n, !.RequestedCount = m] :
            n \in MCNumbers, m \in MCNumbers}
    \cup {[Good EXCEPT !.flag = f, !.object = o, !.sorted = s] :
            f \in {"BrowseMetadata", "BrowseDirectChildren", "other"},
            o \in {"container", "item", "gone", "foreign"}, s \in BOOLEAN}

(* A programme that is missing, an hour long, a day and an hour, a day.    *)
Lasting(days, rest) == [days |-> days, rest |-> rest, scheduled |-> TRUE]
MCProgrammes ==
  [title : {<<>>, <<"angle", "amp">>}, description : {<<>>, <<"quote">>},
   time : {Lasting(0, 1), Lasting(1, 1), Lasting(1, 0)}]
    \cup {[title |-> <<>>, description |-> <<>>, time |-> NoProgramme]}

MCMetadata ==
  [number : {<<"plain">>}, sign : {<<"amp", "plain">>}, channel : {<<"plain">>},
   programme : MCProgrammes, addresses : {0}]
=============================================================================
