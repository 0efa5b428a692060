------------------------- MODULE MCContentDirectory -------------------------
(***************************************************************************)
(* A small broadcast: a channel with four programmes on two days of two    *)
(* ticks, two of which start together, and a channel without any.          *)
(***************************************************************************)
EXTENDS ContentDirectory

CONSTANTS busy, empty

MCChannels == {busy, empty}
MCNumber == (busy :> 2) @@ (empty :> 1)
MCEvents == 1..4
Show(channel, id, start, length) ==
  [channel |-> channel, id |-> id, start |-> start, length |-> length]
MCProgramme ==
  << Show(busy, 1, 0, 1), Show(busy, 2, 1, 1), Show(busy, 3, 1, 2), Show(busy, 4, 3, 1) >>

MCRequested ==
  {Root, Top("Channels"), Top("EPG"), Top("VOD"), ChannelItem(busy), GuideOf(busy),
   DayOfGuide(busy, 0), Airing(busy, 0, 2)}
MCWindows == {<<0, 0>>, <<1, 1>>, <<0, 1>>}
=============================================================================
