-------------------------------- MODULE Didl --------------------------------
(***************************************************************************)
(* The DIDL-Lite text of a media object (CdsObjectToDidl.c): one pass adds *)
(* up the bytes to allocate, a second one prints them.  Texts are          *)
(* sequences of kinds of characters, a filter is a set of bits, and what   *)
(* is printed is known by its length.  The lengths are those of the        *)
(* strings in CdsStrings.h.                                                *)
(***************************************************************************)
EXTENDS Integers, Sequences, FiniteSets, SequencesExt

(* f[1] + ... + f[n], as a recursive function.                             *)
SumTo(f, n) == LET s[k \in 0..n] == IF k = 0 THEN 0 ELSE s[k - 1] + f[k] IN s[n]

(* What a character becomes when it is escaped twice.                      *)
Escaped == [plain |-> "c", quote |-> "&amp;quot;", angle |-> "&amp;lt;", amp |-> "&amp;amp;"]
EscapedLength == [plain |-> 1, quote |-> 10, angle |-> 8, amp |-> 9]

Width(text, widths) == SumTo([i \in DOMAIN text |-> widths[text[i]]], Len(text))

EscapedWidth == [ch \in DOMAIN Escaped |-> Len(Escaped[ch])]

(* The lengths that are added up are those of the entities.                *)
ASSUME EscapedAssumption == EscapedWidth = EscapedLength

DoubleEscape(text) == Width(text, EscapedWidth)
DoubleEscapeLength(text) == Width(text, EscapedLength)

(* enum CdsFilterBits: some fields share bits.                             *)
AllBits == 0..31
Bits == [Creator |-> {0}, Res |-> {1}, Size |-> {6}, ChildCount |-> {7}, Searchable |-> {8},
         Album |-> {9}, Genre |-> {10}, ChannelNr |-> {16}, ChannelID |-> {18},
         CallSign |-> {18, 19}, Recordable |-> {20}, DateTimeRange |-> {21},
         SchedStartTime |-> {22}, SchedEndTime |-> {23}, SchedDurationTime |-> {21, 23},
         ProgramID |-> {22, 23}, LongDescription |-> {27}]

(* CdsToDidl_GetFilterBitString: a list that does not begin with a star    *)
(* can only name the first fields and the attributes of res, which bring   *)
(* res along.                                                              *)
GetFilterBitString(star, names) ==
  IF star THEN AllBits
  ELSE (UNION {Bits[n] : n \in names \cap {"ChildCount", "Searchable", "Creator", "Album",
                                           "Genre", "Res", "Size"}})
         \cup (IF "Size" \in names THEN Bits["Res"] ELSE {})

(* The two ends of an element: as counted, and as printed.                 *)
Counted == [ChannelNr |-> 47, ChannelID |-> 48, CallSign |-> 45, ProgramID |-> 47,
            LongDescription |-> 59, Recordable |-> 49, DateTimeRange |-> 55, SchedStartTime |-> 65,
            SchedEndTime |-> 61, SchedDurationTime |-> 71]
Printed == [Counted EXCEPT !.ChannelID = 47]

(* The room for the dates and numbers between them.                        *)
Room == [Recordable |-> 3, DateTimeRange |-> 64, SchedStartTime |-> 32,
         SchedEndTime |-> 32, SchedDurationTime |-> 16]

Date == 20     (* 2015-11-12T00:00:00Z                                     *)
Clock == 8     (* 00:30:00                                                 *)
SizeDigits == 20
CountDigits == 10
DayDigits == 5

NoProgramme == [days |-> 0, rest |-> 0, scheduled |-> FALSE]

Text == Seq(DOMAIN Escaped)
Time == [days : Nat, rest : Nat, scheduled : BOOLEAN]

(* CDS_AllocateObject: fields without a text are not in "texts".           *)
AllocateObject(container, class) ==
  [container |-> container, class |-> class,
   id |-> <<"plain">>, parent |-> <<"plain">>, title |-> <<>>, texts |-> <<>>,
   recordable |-> FALSE, range |-> FALSE, time |-> NoProgramme,
   childCount |-> 0, res |-> <<>>]

Has(o, f, bits) == f \in DOMAIN o.texts /\ Bits[f] \cap bits # {}

(* The fields that hold a date or a number.                                *)
NumberFields(o) ==
  (IF o.recordable THEN {"Recordable"} ELSE {})
    \cup (IF o.range /\ o.container THEN {"DateTimeRange"} ELSE {})
    \cup (IF o.time.scheduled THEN {"SchedStartTime", "SchedEndTime"} ELSE {})
    \cup (IF o.time.days > 0 \/ o.time.rest > 0 THEN {"SchedDurationTime"} ELSE {})

Requested(fields, bits) == {f \in fields : Bits[f] \cap bits # {}}

(* printThese: the bits of what is counted.                                *)
printThese(o, filter) ==
  UNION {Bits[f] : f \in Requested((DOMAIN o.texts) \cup NumberFields(o) \cup {"Res"}
                                     \cup (IF o.res # <<>> THEN {"Size"} ELSE {}), filter)}

(* The fields in the order of the code, and what some of them take.        *)
Fields == <<"ChannelNr", "ChannelID", "CallSign", "ProgramID", "LongDescription",
            "Recordable", "DateTimeRange", "SchedStartTime", "SchedEndTime",
            "SchedDurationTime">>

Lengths(fields, len) ==
  SumTo([i \in DOMAIN Fields |-> IF Fields[i] \in fields THEN len[Fields[i]] ELSE 0],
        Len(Fields))

TextsLength(o, bits, ends, widths) ==
  Lengths(Requested(DOMAIN o.texts, bits),
          [f \in DOMAIN o.texts |-> ends[f] + Width(o.texts[f], widths)])

(* Variant: what the flags and the children of a container take is not     *)
(* counted, and its channel only once.                                     *)
HeadCountedBare(o, filter) ==
  DoubleEscapeLength(o.id) + DoubleEscapeLength(o.parent)
    + 35 + DoubleEscapeLength(o.title) + o.class.length + 39
    + (IF o.container THEN 71 + 10 + 20 ELSE 76 + 15)

(* Title, class and the tags around them.  The channel of a container is   *)
(* counted here and among the texts.                                       *)
HeadCounted(o, filter) ==
  DoubleEscapeLength(o.id) + DoubleEscapeLength(o.parent)
    + 35 + DoubleEscapeLength(o.title) + o.class.length + 39 + 4 + 1
    + (IF o.container
       THEN 1 + 10 + 129 + 20
              + (IF Has(o, "ChannelID", filter)
                 THEN Counted["ChannelID"] + DoubleEscapeLength(o.texts["ChannelID"]) ELSE 0)
       ELSE 76 + 15)

HeadPrinted(o, filter) ==
  DoubleEscape(o.id) + DoubleEscape(o.parent) + 35 + DoubleEscape(o.title)
    + o.class.length + o.class.dots + 39
    + (IF o.container
       THEN 71 + 1 + 10 + 20
              + (IF Bits["Searchable"] \cap filter # {} THEN 24 + 1 ELSE 0)
              + (IF Bits["ChildCount"] \cap filter # {} THEN 24 + CountDigits ELSE 0)
       ELSE 76 + 1 + 15)

(* The res elements, and their size attribute, which takes sizeRoom.       *)
ResLength(o, bits, widths, sizeRoom) ==
  LET Size == IF Bits["Size"] \cap bits # {} THEN 18 + sizeRoom ELSE 0
  IN IF Bits["Res"] \cap bits = {} THEN 0
     ELSE SumTo([i \in DOMAIN o.res |-> 35 + 16 + Width(o.res[i].protocol, widths)
                                           + Width(o.res[i].value, widths) + Size],
                Len(o.res))

ResCounted(o, filter) == ResLength(o, filter, EscapedLength, 24)

ResPrinted(o, bits) == ResLength(o, bits, EscapedWidth, SizeDigits)

(* The first pass.                                                         *)
size(o, filter) ==
  1 + HeadCounted(o, filter) + ResCounted(o, filter)
    + TextsLength(o, filter, Counted, EscapedLength)
    + Lengths(Requested(NumberFields(o), filter), [f \in DOMAIN Room |-> Counted[f] + Room[f]])

(* The dates and numbers at their longest.  WriteTimeString writes nothing *)
(* for 0 seconds, and what is left in its buffer is printed.               *)
NumbersPrinted(o, bits, left) ==
  LET Field == [Recordable |-> 1, DateTimeRange |-> Date + 1 + Date,
                SchedStartTime |-> Date, SchedEndTime |-> Date,
                SchedDurationTime |-> 1 + (IF o.time.days > 0 THEN DayDigits + 1 ELSE 0)
                                        + (IF o.time.rest > 0 THEN Clock ELSE left)]
  IN Lengths(Requested(NumberFields(o), bits), [f \in DOMAIN Field |-> Printed[f] + Field[f]])

(* The second pass prints a field when its bits overlap those of anything  *)
(* counted.                                                                *)
length(o, filter, left) ==
  LET bits == printThese(o, filter)
  IN HeadPrinted(o, filter) + ResPrinted(o, bits)
       + TextsLength(o, bits, Printed, EscapedWidth) + NumbersPrinted(o, bits, left)

(* CdsToDidl_GetMediaObjectDidlEscaped: the entry, or NULL.                *)
GetMediaObjectDidlEscaped(o, filter, left) ==
  IF \/ <<>> \in {o.id, o.parent, o.title}
     \/ length(o, filter, left) >= size(o, filter)
  THEN "NULL" ELSE "entry"

-----------------------------------------------------------------------------
(* GetMetaData: what the objects of the directory are made of.  m has the  *)
(* texts of the channel, its programme and the addresses of the server.    *)

(* f @@ g                                                                  *)
Joined(f, g) ==
  [x \in (DOMAIN f) \cup (DOMAIN g) |-> IF x \in DOMAIN f THEN f[x] ELSE g[x]]

Dash == <<"plain", "plain", "plain">>
ChannelTexts(m) == [ChannelID |-> m.channel, CallSign |-> m.sign, ChannelNr |-> m.number]

Container == [AllocateObject(TRUE, [length |-> 16, dots |-> 0]) EXCEPT !.title = <<"plain">>]

EpgContainer ==
  [AllocateObject(TRUE, [length |-> 28, dots |-> 1]) EXCEPT !.title = <<"plain">>]

GuideContainer(m) ==
  [EpgContainer EXCEPT !.title = m.number \o Dash \o m.sign, !.texts = ChannelTexts(m)]

DayContainer(m) ==
  [GuideContainer(m) EXCEPT !.title = m.number \o Dash \o m.sign \o Dash \o <<"plain">>,
                            !.range = TRUE]

(* One res for each address of the server.                                 *)
Resources(m) ==
  [i \in 1..m.addresses |->
     [protocol |-> <<"plain">>, value |-> <<"plain">> \o m.channel \o <<"amp", "plain">>]]

(* The title of the programme becomes the description of the channel.      *)
Shown(title) == IF title = <<>> THEN <<"plain">> ELSE title

ChannelObject(m) ==
  [AllocateObject(FALSE, [length |-> 34, dots |-> 2]) EXCEPT
     !.title = m.number \o Dash \o m.sign, !.recordable = TRUE, !.res = Resources(m),
     !.time = m.programme.time,
     !.texts = Joined(ChannelTexts(m),
                      IF m.programme.time = NoProgramme THEN <<>>
                      ELSE [ProgramID |-> <<"plain">>,
                            LongDescription |-> Shown(m.programme.title)])]

EventObject(m) ==
  [AllocateObject(FALSE, [length |-> 30, dots |-> 2]) EXCEPT
     !.title = Shown(m.programme.title), !.res = Resources(m), !.time = m.programme.time,
     !.texts = Joined([ChannelID |-> m.channel],
                      IF m.programme.description = <<>> THEN <<>>
                      ELSE [LongDescription |-> m.programme.description])]

GetMetaData(m) ==
  {Container, EpgContainer, GuideContainer(m), DayContainer(m),
   ChannelObject(m), EventObject(m)}
=============================================================================
