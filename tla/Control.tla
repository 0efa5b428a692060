------------------------------ MODULE Control -------------------------------
(***************************************************************************)
(* What the UPnP device does with a whole HTTP request (UpnpMicroStack.c)  *)
(* and the entry of a Browse into the media server (MicroMediaServer.c).   *)
(* A request is handled inside one callback of the chain thread, and so    *)
(* are the timer that refreshes the addresses and everything else that may *)
(* set errno: a step is one request, one entry of a Browse, or one timer.  *)
(* SUBSCRIBE and UNSUBSCRIBE are in Eventing, the walk of a Browse is in   *)
(* ContentDirectory.                                                       *)
(***************************************************************************)
EXTENDS Didl

CONSTANTS
  Interfaces,       (* the addresses of the host                           *)
  Loopback,         (* 127.0.0.1, which the list of addresses leaves out   *)
  AddressLists,     (* what ILibGetLocalIPAddressList may return           *)
  Numbers,          (* the texts clients send for a number                 *)
  ULongMax, UIntMax,
  Filters,          (* the filters clients send                            *)
  Requests,         (* the arguments clients send to Browse                *)
  Metadata,         (* what the objects of the directory are made of       *)
  Document,         (* the length of the device description                *)
  Garbage           (* the lengths a text may have that was never written  *)

(* The arguments of Browse.                                                *)
Arguments ==
  {"ObjectID", "BrowseFlag", "Filter", "StartingIndex", "RequestedCount", "SortCriteria"}

ASSUME ControlAssumption ==
  /\ Loopback \in Interfaces
  /\ \A list \in AddressLists : list \in Seq(Interfaces \ {Loopback})
  /\ \A r \in Requests :
       /\ {r.StartingIndex, r.RequestedCount} \subseteq Numbers /\ r.filter \in Filters
       /\ r.given \subseteq Arguments /\ r.sorted \in BOOLEAN
       /\ r.object \in {"container", "item", "gone", "foreign"}
  /\ Metadata \subseteq [number : Text, sign : Text, channel : Text, addresses : Nat,
                          programme : [title : Text, description : Text, time : Time]]
  /\ Numbers \subseteq [digits : Nat, minus : BOOLEAN, junk : BOOLEAN]
  /\ {ULongMax, UIntMax, Document} \cup Garbage \subseteq Nat

VARIABLES
  errno,            (* of the chain thread: "none", "ERANGE" or "other"    *)
  overran,          (* history: a request has held a number out of range   *)
  MMS_IP_Addresses,
  bufferLen,        (* the static variable of the GET handler              *)
  description,      (* the length of the text it keeps, or -1              *)
  br,               (* the Browse being answered, or NoBrowse              *)
  answer            (* what the last step sent, or NoAnswer                *)

vars == <<errno, overran, MMS_IP_Addresses, bufferLen, description, br, answer>>

NoBrowse == [kind |-> "none"]
NoAnswer == [kind |-> "none"]

Init ==
  /\ errno = "none" /\ overran = FALSE
  /\ MMS_IP_Addresses \in AddressLists
  /\ bufferLen = 0 /\ description = -1
  /\ br = NoBrowse /\ answer = NoAnswer

-----------------------------------------------------------------------------
(* What is sent: buffers lists, for each that was filled by sprintf, the   *)
(* bytes allocated and the bytes of the text, without its terminator.      *)

Buffer(room, printed) == [room |-> room, printed |-> printed]

Reply(code, buffers) == [kind |-> "reply", code |-> code, buffers |-> buffers]

(* Variant: the room is that of the envelope alone.                        *)
Response_ErrorTight(code, msg) ==
  Reply(code, {Buffer(383, 383 + 3 + Len(msg)), Buffer(59, 43 + 3)})

(* The length of an error body has three digits.                           *)
Response_Error(code, msg) ==
  Reply(code, {Buffer(395 + Len(msg), 383 + 3 + Len(msg)), Buffer(59, 43 + 3)})

ContentDirectoryUrn == "urn:schemas-upnp-org:service:ContentDirectory:1"
ConnectionManagerUrn == "urn:schemas-upnp-org:service:ConnectionManager:1"

(* UpnpResponseGeneric around the arguments of an action.                  *)
ResponseGeneric(uri, method, params) ==
  Reply(200, {params, Buffer(239 + Len(uri) + params.printed + 2 * Len(method),
                             230 + Len(uri) + params.printed + 2 * Len(method))})

(* UpnpAsyncResponse_START and _DONE, and the counters between them.       *)
AsyncResponse(method) ==
  Reply(200, {Buffer(204 + Len(method) + Len(ContentDirectoryUrn),
                     199 + Len(method) + Len(ContentDirectoryUrn)),
              Buffer(44 + Len(method), 42 + Len(method)), Buffer(30, 10)})

-----------------------------------------------------------------------------
(* Numbers: errno is looked at, but neither strtol nor strtoul clears it.  *)

(* Variant: any error counts.                                              *)
InRangeStrict(e) == e = "none"

InRange(e) == e # "ERANGE"

Converted(number, max, e) == IF number.digits > max THEN "ERANGE" ELSE e

ILibGetULong(number, e) ==
  LET after == Converted(number, ULongMax, e) IN
  [ok |-> ~number.junk /\ InRange(after) /\ ~number.minus,
   value |-> number.digits, errno |-> after]

ILibGetLong(number, e) ==
  LET after == Converted(number, ULongMax \div 2, e) IN
  [ok |-> ~number.junk /\ InRange(after), value |-> number.digits, errno |-> after]

(* Variant: no cast.                                                       *)
UIntWide(n) == n

(* The cast to unsigned int.                                               *)
UInt(n) == n % (UIntMax + 1)

OutOfRange(number, max) == number.digits > max

-----------------------------------------------------------------------------
(* GET.                                                                    *)

XmlTemplate == 227    (* XML_GET_TEMPLATE, its conversions included        *)
LanguageHeader == 22
RFC1123Date == 29
Digits(n) == 1 + Cardinality({k \in 1..9 : 10 ^ k <= n})    (* of an int      *)

Page(announced, text, language) ==
  [kind |-> "page", announced |-> announced, length |-> text,
   buffers |-> {Buffer(XmlTemplate + announced + 3 + 64 + (IF language THEN 23 ELSE 0),
                       XmlTemplate - 8 + RFC1123Date + Digits(announced) + text
                         + (IF language THEN LanguageHeader ELSE 0))}]

Sent(page) == (CHOOSE buffer \in page.buffers : TRUE).printed

DescriptionKind(hosted) ==
  IF hosted THEN "description" ELSE IF description = -1 THEN "unwritten" ELSE "page"

(* Variant: the text and its length are made once.                         *)
GetDescriptionOnce(hosted, language) ==
  \E text \in IF hosted \/ description # -1 THEN {Document} ELSE Garbage :
    LET announced == IF hosted /\ description = -1 THEN Document ELSE bufferLen
        page == Page(announced, text, language)
    IN /\ br = NoBrowse
       /\ answer' = [page EXCEPT !.kind = DescriptionKind(hosted)]
       /\ bufferLen' = Sent(page)
       /\ description' = IF hosted THEN Document ELSE description
       /\ UNCHANGED <<errno, overran, MMS_IP_Addresses, br>>

(* Without a Host header the length of the whole previous answer is        *)
(* announced, and a text that was never written is sent as it is.          *)
GetDescription(hosted, language) ==
  \E text \in IF hosted \/ description # -1 THEN {Document} ELSE Garbage :
    LET announced == IF hosted THEN Document ELSE bufferLen
        page == Page(announced, text, language)
    IN /\ br = NoBrowse
       /\ answer' = [page EXCEPT !.kind = DescriptionKind(hosted)]
       /\ bufferLen' = Sent(page)
       /\ description' = IF hosted THEN Document ELSE description
       /\ UNCHANGED <<errno, overran, MMS_IP_Addresses, br>>

(* The service descriptions are files; one that cannot be read is not      *)
(* answered.                                                               *)
SendXML(readable, language) ==
  /\ br = NoBrowse
  /\ answer' = IF readable THEN Page(Document, Document, language) ELSE NoAnswer
  /\ errno' = IF readable THEN errno ELSE "other"
  /\ UNCHANGED <<overran, MMS_IP_Addresses, bufferLen, description, br>>

(* Any other path, and any other method.                                   *)
Refused(code) ==
  /\ br = NoBrowse
  /\ answer' = Reply(code, {Buffer(128, 90)})
  /\ UNCHANGED <<errno, overran, MMS_IP_Addresses, bufferLen, description, br>>
-----------------------------------------------------------------------------
(* POST: UpnpProcessPOST.                                                  *)

(* Actions without arguments.                                              *)
GetSortCapabilities ==
  ResponseGeneric(ContentDirectoryUrn, "GetSortCapabilities", Buffer(22, 21))
GetSearchCapabilities ==
  ResponseGeneric(ContentDirectoryUrn, "GetSearchCapabilities", Buffer(26, 25))
GetSystemUpdateID ==
  ResponseGeneric(ContentDirectoryUrn, "GetSystemUpdateID", Buffer(21, 9 + 10))
GetProtocolInfo ==
  ResponseGeneric(ConnectionManagerUrn, "GetProtocolInfo", Buffer(31 + 14, 30 + 14))
GetCurrentConnectionIDs ==
  ResponseGeneric(ConnectionManagerUrn, "GetCurrentConnectionIDs", Buffer(32 + 1, 31 + 1))

(* An action the service does not have, or another path, gets no answer.   *)
ProcessPOST ==
  /\ br = NoBrowse
  /\ answer' \in {GetSortCapabilities, GetSearchCapabilities, GetSystemUpdateID,
                  GetProtocolInfo, GetCurrentConnectionIDs, NoAnswer}
  /\ UNCHANGED <<errno, overran, MMS_IP_Addresses, bufferLen, description, br>>

(* The descriptions of the errors.                                         *)
InvalidXml == "Invalid XML"
NoArguments == "Incorrect Arguments"
NotAFlag == "Argument[BrowseFlag] contains a value that is not in AllowedValueList"
IllegalValue(argument) == "Argument[" \o argument \o "] illegal value"
NoConnection == "Specified connection does not exist."
NoObject == "ObjectID does not exist."
NoSorting == "MediaServer does not support sorting."
NoFile == "GetFileAttributes(./) failed"
NoContainer == "ObjectID is not a container."

(* The provers know no length of a string.                                 *)
ASSUME TextAssumption ==
  /\ \A argument \in {"ConnectionID", "StartingIndex", "RequestedCount"} :
       Len(IllegalValue(argument)) \in Nat
  /\ \A text \in {ContentDirectoryUrn, ConnectionManagerUrn, InvalidXml, NoArguments, NotAFlag,
                 NoConnection, NoObject, NoSorting, NoFile, NoContainer, "Browse",
                 "GetSortCapabilities", "GetSearchCapabilities", "GetSystemUpdateID",
                 "GetProtocolInfo", "GetCurrentConnectionIDs"} : Len(text) \in Nat

(* How a body presents its arguments: after a first "<", which makes the   *)
(* field in front of it empty; after something else, some missing or all.  *)
Bodies == {"markup", "incomplete", "complete"}

(* A body that begins with markup, as XML does, is refused.  There are no  *)
(* connections: a legal number is always one too many.                     *)
GetCurrentConnectionInfo(body, number) ==
  LET got == ILibGetLong(number, errno)
      read == body = "complete"
  IN
  /\ br = NoBrowse
  /\ answer' = IF body = "markup" THEN Response_Error(501, InvalidXml)
               ELSE IF ~read THEN Response_Error(402, NoArguments)
               ELSE IF ~got.ok
                    THEN Response_Error(402, IllegalValue("ConnectionID"))
               ELSE Response_Error(706, NoConnection)
  /\ errno' = IF read THEN got.errno ELSE errno
  /\ overran' = (overran \/ (read /\ OutOfRange(number, ULongMax \div 2)))
  /\ UNCHANGED <<MMS_IP_Addresses, bufferLen, description, br>>

(* Variant: the address that was first is dropped.                         *)
ReachableFirstDropped(list, ip) ==
  [i \in DOMAIN list |-> IF i = 1 THEN ip ELSE list[i]]

(* The interface the client came in by goes first, and the address that    *)
(* was there takes its place; in an empty list nothing is stored.          *)
ReachableFirst(list, ip) ==
  [i \in DOMAIN list |->
     IF i = 1 THEN ip
     ELSE IF list[i] = ip /\ ip \notin {list[k] : k \in 1..i - 1} THEN list[1]
     ELSE list[i]]

Legal(number) == ~number.junk /\ ~number.minus /\ ~OutOfRange(number, ULongMax)

Illegal(argument, request) ==
  [Response_Error(402, IllegalValue(argument)) EXCEPT
     !.kind = IF Legal(request.StartingIndex) /\ Legal(request.RequestedCount)
              THEN "refused legal" ELSE @]

(* What CdsBrowse refuses once the arguments are read; "gone" is a path    *)
(* that PCGetFileDirType does not know.                                    *)
BrowseError(request) ==
  IF request.object = "foreign" THEN Response_Error(701, NoObject)
  ELSE IF request.sorted
       THEN Response_Error(709, NoSorting)
  ELSE IF request.object = "gone"
       THEN Response_Error(800, NoFile)
  ELSE IF request.object = "item" /\ request.flag = "BrowseDirectChildren"
       THEN Response_Error(710, NoContainer)
  ELSE NoAnswer

(* The arguments are looked for by name, in any order.                     *)
Complete(request) == request.given = Arguments

(* struct BrowseRequest, made by UpnpContentDirectory_Browse.              *)
BrowseRequest(request, ip, si, rc) ==
  [kind |-> "browse", filter |-> request.filter, ip |-> ip, si |-> si, rc |-> rc,
   addresses |-> ReachableFirst(MMS_IP_Addresses, ip)]

(* UpnpDispatch_ContentDirectory_Browse and what CdsBrowse does before it  *)
(* walks.                                                                  *)
Browse(request, ip) ==
  LET si == ILibGetULong(request.StartingIndex, errno)
      rc == ILibGetULong(request.RequestedCount, si.errno)
      flagged == request.flag \in {"BrowseMetadata", "BrowseDirectChildren"}
      refusal == IF ~Complete(request) THEN Response_Error(402, NoArguments)
                 ELSE IF ~flagged
                      THEN Response_Error(402, NotAFlag)
                 ELSE IF ~si.ok THEN Illegal("StartingIndex", request)
                 ELSE IF ~rc.ok THEN Illegal("RequestedCount", request)
                 ELSE BrowseError(request)
      read == Complete(request) /\ flagged
  IN
  /\ br = NoBrowse
  /\ errno' = IF ~read THEN errno ELSE IF si.ok THEN rc.errno ELSE si.errno
  /\ overran' = \/ overran
                \/ read /\ OutOfRange(request.StartingIndex, ULongMax)
                \/ read /\ si.ok /\ OutOfRange(request.RequestedCount, ULongMax)
  /\ answer' = refusal
  /\ br' = IF refusal # NoAnswer THEN NoBrowse
           ELSE BrowseRequest(request, ip, UInt(si.value), UInt(rc.value))
  /\ UNCHANGED <<MMS_IP_Addresses, bufferLen, description>>

(* DirectoryEntryToDidl of one object; left is what the buffer of the      *)
(* clock held.                                                             *)
DescribeEntry(m, left) ==
  /\ br # NoBrowse
  /\ \E o \in GetMetaData([m EXCEPT !.addresses = Len(br.addresses)]) :
       answer' = [kind |-> GetMediaObjectDidlEscaped(
                             o, GetFilterBitString(br.filter.star, br.filter.names), left),
                  written |-> o.time.rest > 0 \/ o.time.days = 0]
  /\ UNCHANGED <<errno, overran, MMS_IP_Addresses, bufferLen, description, br>>

BrowseDone ==
  /\ br # NoBrowse
  /\ br' = NoBrowse /\ answer' = AsyncResponse("Browse")
  /\ UNCHANGED <<errno, overran, MMS_IP_Addresses, bufferLen, description>>

-----------------------------------------------------------------------------
(* UpnpIPAddressMonitor, a timer of the chain thread                       *)
UpdateIPAddresses(list) ==
  /\ br = NoBrowse
  /\ MMS_IP_Addresses' = list
  /\ UNCHANGED <<errno, overran, bufferLen, description, br, answer>>

(* Another library call of the thread fails.                               *)
OtherCallFails ==
  /\ br = NoBrowse
  /\ errno' = "other"
  /\ UNCHANGED <<overran, MMS_IP_Addresses, bufferLen, description, br, answer>>

Next ==
  \/ \E hosted, language \in BOOLEAN : GetDescription(hosted, language)
  \/ \E readable, language \in BOOLEAN : SendXML(readable, language)
  \/ \E code \in {400, 404} : Refused(code)
  \/ ProcessPOST
  \/ \E body \in Bodies, number \in Numbers : GetCurrentConnectionInfo(body, number)
  \/ \E request \in Requests, ip \in Interfaces : Browse(request, ip)
  \/ \E m \in Metadata, left \in Garbage : DescribeEntry(m, left)
  \/ BrowseDone
  \/ \E list \in AddressLists : UpdateIPAddresses(list)
  \/ OtherCallFails

Spec == Init /\ [][Next]_vars

-----------------------------------------------------------------------------
Kinds == {"none", "reply", "refused legal", "page", "description", "unwritten",
          "entry", "NULL"}
Codes == {200, 400, 402, 404, 501, 701, 706, 709, 710, 800}

(* The state is made of the listed kinds of answers, counters in range and *)
(* a Browse over local addresses.                                          *)
TypeOK ==
  /\ errno \in {"none", "ERANGE", "other"} /\ overran \in BOOLEAN
  /\ MMS_IP_Addresses \in AddressLists
  /\ bufferLen \in Nat /\ description \in {-1, Document}
  /\ br # NoBrowse => /\ br.filter \in Filters
                      /\ {br.si, br.rc} \subseteq 0..UIntMax
                      /\ br.addresses \in Seq(Interfaces)
  /\ answer.kind \in Kinds
  /\ answer.kind \in {"reply", "refused legal"} => answer.code \in Codes

(* A Browse whose numbers are legal is refused as holding an illegal value *)
(* only if some earlier request held a number out of range: ILibGetULong   *)
(* and ILibGetLong look at errno without clearing it, so any other failed  *)
(* call of the thread must not count.                                      *)
LegalRefusedOnlyOverrun == answer.kind = "refused legal" => overran

(* Whatever requests came before, a client that names its host gets the    *)
(* device description with the length that is announced, although length   *)
(* and text are kept in static variables that the answer reuses.           *)
HostedDescription == answer.kind = "description" => answer.announced = answer.length

(* "the media object can be serialized to DIDL-Lite without any problems": *)
(* no entry is dropped because its text outgrew the size that was added up *)
(* for it, whatever the filter and the texts; a programme of whole days,   *)
(* whose clock is never written, is the exception                          *)
(* (CdsToDidl_GetMediaObjectDidlEscaped).                                  *)
EntriesFit == answer.kind = "NULL" => ~answer.written

(* Every buffer of an answer holds the text that is printed into it and    *)
(* its terminator, so what is sent was all written by the server; a        *)
(* description that was never written is the exception.                    *)
AnswersFit ==
  answer.kind \in {"reply", "refused legal", "page", "description"} =>
    \A buffer \in answer.buffers : buffer.printed < buffer.room

(* The resources of a Browse are offered at the interface its client came  *)
(* in by first, and at all the others too if the list has that one         *)
(* (UpnpContentDirectory_Browse).                                          *)
NoAddressLost ==
  br # NoBrowse =>
    /\ Len(br.addresses) = Len(MMS_IP_Addresses)
    /\ br.addresses # <<>> => Head(br.addresses) = br.ip
    /\ br.ip \in ToSet(MMS_IP_Addresses) => ToSet(br.addresses) = ToSet(MMS_IP_Addresses)
=============================================================================
