--------------------------- MODULE ControlProofs ---------------------------
(***************************************************************************)
(* Theorems about the dispatch of requests: what a reader of one request   *)
(* may rely on whatever the requests before it were, and that every answer *)
(* and every entry of a Browse has room for its text.                      *)
(***************************************************************************)
EXTENDS Control, FiniteSetTheorems, WellFoundedInduction, TLAPS

(* errno remembers a number out of range, and the answer of this moment is *)
(* one of its request.                                                     *)
ErrnoTold == errno = "ERANGE" => overran

IInv == ErrnoTold /\ LegalRefusedOnlyOverrun /\ HostedDescription

-----------------------------------------------------------------------------
(* A number is refused only for what it is or for what errno was.          *)
LEMMA ULongRefusal ==
  ASSUME NEW number, NEW e, Legal(number), ~ILibGetULong(number, e).ok
  PROVE  e = "ERANGE"
BY DEF Legal, ILibGetULong, InRange, Converted, OutOfRange

(* errno becomes ERANGE only by a number out of range.                     *)
LEMMA ULongErrno ==
  ASSUME NEW number, NEW e, ILibGetULong(number, e).errno = "ERANGE"
  PROVE  e = "ERANGE" \/ OutOfRange(number, ULongMax)
BY DEF ILibGetULong, Converted, OutOfRange

LEMMA LegalNumberKeepsErrno ==
  ASSUME NEW number, NEW e, Legal(number)
  PROVE  ILibGetULong(number, e).errno = e
BY DEF Legal, ILibGetULong, Converted, OutOfRange

(* An error about anything but a number is a plain reply.                  *)
LEMMA ErrorKind ==
  ASSUME NEW code, NEW msg
  PROVE  /\ Response_Error(code, msg).kind = "reply"
         /\ DOMAIN Response_Error(code, msg) = {"kind", "code", "buffers"}
BY DEF Response_Error, Reply

LEMMA BrowseErrorKind ==
  ASSUME NEW request
  PROVE  BrowseError(request).kind \in {"reply", "none"}
<1>1. NoAnswer.kind = "none"
  BY DEF NoAnswer
<1>2. BrowseError(request) \in {Response_Error(701, NoObject), Response_Error(709, NoSorting),
                               Response_Error(800, NoFile), Response_Error(710, NoContainer),
                               NoAnswer}
  BY DEF BrowseError
<1>. QED  BY <1>1, <1>2, ErrorKind

LEMMA IllegalKind ==
  ASSUME NEW argument, NEW request
  PROVE  /\ Illegal(argument, request).kind \in {"reply", "refused legal"}
         /\ Illegal(argument, request).kind = "refused legal"
              => Legal(request.StartingIndex) /\ Legal(request.RequestedCount)
<1>. DEFINE error == Response_Error(402, IllegalValue(argument))
            kind == IF Legal(request.StartingIndex) /\ Legal(request.RequestedCount)
                    THEN "refused legal" ELSE error.kind
<1>1. error.kind = "reply" /\ "kind" \in DOMAIN error
  BY ErrorKind
<1>2. Illegal(argument, request) = [error EXCEPT !.kind = kind]
  BY DEF Illegal
<1>3. kind \in {"reply", "refused legal"}
  BY <1>1
<1>4. kind = "refused legal" => Legal(request.StartingIndex) /\ Legal(request.RequestedCount)
  BY <1>1
<1>. HIDE DEF error, kind
<1>. QED  BY <1>1, <1>2, <1>3, <1>4

(* A page announces what its caller said, and holds the text.              *)
LEMMA PageFields ==
  ASSUME NEW announced, NEW text, NEW language
  PROVE  /\ Page(announced, text, language).kind = "page"
         /\ Page(announced, text, language).announced = announced
         /\ Page(announced, text, language).length = text
         /\ DOMAIN Page(announced, text, language) = {"kind", "announced", "length", "buffers"}
BY DEF Page

LEMMA ResponseKind ==
  /\ \A uri, method, params : ResponseGeneric(uri, method, params).kind = "reply"
  /\ \A method : AsyncResponse(method).kind = "reply"
BY DEF ResponseGeneric, AsyncResponse, Reply

(* Answers of these kinds say nothing the invariant is about.              *)
Harmless(kind) == kind \notin {"refused legal", "description"}

LEMMA HarmlessAnswer ==
  ASSUME IInv, errno' = "ERANGE" => overran', Harmless(answer'.kind)
  PROVE  IInv'
BY DEF IInv, ErrnoTold, LegalRefusedOnlyOverrun, HostedDescription, Harmless

-----------------------------------------------------------------------------
LEMMA InvInit == Init => IInv
BY DEF Init, NoAnswer, IInv, ErrnoTold, LegalRefusedOnlyOverrun, HostedDescription

(* A hosted description announces Document and holds Document.             *)
LEMMA InvGetDescription ==
  ASSUME IInv, NEW hosted \in BOOLEAN, NEW language \in BOOLEAN,
         GetDescription(hosted, language)
  PROVE  IInv'
<1>1. PICK text \in IF hosted \/ description # -1 THEN {Document} ELSE Garbage :
        answer' = [Page(IF hosted THEN Document ELSE bufferLen, text, language)
                     EXCEPT !.kind = DescriptionKind(hosted)]
  BY DEF GetDescription
<1>2. /\ answer'.kind = DescriptionKind(hosted)
      /\ answer'.announced = (IF hosted THEN Document ELSE bufferLen)
      /\ answer'.length = text
  BY <1>1, PageFields
<1>3. UNCHANGED <<errno, overran>>
  BY DEF GetDescription
<1>4. CASE hosted
  <2>1. text = Document
    BY <1>1, <1>4
  <2>2. answer'.announced = answer'.length
    BY <1>2, <1>4, <2>1
  <2>3. answer'.kind # "refused legal"
    BY <1>2, <1>4 DEF DescriptionKind
  <2>. QED
    BY <1>3, <2>2, <2>3 DEF IInv, ErrnoTold, LegalRefusedOnlyOverrun, HostedDescription
<1>5. CASE ~hosted
  BY <1>2, <1>3, <1>5
  DEF IInv, ErrnoTold, LegalRefusedOnlyOverrun, HostedDescription, DescriptionKind
<1>. QED  BY <1>4, <1>5

(* The plain answers.                                                      *)
LEMMA InvPlain ==
  ASSUME IInv,
         \/ \E readable, language \in BOOLEAN : SendXML(readable, language)
         \/ \E code \in {400, 404} : Refused(code)
         \/ ProcessPOST
         \/ BrowseDone
  PROVE  IInv'
<1>1. NoAnswer.kind = "none"
  BY DEF NoAnswer
<1>2. ASSUME NEW readable \in BOOLEAN, NEW language \in BOOLEAN, SendXML(readable, language)
      PROVE  IInv'
  <2>1. answer'.kind \in {"page", "none"}
    BY <1>1, <1>2, PageFields DEF SendXML
  <2>2. errno' = "ERANGE" => overran'
    BY <1>2 DEF SendXML, IInv, ErrnoTold
  <2>. QED  BY <2>1, <2>2, HarmlessAnswer DEF Harmless
<1>3. ASSUME NEW code \in {400, 404}, Refused(code)
      PROVE  IInv'
  <2>1. answer'.kind = "reply"
    BY <1>3 DEF Refused, Reply
  <2>2. errno' = "ERANGE" => overran'
    BY <1>3 DEF Refused, IInv, ErrnoTold
  <2>. QED  BY <2>1, <2>2, HarmlessAnswer DEF Harmless
<1>4. ASSUME ProcessPOST
      PROVE  IInv'
  <2>1. answer'.kind \in {"reply", "none"}
    BY <1>1, <1>4, ResponseKind
    DEF ProcessPOST, GetSortCapabilities, GetSearchCapabilities, GetSystemUpdateID,
        GetProtocolInfo, GetCurrentConnectionIDs
  <2>2. errno' = "ERANGE" => overran'
    BY <1>4 DEF ProcessPOST, IInv, ErrnoTold
  <2>. QED  BY <2>1, <2>2, HarmlessAnswer DEF Harmless
<1>5. ASSUME BrowseDone
      PROVE  IInv'
  <2>1. answer'.kind = "reply"
    BY <1>5, ResponseKind DEF BrowseDone
  <2>2. errno' = "ERANGE" => overran'
    BY <1>5 DEF BrowseDone, IInv, ErrnoTold
  <2>. QED  BY <2>1, <2>2, HarmlessAnswer DEF Harmless
<1>. QED  BY <1>2, <1>3, <1>4, <1>5

LEMMA InvConnectionInfo ==
  ASSUME IInv, NEW body \in Bodies, NEW number \in Numbers,
         GetCurrentConnectionInfo(body, number)
  PROVE  IInv'
<1>1. answer'.kind = "reply"
  <2>1. answer' \in {Response_Error(501, InvalidXml), Response_Error(402, NoArguments),
                     Response_Error(402, IllegalValue("ConnectionID")),
                     Response_Error(706, NoConnection)}
    BY DEF GetCurrentConnectionInfo
  <2>. QED  BY <2>1, ErrorKind
<1>2. errno' = "ERANGE" => overran'
  BY DEF GetCurrentConnectionInfo, ILibGetLong, Converted, OutOfRange, IInv, ErrnoTold
<1>. QED  BY <1>1, <1>2, HarmlessAnswer DEF Harmless

(* The heart of the matter: a legal number is refused only when errno      *)
(* still tells of an earlier one, and errno only tells of such.            *)
LEMMA InvBrowse ==
  ASSUME IInv, NEW request \in Requests, NEW ip \in Interfaces, Browse(request, ip)
  PROVE  IInv'
<1>. DEFINE si == ILibGetULong(request.StartingIndex, errno)
            rc == ILibGetULong(request.RequestedCount, si.errno)
<1>1. errno' = "ERANGE" => overran'
  <2>1. si.errno = "ERANGE" => errno = "ERANGE" \/ OutOfRange(request.StartingIndex, ULongMax)
    BY ULongErrno
  <2>2. rc.errno = "ERANGE"
          => si.errno = "ERANGE" \/ OutOfRange(request.RequestedCount, ULongMax)
    BY ULongErrno
  <2>. QED  BY <2>1, <2>2 DEF Browse, IInv, ErrnoTold
<1>2. \/ Harmless(answer'.kind)
      \/ ~si.ok /\ answer' = Illegal("StartingIndex", request)
      \/ si.ok /\ ~rc.ok /\ answer' = Illegal("RequestedCount", request)
  <2>1. answer' = IF ~Complete(request) THEN Response_Error(402, NoArguments)
                  ELSE IF ~(request.flag \in {"BrowseMetadata", "BrowseDirectChildren"})
                       THEN Response_Error(402, NotAFlag)
                  ELSE IF ~si.ok THEN Illegal("StartingIndex", request)
                  ELSE IF ~rc.ok THEN Illegal("RequestedCount", request)
                  ELSE BrowseError(request)
    BY Zenon DEF Browse
  <2>. HIDE DEF si, rc
  <2>2. \/ answer' = Response_Error(402, NoArguments) \/ answer' = Response_Error(402, NotAFlag)
        \/ answer' = BrowseError(request)
        \/ ~si.ok /\ answer' = Illegal("StartingIndex", request)
        \/ si.ok /\ ~rc.ok /\ answer' = Illegal("RequestedCount", request)
    BY <2>1
  <2>3. answer' = Response_Error(402, NoArguments) => answer'.kind = "reply"
    BY ErrorKind
  <2>4. answer' = Response_Error(402, NotAFlag) => answer'.kind = "reply"
    BY ErrorKind
  <2>5. answer' = BrowseError(request) => answer'.kind \in {"reply", "none"}
    BY BrowseErrorKind
  <2>. QED  BY <2>2, <2>3, <2>4, <2>5 DEF Harmless
<1>3. answer'.kind = "refused legal" => overran'
  <2>. SUFFICES ASSUME answer'.kind = "refused legal"
                PROVE  overran'
    OBVIOUS
  <2>1. Legal(request.StartingIndex) /\ Legal(request.RequestedCount)
    BY <1>2, IllegalKind DEF Harmless
  <2>2. si.errno = errno
    BY <2>1, LegalNumberKeepsErrno
  <2>3. errno = "ERANGE"
    BY <1>2, <2>1, <2>2, ULongRefusal DEF Harmless
  <2>. QED  BY <2>3 DEF Browse, IInv, ErrnoTold
<1>4. answer'.kind # "description"
  BY <1>2, IllegalKind DEF Harmless
<1>. QED  BY <1>1, <1>3, <1>4
          DEF IInv, ErrnoTold, LegalRefusedOnlyOverrun, HostedDescription

LEMMA InvDescribeEntry ==
  ASSUME IInv, NEW m \in Metadata, NEW left \in Garbage, DescribeEntry(m, left)
  PROVE  IInv'
<1>1. PICK o \in GetMetaData([m EXCEPT !.addresses = Len(br.addresses)]) :
        answer' = [kind |-> GetMediaObjectDidlEscaped(o,
                              GetFilterBitString(br.filter.star, br.filter.names), left),
                   written |-> o.time.rest > 0 \/ o.time.days = 0]
  BY DEF DescribeEntry
<1>2. answer'.kind = GetMediaObjectDidlEscaped(o,
                       GetFilterBitString(br.filter.star, br.filter.names), left)
  BY <1>1
<1>3. answer'.kind \in {"entry", "NULL"}
  BY <1>2 DEF GetMediaObjectDidlEscaped
<1>4. errno' = "ERANGE" => overran'
  BY DEF DescribeEntry, IInv, ErrnoTold
<1>. QED  BY <1>3, <1>4, HarmlessAnswer DEF Harmless

(* What leaves the answer alone may only make errno another error.         *)
LEMMA InvElsewhere ==
  ASSUME IInv,
         \/ \E list \in AddressLists : UpdateIPAddresses(list)
         \/ OtherCallFails
         \/ UNCHANGED vars
  PROVE  IInv'
<1>1. answer' = answer /\ overran' = overran /\ errno' \in {errno, "other"}
  BY DEF UpdateIPAddresses, OtherCallFails, vars
<1>. QED  BY <1>1 DEF IInv, ErrnoTold, LegalRefusedOnlyOverrun, HostedDescription

LEMMA InvNext == IInv /\ [Next]_vars => IInv'
<1>. SUFFICES ASSUME IInv, [Next]_vars
              PROVE  IInv'
  OBVIOUS
<1>1. ASSUME NEW hosted \in BOOLEAN, NEW language \in BOOLEAN, GetDescription(hosted, language)
      PROVE  IInv'
  BY <1>1, InvGetDescription
<1>2. ASSUME NEW body \in Bodies, NEW number \in Numbers,
             GetCurrentConnectionInfo(body, number)
      PROVE  IInv'
  BY <1>2, InvConnectionInfo
<1>3. ASSUME NEW request \in Requests, NEW ip \in Interfaces, Browse(request, ip)
      PROVE  IInv'
  BY <1>3, InvBrowse
<1>4. ASSUME NEW m \in Metadata, NEW left \in Garbage, DescribeEntry(m, left)
      PROVE  IInv'
  BY <1>4, InvDescribeEntry
<1>. QED
  BY <1>1, <1>2, <1>3, <1>4, InvPlain, InvElsewhere DEF Next

-----------------------------------------------------------------------------
(* The inductive invariant: errno tells of a number out of range only if a *)
(* request held one, and the answer is right about its own request.        *)
THEOREM Inductive == Spec => []IInv
BY InvInit, InvNext, PTL DEF Spec

(* A Browse with legal numbers is refused as illegal only after a request  *)
(* that held a number out of range (ILibGetULong, ILibGetLong), whatever   *)
(* the widths, the numbers and the order of requests and failed calls.     *)
THEOREM LegalNumbersAreRead == Spec => []LegalRefusedOnlyOverrun
<1>1. IInv => LegalRefusedOnlyOverrun
  BY DEF IInv
<1>. QED  BY Inductive, <1>1, PTL

(* A client that names its host is told the length of the description it   *)
(* is sent, whatever the static variables of the GET handler held before.  *)
THEOREM DescriptionsAreWhole == Spec => []HostedDescription
<1>1. IInv => HostedDescription
  BY DEF IInv
<1>. QED  BY Inductive, <1>1, PTL

-----------------------------------------------------------------------------
(* The addresses of a Browse are those of the server, reordered for its    *)
(* client.                                                                 *)
AddressesReordered ==
  /\ MMS_IP_Addresses \in AddressLists
  /\ br # NoBrowse => br.addresses = ReachableFirst(MMS_IP_Addresses, br.ip)

(* A set of natural numbers has a least element.                           *)
LEMMA LeastElement ==
  ASSUME NEW T, T \subseteq Nat, T # {}
  PROVE  \E x \in T : \A y \in T : x <= y
<1>. DEFINE R == OpToRel(<, Nat)
<1>1. IsWellFoundedOn(R, Nat)
  BY NatLessThanWellFounded, Zenon
<1>2. \A x, y \in Nat : y < x => <<y, x>> \in R
  BY DEF OpToRel
<1>. HIDE DEF R
<1>3. \E x \in T : \A y \in T : ~(<<y, x>> \in R)
  BY <1>1, WFMin, Zenon
<1>4. \A x, y \in T : ~(<<y, x>> \in R) => x <= y
  <2>1. \A x, y \in Nat : x <= y \/ y < x
    OBVIOUS
  <2>. QED  BY <1>2, <2>1
<1>. QED  BY <1>3, <1>4

(* An element of a sequence has a first place in it.                       *)
LEMMA FirstPlace ==
  ASSUME NEW S, NEW list \in Seq(S), NEW x, x \in ToSet(list)
  PROVE  \E k \in DOMAIN list : list[k] = x /\ \A l \in 1..k - 1 : list[l] # x
<1>. DEFINE places == {k \in DOMAIN list : list[k] = x}
<1>1. places \subseteq Nat /\ places # {}
  BY DEF ToSet
<1>2. PICK k \in places : \A l \in places : k <= l
  BY <1>1, LeastElement
<1>3. ASSUME NEW l \in 1..k - 1
      PROVE  list[l] # x
  <2>1. l \in Nat /\ k \in Nat /\ l < k /\ l \in DOMAIN list
    OBVIOUS
  <2>2. l \notin places
    BY <1>2, <2>1
  <2>. QED  BY <2>1, <2>2
<1>. QED  BY <1>2, <1>3

(* The swap at the first place of ip loses no element.                     *)
LEMMA ReachableFirstKeeps ==
  ASSUME NEW S, NEW list \in Seq(S), NEW ip
  PROVE  /\ Len(ReachableFirst(list, ip)) = Len(list)
         /\ list # <<>> => Head(ReachableFirst(list, ip)) = ip
         /\ ip \in ToSet(list) => ToSet(ReachableFirst(list, ip)) = ToSet(list)
<1>. DEFINE r == ReachableFirst(list, ip)
<1>1. DOMAIN r = 1..Len(list)
  BY DEF ReachableFirst
<1>2. \A i \in DOMAIN r : r[i] = IF i = 1 THEN ip
                                ELSE IF list[i] = ip /\ ip \notin {list[k] : k \in 1..i - 1}
                                     THEN list[1] ELSE list[i]
  BY DEF ReachableFirst
<1>3. r \in Seq(S \cup {ip})
  BY <1>1, <1>2 DEF ReachableFirst
<1>. HIDE DEF r
<1>4. Len(r) = Len(list)
  BY <1>1, <1>3
<1>5. list # <<>> => Head(r) = ip
  BY <1>1, <1>2, <1>3, <1>4
<1>6. ASSUME ip \in ToSet(list)
      PROVE  ToSet(r) = ToSet(list)
  <2>1. PICK k \in 1..Len(list) : list[k] = ip /\ \A l \in 1..k - 1 : list[l] # ip
    BY <1>6, FirstPlace
  <2>2. \A i \in 1..Len(list) : r[i] \in ToSet(list)
    BY <1>1, <1>2, <1>6 DEF ToSet
  <2>3. \A i \in 1..Len(list) : list[i] \in ToSet(r)
    <3>1. r[1] = ip /\ list[k] = ip
      BY <1>1, <1>2, <2>1
    <3>2. k # 1 => r[k] = list[1]
      BY <1>1, <1>2, <2>1
    <3>3. ASSUME NEW i \in 1..Len(list), list[i] # ip, i # 1
          PROVE  r[i] = list[i]
      BY <1>1, <1>2, <3>3
    <3>. QED  BY <1>1, <2>1, <3>1, <3>2, <3>3 DEF ToSet
  <2>. QED  BY <1>1, <2>2, <2>3 DEF ToSet
<1>. QED  BY <1>4, <1>5, <1>6 DEF r

LEMMA ReorderedInit == Init => AddressesReordered
BY DEF Init, AddressesReordered

LEMMA ReorderedNext == AddressesReordered /\ [Next]_vars => AddressesReordered'
<1>. SUFFICES ASSUME AddressesReordered, [Next]_vars
              PROVE  AddressesReordered'
  OBVIOUS
<1>1. ASSUME NEW request \in Requests, NEW ip \in Interfaces, Browse(request, ip)
      PROVE  AddressesReordered'
  <2>1. \/ br' = NoBrowse
        \/ br'.ip = ip /\ br'.addresses = ReachableFirst(MMS_IP_Addresses, ip)
    BY <1>1 DEF Browse, BrowseRequest
  <2>2. MMS_IP_Addresses' = MMS_IP_Addresses
    BY <1>1 DEF Browse, BrowseRequest
  <2>. QED  BY <2>1, <2>2 DEF AddressesReordered
<1>2. ASSUME NEW list \in AddressLists, UpdateIPAddresses(list)
      PROVE  AddressesReordered'
  BY <1>2 DEF UpdateIPAddresses, AddressesReordered
<1>3. CASE BrowseDone
  BY <1>3 DEF BrowseDone, AddressesReordered
<1>4. CASE UNCHANGED <<MMS_IP_Addresses, br>>
  BY <1>4 DEF AddressesReordered
<1>5. \/ \E request \in Requests, ip \in Interfaces : Browse(request, ip)
      \/ \E list \in AddressLists : UpdateIPAddresses(list)
      \/ BrowseDone
      \/ UNCHANGED <<MMS_IP_Addresses, br>>
  BY DEF Next, vars, GetDescription, SendXML, Refused, ProcessPOST,
         GetCurrentConnectionInfo, DescribeEntry, OtherCallFails
<1>. QED  BY <1>1, <1>2, <1>3, <1>4, <1>5

(* The resources of a Browse are offered at the client's interface first   *)
(* and at every other one, for any list of addresses                       *)
(* (UpnpContentDirectory_Browse).                                          *)
THEOREM AddressesAreKept == Spec => []NoAddressLost
<1>1. AddressesReordered => NoAddressLost
  <2>. SUFFICES ASSUME AddressesReordered, br # NoBrowse
                PROVE  /\ Len(br.addresses) = Len(MMS_IP_Addresses)
                       /\ br.addresses # <<>> => Head(br.addresses) = br.ip
                       /\ br.ip \in ToSet(MMS_IP_Addresses)
                            => ToSet(br.addresses) = ToSet(MMS_IP_Addresses)
    BY DEF NoAddressLost
  <2>1. MMS_IP_Addresses \in Seq(Interfaces \ {Loopback})
    BY ControlAssumption DEF AddressesReordered
  <2>2. br.addresses = ReachableFirst(MMS_IP_Addresses, br.ip)
    BY DEF AddressesReordered
  <2>3. br.addresses # <<>> => MMS_IP_Addresses # <<>>
    BY <2>1, <2>2 DEF ReachableFirst
  <2>. QED  BY <2>1, <2>2, <2>3, ReachableFirstKeeps
<1>. QED  BY <1>1, ReorderedInit, ReorderedNext, PTL DEF Spec

-----------------------------------------------------------------------------
(* The description that the GET handler keeps is no longer than the length *)
(* it keeps with it: the last answer held it whole.                        *)
DescriptionKept == description # -1 => bufferLen >= Document

(* What TypeOK and AnswersFit say of one answer.                           *)
Kinded(a) ==
  a.kind \in Kinds /\ (a.kind \in {"reply", "refused legal"} => a.code \in Codes)

Fits(a) ==
  a.kind \in {"reply", "refused legal", "page", "description"} =>
    \A buffer \in a.buffers : buffer.printed < buffer.room

Sound(a) == Kinded(a) /\ Fits(a)

(* The state apart from the answer.                                        *)
StateTyped ==
  /\ errno \in {"none", "ERANGE", "other"} /\ overran \in BOOLEAN
  /\ MMS_IP_Addresses \in AddressLists
  /\ bufferLen \in Nat /\ description \in {-1, Document}
  /\ br # NoBrowse => /\ br.filter \in Filters
                      /\ {br.si, br.rc} \subseteq 0..UIntMax
                      /\ br.addresses \in Seq(Interfaces)

SInv == StateTyped /\ DescriptionKept /\ Sound(answer)

LEMMA SInvSays == SInv => TypeOK /\ AnswersFit
BY DEF SInv, StateTyped, Sound, Kinded, Fits, TypeOK, AnswersFit

LEMMA NoAnswerSound == Sound(NoAnswer)
BY DEF Sound, Kinded, Fits, NoAnswer, Kinds

LEMMA ReplySound ==
  ASSUME NEW code \in Codes, NEW buffers, \A b \in buffers : b.printed < b.room
  PROVE  Sound(Reply(code, buffers))
BY DEF Sound, Kinded, Fits, Reply, Kinds

LEMMA BufferFits ==
  ASSUME NEW room \in Nat, NEW printed \in Nat, printed < room
  PROVE  Buffer(room, printed).printed < Buffer(room, printed).room
BY DEF Buffer

LEMMA ErrorSound ==
  ASSUME NEW code \in Codes, NEW msg, Len(msg) \in Nat
  PROVE  Sound(Response_Error(code, msg))
<1>. DEFINE n == Len(msg)
<1>1. n \in Nat
  OBVIOUS
<1>. HIDE DEF n
<1>2. /\ Buffer(395 + n, 383 + 3 + n).printed < Buffer(395 + n, 383 + 3 + n).room
      /\ Buffer(59, 43 + 3).printed < Buffer(59, 43 + 3).room
  BY <1>1 DEF Buffer
<1>3. Sound(Reply(code, {Buffer(395 + n, 383 + 3 + n), Buffer(59, 43 + 3)}))
  BY <1>2, ReplySound
<1>. QED  BY <1>3 DEF Response_Error, n

LEMMA MessageLengths ==
  /\ \A text \in {InvalidXml, NoArguments, NotAFlag, NoConnection, NoObject, NoSorting, NoFile,
                  NoContainer} : Len(text) \in Nat
  /\ \A argument \in {"ConnectionID", "StartingIndex", "RequestedCount"} :
       Len(IllegalValue(argument)) \in Nat
BY TextAssumption

LEMMA BrowseErrorSound ==
  ASSUME NEW request
  PROVE  Sound(BrowseError(request))
<1>1. /\ Sound(Response_Error(701, NoObject)) /\ Sound(Response_Error(709, NoSorting))
      /\ Sound(Response_Error(800, NoFile)) /\ Sound(Response_Error(710, NoContainer))
  BY ErrorSound, MessageLengths DEF Codes
<1>. QED  BY <1>1, NoAnswerSound DEF BrowseError

LEMMA IllegalSound ==
  ASSUME NEW argument \in {"StartingIndex", "RequestedCount"}, NEW request
  PROVE  Sound(Illegal(argument, request))
<1>. DEFINE error == Response_Error(402, IllegalValue(argument))
            kind == IF Legal(request.StartingIndex) /\ Legal(request.RequestedCount)
                    THEN "refused legal" ELSE error.kind
            illegal == [error EXCEPT !.kind = kind]
<1>1. Sound(error)
  BY ErrorSound, MessageLengths DEF Codes
<1>2. DOMAIN error = {"kind", "code", "buffers"} /\ error.kind = "reply"
  BY ErrorKind
<1>3. Illegal(argument, request) = illegal
  BY DEF Illegal
<1>4. kind \in {"reply", "refused legal"}
  BY <1>2
<1>. HIDE DEF error, kind
<1>5. illegal.kind = kind /\ illegal.code = error.code /\ illegal.buffers = error.buffers
  BY <1>2
<1>. HIDE DEF illegal
<1>. QED  BY <1>1, <1>2, <1>3, <1>4, <1>5 DEF Sound, Kinded, Fits, Kinds

LEMMA GenericSound ==
  ASSUME NEW uri, NEW method, Len(uri) \in Nat, Len(method) \in Nat,
         NEW room \in Nat, NEW printed \in Nat, printed < room
  PROVE  Sound(ResponseGeneric(uri, method, Buffer(room, printed)))
<1>. DEFINE u == Len(uri)
            l == Len(method)
            p == Buffer(room, printed)
            e == Buffer(239 + u + p.printed + 2 * l, 230 + u + p.printed + 2 * l)
<1>1. u \in Nat /\ l \in Nat
  OBVIOUS
<1>. HIDE DEF u, l
<1>2. p.printed = printed /\ p.printed < p.room
  BY DEF Buffer
<1>. HIDE DEF p
<1>3. e.printed < e.room
  BY <1>1, <1>2 DEF Buffer
<1>. HIDE DEF e
<1>4. Sound(Reply(200, {p, e}))
  BY <1>2, <1>3, ReplySound DEF Codes
<1>. QED  BY <1>4 DEF ResponseGeneric, e, p, u, l

LEMMA ActionsSound ==
  /\ Sound(GetSortCapabilities) /\ Sound(GetSearchCapabilities) /\ Sound(GetSystemUpdateID)
  /\ Sound(GetProtocolInfo) /\ Sound(GetCurrentConnectionIDs)
<1>1. /\ Len(ContentDirectoryUrn) \in Nat /\ Len(ConnectionManagerUrn) \in Nat
      /\ Len("GetSortCapabilities") \in Nat /\ Len("GetSearchCapabilities") \in Nat
      /\ Len("GetSystemUpdateID") \in Nat /\ Len("GetProtocolInfo") \in Nat
      /\ Len("GetCurrentConnectionIDs") \in Nat
  BY TextAssumption
<1>2. Sound(GetSortCapabilities)
  BY <1>1, GenericSound DEF GetSortCapabilities
<1>3. Sound(GetSearchCapabilities)
  BY <1>1, GenericSound DEF GetSearchCapabilities
<1>4. Sound(GetSystemUpdateID)
  BY <1>1, GenericSound DEF GetSystemUpdateID
<1>5. Sound(GetProtocolInfo)
  BY <1>1, GenericSound DEF GetProtocolInfo
<1>6. Sound(GetCurrentConnectionIDs)
  BY <1>1, GenericSound DEF GetCurrentConnectionIDs
<1>. QED  BY <1>2, <1>3, <1>4, <1>5, <1>6

LEMMA AsyncSound == Sound(AsyncResponse("Browse"))
<1>. DEFINE l == Len("Browse")
            u == Len(ContentDirectoryUrn)
            a == Buffer(204 + l + u, 199 + l + u)
            b == Buffer(44 + l, 42 + l)
            c == Buffer(30, 10)
<1>1. l \in Nat /\ u \in Nat
  BY TextAssumption
<1>. HIDE DEF l, u
<1>2. a.printed < a.room /\ b.printed < b.room /\ c.printed < c.room
  BY <1>1 DEF Buffer
<1>. HIDE DEF a, b, c
<1>3. Sound(Reply(200, {a, b, c}))
  BY <1>2, ReplySound DEF Codes
<1>. QED  BY <1>3 DEF AsyncResponse, a, b, c, l, u

(* An int is printed in ten digits at most.                                *)
LEMMA DigitsBounded ==
  ASSUME NEW n
  PROVE  Digits(n) \in 1..10
<1>. DEFINE tens == {k \in 1..9 : 10 ^ k <= n}
<1>1. IsFiniteSet(1..9) /\ Cardinality(1..9) = 9
  <2>1. 1 \in Int /\ 9 \in Int /\ ~(1 > 9) /\ 9 - 1 + 1 = 9
    OBVIOUS
  <2>. QED  BY <2>1, FS_Interval, Zenon
<1>2. tens \subseteq 1..9
  OBVIOUS
<1>3. Cardinality(tens) \in 0..9
  BY <1>1, <1>2, FS_Subset, FS_CardinalityType
<1>. HIDE DEF tens
<1>4. 1 + Cardinality(tens) \in 1..10
  BY <1>3
<1>. QED  BY <1>4 DEF Digits, tens

(* A page has room for a text a little longer than it announces, and what  *)
(* is sent is longer than the text.                                        *)
LEMMA PageHolds ==
  ASSUME NEW announced \in Nat, NEW text \in Nat, NEW language \in BOOLEAN
  PROVE  /\ text <= announced
              => \A buffer \in Page(announced, text, language).buffers :
                   buffer.printed < buffer.room
         /\ Sent(Page(announced, text, language)) \in Nat
         /\ Sent(Page(announced, text, language)) >= text
<1>. DEFINE d == Digits(announced)
            room == XmlTemplate + announced + 3 + 64 + (IF language THEN 23 ELSE 0)
            printed == XmlTemplate - 8 + RFC1123Date + d + text
                         + (IF language THEN LanguageHeader ELSE 0)
            b == Buffer(room, printed)
<1>1. d \in 1..10
  BY DigitsBounded
<1>2. Page(announced, text, language).buffers = {b}
  BY DEF Page
<1>3. Sent(Page(announced, text, language)) = b.printed
  BY <1>2 DEF Sent
<1>. HIDE DEF d
<1>4. /\ printed \in Nat /\ printed >= text /\ room \in Nat
      /\ text <= announced => printed < room
  BY <1>1 DEF XmlTemplate, RFC1123Date, LanguageHeader
<1>. HIDE DEF room, printed
<1>5. b.printed = printed /\ b.room = room
  BY DEF Buffer
<1>. HIDE DEF b
<1>. QED  BY <1>2, <1>3, <1>4, <1>5

LEMMA SoundInit == Init => SInv
<1>. SUFFICES ASSUME Init PROVE SInv
  OBVIOUS
<1>1. StateTyped
  BY ControlAssumption DEF Init, StateTyped
<1>2. DescriptionKept
  BY DEF Init, DescriptionKept
<1>. QED  BY <1>1, <1>2, NoAnswerSound DEF Init, SInv

(* Steps that leave everything but the answer and errno.                   *)
LEMMA AnswerOnly ==
  ASSUME SInv, Sound(answer'), errno' \in {"none", "ERANGE", "other"}, overran' \in BOOLEAN,
         UNCHANGED <<MMS_IP_Addresses, bufferLen, description>>, br' \in {br, NoBrowse}
  PROVE  SInv'
<1>1. StateTyped'
  BY DEF SInv, StateTyped
<1>2. DescriptionKept'
  BY DEF SInv, DescriptionKept
<1>. QED  BY <1>1, <1>2 DEF SInv

(* The text is no longer than announced when the description was written,  *)
(* now or by an earlier request.                                           *)
LEMMA SoundGetDescription ==
  ASSUME SInv, NEW hosted \in BOOLEAN, NEW language \in BOOLEAN,
         GetDescription(hosted, language)
  PROVE  SInv'
<1>. DEFINE announced == IF hosted THEN Document ELSE bufferLen
<1>1. PICK text \in IF hosted \/ description # -1 THEN {Document} ELSE Garbage :
        /\ answer' = [Page(announced, text, language) EXCEPT !.kind = DescriptionKind(hosted)]
        /\ bufferLen' = Sent(Page(announced, text, language))
  BY DEF GetDescription
<1>2. description' = IF hosted THEN Document ELSE description
  BY DEF GetDescription
<1>3. announced \in Nat /\ text \in Nat
  BY ControlAssumption DEF SInv, StateTyped
<1>4. hosted \/ description # -1 => text = Document /\ text <= announced
  <2>1. hosted \/ description # -1 => text = Document
    BY <1>1
  <2>2. Document \in Nat /\ bufferLen \in Nat /\ (description # -1 => bufferLen >= Document)
    BY ControlAssumption DEF SInv, StateTyped, DescriptionKept
  <2>. QED  BY <2>1, <2>2
<1>. DEFINE page == Page(announced, text, language)
            kind == DescriptionKind(hosted)
<1>5. DOMAIN page = {"kind", "announced", "length", "buffers"}
  BY PageFields
<1>6. /\ text <= announced => \A buffer \in page.buffers : buffer.printed < buffer.room
      /\ Sent(page) \in Nat /\ Sent(page) >= text
  BY <1>3, PageHolds
<1>7. kind \in {"description", "unwritten", "page"}
      /\ (kind = "unwritten" => ~hosted /\ description = -1)
  BY DEF DescriptionKind
<1>8. answer' = [page EXCEPT !.kind = kind] /\ bufferLen' = Sent(page)
  BY <1>1
<1>. HIDE DEF announced, page, kind
<1>9. answer'.kind = kind /\ answer'.buffers = page.buffers
  BY <1>5, <1>8
<1>10. Sound(answer')
  <2>1. Kinded(answer')
    BY <1>7, <1>9 DEF Kinded, Kinds
  <2>2. kind # "unwritten" => text <= announced
    BY <1>4, <1>7 DEF kind, DescriptionKind
  <2>. QED  BY <2>1, <2>2, <1>6, <1>7, <1>9 DEF Sound, Fits
<1>11. StateTyped'
  <2>1. UNCHANGED <<errno, overran, MMS_IP_Addresses, br>>
    BY DEF GetDescription
  <2>. QED  BY <1>2, <1>6, <1>8, <2>1 DEF SInv, StateTyped
<1>12. DescriptionKept'
  <2>1. description' # -1 => text = Document
    BY <1>2, <1>4
  <2>. QED  BY <1>6, <1>8, <2>1 DEF DescriptionKept
<1>. QED  BY <1>10, <1>11, <1>12 DEF SInv

LEMMA SoundPlain ==
  ASSUME SInv,
         \/ \E readable, language \in BOOLEAN : SendXML(readable, language)
         \/ \E code \in {400, 404} : Refused(code)
         \/ ProcessPOST
         \/ BrowseDone
  PROVE  SInv'
<1>1. errno \in {"none", "ERANGE", "other"} /\ overran \in BOOLEAN
  BY DEF SInv, StateTyped
<1>2. ASSUME NEW readable \in BOOLEAN, NEW language \in BOOLEAN, SendXML(readable, language)
      PROVE  SInv'
  <2>1. Sound(Page(Document, Document, language))
    <3>1. Document \in Nat /\ Document <= Document
      BY ControlAssumption
    <3>2. \A buffer \in Page(Document, Document, language).buffers : buffer.printed < buffer.room
      BY <3>1, PageHolds
    <3>3. Page(Document, Document, language).kind = "page"
      BY PageFields
    <3>. DEFINE page == Page(Document, Document, language)
    <3>4. page.kind = "page" /\ \A buffer \in page.buffers : buffer.printed < buffer.room
      BY <3>2, <3>3
    <3>. HIDE DEF page
    <3>5. Sound(page)
      BY <3>4 DEF Sound, Kinded, Fits, Kinds
    <3>. QED  BY <3>5 DEF page
  <2>2. Sound(answer')
    BY <1>2, <2>1, NoAnswerSound DEF SendXML
  <2>3. /\ errno' \in {"none", "ERANGE", "other"} /\ overran' \in BOOLEAN
        /\ UNCHANGED <<MMS_IP_Addresses, bufferLen, description>> /\ br' = br
    BY <1>1, <1>2 DEF SendXML
  <2>. QED  BY <2>2, <2>3, AnswerOnly
<1>3. ASSUME NEW code \in {400, 404}, Refused(code)
      PROVE  SInv'
  <2>1. Buffer(128, 90).printed < Buffer(128, 90).room
    BY DEF Buffer
  <2>2. Sound(answer')
    BY <1>3, <2>1, ReplySound DEF Refused, Codes
  <2>3. /\ errno' = errno /\ overran' = overran
        /\ UNCHANGED <<MMS_IP_Addresses, bufferLen, description>> /\ br' = br
    BY <1>3 DEF Refused
  <2>. QED  BY <1>1, <2>2, <2>3, AnswerOnly
<1>4. ASSUME ProcessPOST
      PROVE  SInv'
  <2>1. Sound(answer')
    BY <1>4, ActionsSound, NoAnswerSound DEF ProcessPOST
  <2>2. /\ errno' = errno /\ overran' = overran
        /\ UNCHANGED <<MMS_IP_Addresses, bufferLen, description>> /\ br' = br
    BY <1>4 DEF ProcessPOST
  <2>. QED  BY <1>1, <2>1, <2>2, AnswerOnly
<1>5. ASSUME BrowseDone
      PROVE  SInv'
  <2>1. Sound(answer')
    BY <1>5, AsyncSound DEF BrowseDone
  <2>2. /\ errno' = errno /\ overran' = overran
        /\ UNCHANGED <<MMS_IP_Addresses, bufferLen, description>> /\ br' = NoBrowse
    BY <1>5 DEF BrowseDone
  <2>. QED  BY <1>1, <2>1, <2>2, AnswerOnly
<1>. QED  BY <1>2, <1>3, <1>4, <1>5

LEMMA ConvertedErrno ==
  ASSUME NEW e \in {"none", "ERANGE", "other"}, NEW number
  PROVE  /\ ILibGetULong(number, e).errno \in {"none", "ERANGE", "other"}
         /\ ILibGetLong(number, e).errno \in {"none", "ERANGE", "other"}
         /\ ILibGetULong(number, e).value = number.digits
BY DEF ILibGetULong, ILibGetLong, Converted

LEMMA SoundConnectionInfo ==
  ASSUME SInv, NEW body \in Bodies, NEW number \in Numbers,
         GetCurrentConnectionInfo(body, number)
  PROVE  SInv'
<1>1. answer' \in {Response_Error(501, InvalidXml), Response_Error(402, NoArguments),
                   Response_Error(402, IllegalValue("ConnectionID")),
                   Response_Error(706, NoConnection)}
  BY DEF GetCurrentConnectionInfo
<1>2. Sound(answer')
  BY <1>1, ErrorSound, MessageLengths DEF Codes
<1>3. errno \in {"none", "ERANGE", "other"} /\ overran \in BOOLEAN
  BY DEF SInv, StateTyped
<1>4. errno' \in {"none", "ERANGE", "other"}
  BY <1>3, ConvertedErrno DEF GetCurrentConnectionInfo
<1>5. overran' \in BOOLEAN
  BY <1>3 DEF GetCurrentConnectionInfo, OutOfRange
<1>6. UNCHANGED <<MMS_IP_Addresses, bufferLen, description>> /\ br' = br
  BY DEF GetCurrentConnectionInfo
<1>. QED  BY <1>2, <1>4, <1>5, <1>6, AnswerOnly

(* The cast of the numbers of a Browse.                                    *)
LEMMA UIntInRange ==
  ASSUME NEW n \in Nat
  PROVE  UInt(n) \in 0..UIntMax
<1>1. UIntMax \in Nat
  BY ControlAssumption
<1>. QED  BY <1>1 DEF UInt

LEMMA AddressesTyped ==
  ASSUME NEW list \in AddressLists, NEW ip \in Interfaces
  PROVE  ReachableFirst(list, ip) \in Seq(Interfaces)
<1>1. list \in Seq(Interfaces)
  BY ControlAssumption
<1>. DEFINE r == ReachableFirst(list, ip)
<1>2. list[1] \in Interfaces \/ DOMAIN list = {}
  BY <1>1
<1>3. r \in [1..Len(list) -> Interfaces]
  BY <1>1, <1>2 DEF ReachableFirst
<1>. HIDE DEF r
<1>4. r \in Seq(Interfaces)
  BY <1>1, <1>3
<1>. QED  BY <1>4 DEF r

LEMMA SoundBrowse ==
  ASSUME SInv, NEW request \in Requests, NEW ip \in Interfaces, Browse(request, ip)
  PROVE  SInv'
<1>. DEFINE si == ILibGetULong(request.StartingIndex, errno)
            rc == ILibGetULong(request.RequestedCount, si.errno)
<1>1. /\ errno \in {"none", "ERANGE", "other"} /\ overran \in BOOLEAN
      /\ MMS_IP_Addresses \in AddressLists
  BY DEF SInv, StateTyped
<1>2. /\ si.errno \in {"none", "ERANGE", "other"} /\ si.value = request.StartingIndex.digits
      /\ rc.errno \in {"none", "ERANGE", "other"} /\ rc.value = request.RequestedCount.digits
  <2>1. si.errno \in {"none", "ERANGE", "other"} /\ si.value = request.StartingIndex.digits
    BY <1>1, ConvertedErrno
  <2>. HIDE DEF si
  <2>2. rc.errno \in {"none", "ERANGE", "other"} /\ rc.value = request.RequestedCount.digits
    BY <2>1, ConvertedErrno
  <2>. QED  BY <2>1, <2>2
<1>3. /\ request.StartingIndex.digits \in Nat /\ request.RequestedCount.digits \in Nat
      /\ request.filter \in Filters
  BY ControlAssumption
<1>4. Sound(answer')
  <2>1. \/ answer' = Response_Error(402, NoArguments) \/ answer' = Response_Error(402, NotAFlag)
        \/ answer' = BrowseError(request)
        \/ answer' = Illegal("StartingIndex", request)
        \/ answer' = Illegal("RequestedCount", request)
    BY DEF Browse
  <2>2. Sound(Response_Error(402, NoArguments)) /\ Sound(Response_Error(402, NotAFlag))
    BY ErrorSound, MessageLengths DEF Codes
  <2>. QED  BY <2>1, <2>2, BrowseErrorSound, IllegalSound
<1>5. errno' \in {"none", "ERANGE", "other"}
  BY <1>1, <1>2 DEF Browse
<1>6. overran' \in BOOLEAN
  BY <1>1 DEF Browse, OutOfRange
<1>7. UNCHANGED <<MMS_IP_Addresses, bufferLen, description>>
  BY DEF Browse
<1>8. \/ br' = NoBrowse
      \/ br' = BrowseRequest(request, ip, UInt(si.value), UInt(rc.value))
  BY DEF Browse
<1>9. ASSUME br' = BrowseRequest(request, ip, UInt(si.value), UInt(rc.value))
      PROVE  /\ br'.filter \in Filters /\ {br'.si, br'.rc} \subseteq 0..UIntMax
             /\ br'.addresses \in Seq(Interfaces)
  <2>1. UInt(si.value) \in 0..UIntMax /\ UInt(rc.value) \in 0..UIntMax
    BY <1>2, <1>3, UIntInRange
  <2>2. ReachableFirst(MMS_IP_Addresses, ip) \in Seq(Interfaces)
    BY <1>1, AddressesTyped
  <2>. HIDE DEF si, rc
  <2>. QED  BY <1>3, <1>9, <2>1, <2>2 DEF BrowseRequest
<1>10. StateTyped'
  BY <1>1, <1>5, <1>6, <1>7, <1>8, <1>9 DEF SInv, StateTyped
<1>11. DescriptionKept'
  BY <1>7 DEF SInv, DescriptionKept
<1>. QED  BY <1>4, <1>10, <1>11 DEF SInv

LEMMA SoundDescribeEntry ==
  ASSUME SInv, NEW m \in Metadata, NEW left \in Garbage, DescribeEntry(m, left)
  PROVE  SInv'
<1>1. PICK o \in GetMetaData([m EXCEPT !.addresses = Len(br.addresses)]) :
        answer' = [kind |-> GetMediaObjectDidlEscaped(o,
                              GetFilterBitString(br.filter.star, br.filter.names), left),
                   written |-> o.time.rest > 0 \/ o.time.days = 0]
  BY DEF DescribeEntry
<1>2. answer'.kind = GetMediaObjectDidlEscaped(o,
                       GetFilterBitString(br.filter.star, br.filter.names), left)
  BY <1>1
<1>3. answer'.kind \in {"entry", "NULL"}
  BY <1>2 DEF GetMediaObjectDidlEscaped
<1>4. Sound(answer')
  BY <1>3 DEF Sound, Kinded, Fits, Kinds
<1>5. /\ errno' = errno /\ overran' = overran
      /\ UNCHANGED <<MMS_IP_Addresses, bufferLen, description>> /\ br' = br
  BY DEF DescribeEntry
<1>6. errno \in {"none", "ERANGE", "other"} /\ overran \in BOOLEAN
  BY DEF SInv, StateTyped
<1>. QED  BY <1>4, <1>5, <1>6, AnswerOnly

LEMMA SoundElsewhere ==
  ASSUME SInv,
         \/ \E list \in AddressLists : UpdateIPAddresses(list)
         \/ OtherCallFails
         \/ UNCHANGED vars
  PROVE  SInv'
<1>1. /\ answer' = answer /\ overran' = overran /\ errno' \in {errno, "other"}
      /\ MMS_IP_Addresses' = MMS_IP_Addresses \/ MMS_IP_Addresses' \in AddressLists
      /\ UNCHANGED <<bufferLen, description, br>>
  BY DEF UpdateIPAddresses, OtherCallFails, vars
<1>2. StateTyped'
  BY <1>1 DEF SInv, StateTyped
<1>3. DescriptionKept'
  BY <1>1 DEF SInv, DescriptionKept
<1>. QED  BY <1>1, <1>2, <1>3 DEF SInv

LEMMA SoundNext == SInv /\ [Next]_vars => SInv'
<1>. SUFFICES ASSUME SInv, [Next]_vars
              PROVE  SInv'
  OBVIOUS
<1>1. ASSUME NEW hosted \in BOOLEAN, NEW language \in BOOLEAN, GetDescription(hosted, language)
      PROVE  SInv'
  BY <1>1, SoundGetDescription
<1>2. ASSUME NEW body \in Bodies, NEW number \in Numbers,
             GetCurrentConnectionInfo(body, number)
      PROVE  SInv'
  BY <1>2, SoundConnectionInfo
<1>3. ASSUME NEW request \in Requests, NEW ip \in Interfaces, Browse(request, ip)
      PROVE  SInv'
  BY <1>3, SoundBrowse
<1>4. ASSUME NEW m \in Metadata, NEW left \in Garbage, DescribeEntry(m, left)
      PROVE  SInv'
  BY <1>4, SoundDescribeEntry
<1>. QED
  BY <1>1, <1>2, <1>3, <1>4, SoundPlain, SoundElsewhere DEF Next

(* The state and every answer stay of their kinds, whatever the widths of  *)
(* the numbers, the texts and the addresses.                               *)
THEOREM AnswersAreTyped == Spec => []TypeOK
BY SoundInit, SoundNext, SInvSays, PTL DEF Spec

(* No answer is printed into less room than it takes: UpnpResponse_Error,  *)
(* UpnpResponseGeneric and the pages of GET allocate enough for any        *)
(* message, description and language, and the description that is sent a   *)
(* second time was whole the first.                                        *)
THEOREM AnswersHaveRoom == Spec => []AnswersFit
BY SoundInit, SoundNext, SInvSays, PTL DEF Spec

-----------------------------------------------------------------------------
(* What holds of 0 and of the successor of what it holds of.               *)
LEMMA Upwards ==
  ASSUME NEW n \in Nat, NEW Good, 0 \in Good,
         \A k \in 1..n : k - 1 \in Good => k \in Good
  PROVE  n \in Good
<1>. DEFINE Bad == 0..n \ Good
<1>1. SUFFICES ASSUME Bad # {}
               PROVE  FALSE
  OBVIOUS
<1>2. Bad \subseteq Nat
  OBVIOUS
<1>3. PICK x \in Bad : \A y \in Bad : x <= y
  BY <1>1, <1>2, LeastElement
<1>4. x \in 1..n /\ x - 1 \in 0..n /\ x - 1 < x
  OBVIOUS
<1>5. x - 1 \notin Bad
  BY <1>2, <1>3, <1>4
<1>. QED  BY <1>4, <1>5

-----------------------------------------------------------------------------
(* Sums: SumTo is what its recursion says.                                 *)
Table(s, f, n) == s = [k \in 0..n |-> IF k = 0 THEN 0 ELSE s[k - 1] + f[k]]

LEMMA TableExists ==
  ASSUME NEW f, NEW n \in Nat
  PROVE  \E s : Table(s, f, n)
<1>. DEFINE Good == {m \in Nat : \E s : Table(s, f, m)}
<1>1. 0 \in Good
  <2>. DEFINE s == [k \in 0..0 |-> 0]
  <2>1. Table(s, f, 0)
    BY DEF Table
  <2>. QED  BY <2>1
<1>2. ASSUME NEW m \in 1..n, m - 1 \in Good
      PROVE  m \in Good
  <2>1. PICK t : Table(t, f, m - 1)
    BY <1>2
  <2>. DEFINE s == [k \in 0..m |-> IF k = m THEN t[m - 1] + f[m] ELSE t[k]]
  <2>2. \A k \in 0..m - 1 : t[k] = IF k = 0 THEN 0 ELSE t[k - 1] + f[k]
    BY <2>1, Zenon DEF Table
  <2>3. \A k \in 0..m : s[k] = IF k = 0 THEN 0 ELSE s[k - 1] + f[k]
    <3>1. ASSUME NEW k \in 0..m, k # m
          PROVE  s[k] = IF k = 0 THEN 0 ELSE s[k - 1] + f[k]
      <4>1. k \in 0..m - 1 /\ (k # 0 => k - 1 \in 0..m /\ k - 1 # m)
        BY <3>1
      <4>2. s[k] = t[k] /\ (k # 0 => s[k - 1] = t[k - 1])
        BY <3>1, <4>1
      <4>. HIDE DEF s
      <4>. QED  BY <2>2, <4>1, <4>2
    <3>2. s[m] = t[m - 1] + f[m] /\ m # 0 /\ m - 1 \in 0..m /\ m - 1 # m
      OBVIOUS
    <3>3. s[m - 1] = t[m - 1]
      BY <3>2
    <3>. HIDE DEF s
    <3>. QED  BY <3>1, <3>2, <3>3
  <2>4. Table(s, f, m)
    <3>1. s = [k \in 0..m |-> s[k]]
      OBVIOUS
    <3>. HIDE DEF s
    <3>. QED  BY <2>3, <3>1 DEF Table
  <2>. QED  BY <2>4
<1>. HIDE DEF Good
<1>3. n \in Good
  BY <1>1, <1>2, Upwards
<1>. QED  BY <1>3 DEF Good

LEMMA SumToTable ==
  ASSUME NEW f, NEW n \in Nat
  PROVE  \E s : /\ SumTo(f, n) = s[n]
                /\ s[0] = 0 /\ \A k \in 1..n : s[k] = s[k - 1] + f[k]
<1>. DEFINE s == CHOOSE r : Table(r, f, n)
<1>1. Table(s, f, n)
  BY TableExists
<1>2. SumTo(f, n) = s[n]
  BY DEF SumTo, Table
<1>. HIDE DEF s
<1>3. \A k \in 0..n : s[k] = IF k = 0 THEN 0 ELSE s[k - 1] + f[k]
  BY <1>1, Zenon DEF Table
<1>4. s[0] = 0 /\ \A k \in 1..n : s[k] = s[k - 1] + f[k]
  BY <1>3
<1>. QED  BY <1>2, <1>4

(* A sum of natural numbers is one.                                        *)
LEMMA SumIsNat ==
  ASSUME NEW f, NEW n \in Nat, \A k \in 1..n : f[k] \in Nat
  PROVE  SumTo(f, n) \in Nat
<1>1. PICK s : /\ SumTo(f, n) = s[n]
               /\ s[0] = 0 /\ \A k \in 1..n : s[k] = s[k - 1] + f[k]
  BY SumToTable
<1>. DEFINE Good == {k \in Nat : s[k] \in Nat}
<1>2. 0 \in Good
  BY <1>1
<1>3. \A k \in 1..n : k - 1 \in Good => k \in Good
  BY <1>1
<1>. HIDE DEF Good
<1>4. n \in Good
  BY <1>2, <1>3, Upwards
<1>. QED  BY <1>1, <1>4 DEF Good

(* Sums keep the order of what is added up.                                *)
LEMMA SumIsMonotone ==
  ASSUME NEW f, NEW g, NEW n \in Nat,
         \A k \in 1..n : f[k] \in Nat /\ g[k] \in Nat /\ f[k] <= g[k]
  PROVE  SumTo(f, n) <= SumTo(g, n)
<1>1. PICK s : /\ SumTo(f, n) = s[n]
               /\ s[0] = 0 /\ \A k \in 1..n : s[k] = s[k - 1] + f[k]
  BY SumToTable
<1>2. PICK t : /\ SumTo(g, n) = t[n]
               /\ t[0] = 0 /\ \A k \in 1..n : t[k] = t[k - 1] + g[k]
  BY SumToTable
<1>. DEFINE Good == {k \in Nat : s[k] \in Nat /\ t[k] \in Nat /\ s[k] <= t[k]}
<1>3. 0 \in Good
  BY <1>1, <1>2
<1>4. ASSUME NEW k \in 1..n, k - 1 \in Good
      PROVE  k \in Good
  <2>1. /\ s[k] = s[k - 1] + f[k] /\ t[k] = t[k - 1] + g[k]
        /\ s[k - 1] \in Nat /\ t[k - 1] \in Nat /\ s[k - 1] <= t[k - 1]
        /\ f[k] \in Nat /\ g[k] \in Nat /\ f[k] <= g[k]
    BY <1>1, <1>2, <1>4
  <2>. QED  BY <2>1
<1>. HIDE DEF Good
<1>5. n \in Good
  BY <1>3, <1>4, Upwards
<1>. QED  BY <1>1, <1>2, <1>5 DEF Good

-----------------------------------------------------------------------------
LEMMA WidthIsNat ==
  ASSUME NEW text \in Text
  PROVE  Width(text, EscapedLength) \in Nat
<1>. DEFINE w == [i \in DOMAIN text |-> EscapedLength[text[i]]]
<1>1. Len(text) \in Nat /\ DOMAIN text = 1..Len(text)
  BY DEF Text
<1>2. \A i \in 1..Len(text) : text[i] \in {"plain", "quote", "angle", "amp"}
  BY DEF Text, Escaped
<1>3. \A i \in 1..Len(text) : w[i] \in Nat
  BY <1>1, <1>2 DEF EscapedLength
<1>. HIDE DEF w
<1>4. SumTo(w, Len(text)) \in Nat
  BY <1>1, <1>3, SumIsNat
<1>. QED  BY <1>4 DEF Width, w

(* What fields take together grows with the fields and with each.          *)
LEMMA LengthsGrow ==
  ASSUME NEW some, NEW all, some \subseteq all, NEW a, NEW b,
         \A f \in some : a[f] \in Nat /\ a[f] <= b[f],
         \A f \in all : b[f] \in Nat
  PROVE  /\ Lengths(some, a) \in Nat /\ Lengths(all, b) \in Nat
         /\ Lengths(some, a) <= Lengths(all, b)
<1>. DEFINE n == Len(Fields)
            f == [i \in DOMAIN Fields |-> IF Fields[i] \in some THEN a[Fields[i]] ELSE 0]
            g == [i \in DOMAIN Fields |-> IF Fields[i] \in all THEN b[Fields[i]] ELSE 0]
<1>1. n \in Nat /\ DOMAIN Fields = 1..n
  BY DEF Fields
<1>2. \A k \in 1..n : f[k] \in Nat /\ g[k] \in Nat /\ f[k] <= g[k]
  BY <1>1
<1>3. Lengths(some, a) = SumTo(f, n) /\ Lengths(all, b) = SumTo(g, n)
  BY DEF Lengths
<1>. HIDE DEF f, g, n
<1>4. SumTo(f, n) \in Nat /\ SumTo(g, n) \in Nat /\ SumTo(f, n) <= SumTo(g, n)
  BY <1>1, <1>2, SumIsNat, SumIsMonotone
<1>. QED  BY <1>3, <1>4

-----------------------------------------------------------------------------
TextFields == {"ChannelNr", "ChannelID", "CallSign", "ProgramID", "LongDescription"}
DateFields == {"Recordable", "DateTimeRange", "SchedStartTime", "SchedEndTime",
               "SchedDurationTime"}

(* The objects GetMetaData makes, as far as their sizes go.                *)
Sized(o) ==
  /\ {o.id, o.parent, o.title} \subseteq Text
  /\ o.class.length \in Nat /\ o.class.dots \in 0..4
  /\ o.container \in BOOLEAN /\ o.recordable \in BOOLEAN /\ o.range \in BOOLEAN
  /\ o.time \in Time
  /\ DOMAIN o.texts \subseteq TextFields
  /\ \A f \in DOMAIN o.texts : o.texts[f] \in Text
  /\ o.res \in Seq([protocol : Text, value : Text])

(* The programme does not last whole days: its clock is written.           *)
ClockWritten(o) == o.time.rest > 0 \/ o.time.days = 0

(* The filters of clients name everything, or no text and no date.         *)
FilterBits(bits) == bits = AllBits \/ bits \cap 16..27 = {}

LEMMA BitsOfFields ==
  /\ \A f \in TextFields \cup DateFields : Bits[f] \subseteq 16..27 /\ Bits[f] # {}
  /\ Bits["Res"] = {1} /\ Bits["Size"] = {6}
BY DEF TextFields, DateFields, Bits

LEMMA FilterStringBits ==
  ASSUME NEW star, NEW names
  PROVE  FilterBits(GetFilterBitString(star, names))
<1>. DEFINE low == {"ChildCount", "Searchable", "Creator", "Album", "Genre", "Res", "Size"}
            named == UNION {Bits[n] : n \in names \cap low}
            res == IF "Size" \in names THEN Bits["Res"] ELSE {}
            bits == IF star THEN AllBits ELSE named \cup res
<1>1. \A n \in low : Bits[n] \cap 16..27 = {}
  BY DEF Bits
<1>2. named \cap 16..27 = {} /\ res \cap 16..27 = {}
  BY <1>1
<1>3. bits = AllBits \/ bits = named \cup res
  OBVIOUS
<1>4. FilterBits(bits)
  <2>. HIDE DEF named, res, bits
  <2>. QED  BY <1>2, <1>3 DEF FilterBits
<1>. QED  BY <1>4 DEF GetFilterBitString

LEMMA NumberFieldsAreDates ==
  ASSUME NEW o
  PROVE  NumberFields(o) \subseteq DateFields
BY DEF NumberFields, DateFields

(* What is printed was counted: no field shares a bit with a counted one   *)
(* that it was not itself counted with.                                    *)
LEMMA PrintedIsCounted ==
  ASSUME NEW o, NEW filter, FilterBits(filter), DOMAIN o.texts \subseteq TextFields
  PROVE  /\ \A fields \in SUBSET (TextFields \cup DateFields) :
              Requested(fields, printThese(o, filter)) \subseteq Requested(fields, filter)
         /\ Bits["Res"] \cap printThese(o, filter) # {} => Bits["Res"] \cap filter # {}
         /\ Bits["Size"] \cap printThese(o, filter) # {} => Bits["Size"] \cap filter # {}
<1>. DEFINE named == (DOMAIN o.texts) \cup NumberFields(o)
            counted == Requested(named \cup {"Res"} \cup (IF o.res # <<>> THEN {"Size"} ELSE {}),
                                 filter)
            bits == printThese(o, filter)
<1>1. named \subseteq TextFields \cup DateFields
  BY NumberFieldsAreDates
<1>2. bits = UNION {Bits[f] : f \in counted}
  BY DEF printThese
<1>3. counted \subseteq TextFields \cup DateFields \cup {"Res", "Size"}
      /\ \A f \in counted : Bits[f] \cap filter # {}
  BY <1>1 DEF Requested
<1>. HIDE DEF bits, counted, named
<1>4. 1 \in bits => 1 \in filter
  BY <1>2, <1>3, BitsOfFields
<1>5. 6 \in bits => 6 \in filter
  BY <1>2, <1>3, BitsOfFields
<1>6. ASSUME NEW fields \in SUBSET (TextFields \cup DateFields)
      PROVE  Requested(fields, bits) \subseteq Requested(fields, filter)
  <2>1. CASE filter = AllBits
    <3>1. \A f \in fields : Bits[f] \cap filter # {}
      BY <2>1, BitsOfFields DEF AllBits
    <3>. QED  BY <3>1 DEF Requested
  <2>2. CASE filter \cap 16..27 = {}
    <3>1. \A f \in counted : f \in {"Res", "Size"}
      BY <2>2, <1>3, BitsOfFields
    <3>2. bits \subseteq {1, 6}
      BY <3>1, <1>2, BitsOfFields
    <3>3. \A f \in fields : Bits[f] \cap bits = {}
      BY <3>2, BitsOfFields
    <3>. QED  BY <3>3 DEF Requested
  <2>. QED  BY <2>1, <2>2 DEF FilterBits
<1>. QED  BY <1>4, <1>5, <1>6, BitsOfFields DEF bits

LEMMA EndsOfTexts ==
  \A f \in TextFields : Counted[f] \in Nat /\ Printed[f] \in Nat /\ Printed[f] <= Counted[f]
BY DEF TextFields, Counted, Printed

LEMMA TextsFit ==
  ASSUME NEW o, Sized(o), NEW filter, FilterBits(filter)
  PROVE  LET p == TextsLength(o, printThese(o, filter), Printed, EscapedWidth)
             c == TextsLength(o, filter, Counted, EscapedLength)
         IN  p \in Nat /\ c \in Nat /\ p <= c
<1>. DEFINE some == Requested(DOMAIN o.texts, printThese(o, filter))
            all == Requested(DOMAIN o.texts, filter)
            a == [f \in DOMAIN o.texts |-> Printed[f] + Width(o.texts[f], EscapedLength)]
            b == [f \in DOMAIN o.texts |-> Counted[f] + Width(o.texts[f], EscapedLength)]
<1>1. DOMAIN o.texts \subseteq TextFields /\ \A f \in DOMAIN o.texts : o.texts[f] \in Text
  BY DEF Sized
<1>2. some \subseteq all
  BY <1>1, PrintedIsCounted
<1>3. all \subseteq DOMAIN o.texts
  BY DEF Requested
<1>4. \A f \in DOMAIN o.texts : a[f] \in Nat /\ b[f] \in Nat /\ a[f] <= b[f]
  <2>. TAKE f \in DOMAIN o.texts
  <2>. DEFINE w == Width(o.texts[f], EscapedLength)
  <2>1. w \in Nat
    BY <1>1, WidthIsNat
  <2>2. Counted[f] \in Nat /\ Printed[f] \in Nat /\ Printed[f] <= Counted[f]
    BY <1>1, EndsOfTexts
  <2>3. a[f] = Printed[f] + w /\ b[f] = Counted[f] + w
    OBVIOUS
  <2>. HIDE DEF w, a, b
  <2>. QED  BY <2>1, <2>2, <2>3
<1>5. /\ TextsLength(o, printThese(o, filter), Printed, EscapedWidth) = Lengths(some, a)
      /\ TextsLength(o, filter, Counted, EscapedLength) = Lengths(all, b)
  BY EscapedAssumption DEF TextsLength
<1>. HIDE DEF some, all, a, b
<1>6. /\ Lengths(some, a) \in Nat /\ Lengths(all, b) \in Nat
      /\ Lengths(some, a) <= Lengths(all, b)
  BY <1>2, <1>3, <1>4, LengthsGrow
<1>. QED  BY <1>5, <1>6

LEMMA NumbersFit ==
  ASSUME NEW o, Sized(o), ClockWritten(o), NEW filter, FilterBits(filter), NEW left \in Nat
  PROVE  LET p == NumbersPrinted(o, printThese(o, filter), left)
             c == Lengths(Requested(NumberFields(o), filter),
                          [f \in DOMAIN Room |-> Counted[f] + Room[f]])
         IN  p \in Nat /\ c \in Nat /\ p <= c
<1>. DEFINE some == Requested(NumberFields(o), printThese(o, filter))
            all == Requested(NumberFields(o), filter)
            clock == 1 + (IF o.time.days > 0 THEN DayDigits + 1 ELSE 0)
                       + (IF o.time.rest > 0 THEN Clock ELSE left)
            Field == [Recordable |-> 1, DateTimeRange |-> Date + 1 + Date,
                      SchedStartTime |-> Date, SchedEndTime |-> Date,
                      SchedDurationTime |-> clock]
            a == [f \in DOMAIN Field |-> Printed[f] + Field[f]]
            b == [f \in DOMAIN Room |-> Counted[f] + Room[f]]
<1>1. all \subseteq NumberFields(o) /\ NumberFields(o) \subseteq DateFields
  BY NumberFieldsAreDates DEF Requested
<1>2. some \subseteq all
  BY NumberFieldsAreDates, PrintedIsCounted DEF Sized
<1>3. clock \in Nat /\ (o.time.rest > 0 => clock <= 16)
  BY DEF Sized, Time, DayDigits, Clock
<1>4. "SchedDurationTime" \in NumberFields(o) => o.time.rest > 0
  BY DEF NumberFields, ClockWritten, Sized, Time
<1>. HIDE DEF clock
<1>5. \A f \in NumberFields(o) : a[f] \in Nat /\ b[f] \in Nat /\ a[f] <= b[f]
  <2>1. \A f \in DateFields \ {"SchedDurationTime"} :
          a[f] \in Nat /\ b[f] \in Nat /\ a[f] <= b[f]
    BY DEF DateFields, Printed, Counted, Room, Date
  <2>2. clock <= 16 => /\ a["SchedDurationTime"] \in Nat /\ b["SchedDurationTime"] \in Nat
                       /\ a["SchedDurationTime"] <= b["SchedDurationTime"]
    BY <1>3 DEF DateFields, Printed, Counted, Room, Date
  <2>. HIDE DEF a, b
  <2>. QED  BY <1>1, <1>3, <1>4, <2>1, <2>2
<1>6. NumbersPrinted(o, printThese(o, filter), left) = Lengths(some, a)
  BY DEF NumbersPrinted, clock
<1>. HIDE DEF some, all, a, b
<1>7. /\ Lengths(some, a) \in Nat /\ Lengths(all, b) \in Nat
      /\ Lengths(some, a) <= Lengths(all, b)
  BY <1>1, <1>2, <1>5, LengthsGrow
<1>. QED  BY <1>6, <1>7 DEF all, b

LEMMA Elements ==
  ASSUME NEW S, NEW r \in Seq(S)
  PROVE  Len(r) \in Nat /\ DOMAIN r = 1..Len(r) /\ \A i \in 1..Len(r) : r[i] \in S
OBVIOUS

LEMMA ResFit ==
  ASSUME NEW o, Sized(o), NEW filter, FilterBits(filter)
  PROVE  LET p == ResPrinted(o, printThese(o, filter))
             c == ResCounted(o, filter)
         IN  p \in Nat /\ c \in Nat /\ p <= c
<1>. DEFINE bits == printThese(o, filter)
            n == Len(o.res)
            w == [i \in DOMAIN o.res |-> Width(o.res[i].protocol, EscapedLength)]
            v == [i \in DOMAIN o.res |-> Width(o.res[i].value, EscapedLength)]
            x == IF Bits["Size"] \cap bits # {} THEN 18 + SizeDigits ELSE 0
            y == IF Bits["Size"] \cap filter # {} THEN 18 + 24 ELSE 0
            f == [i \in DOMAIN o.res |-> 35 + 16 + w[i] + v[i] + x]
            g == [i \in DOMAIN o.res |-> 35 + 16 + w[i] + v[i] + y]
<1>1. n \in Nat /\ DOMAIN o.res = 1..n
      /\ \A i \in 1..n : o.res[i].protocol \in Text /\ o.res[i].value \in Text
  <2>1. \A r \in Seq([protocol : Text, value : Text]) :
          /\ Len(r) \in Nat /\ DOMAIN r = 1..Len(r)
          /\ \A i \in 1..Len(r) : r[i] \in [protocol : Text, value : Text]
    BY Elements, Zenon
  <2>2. \A e \in [protocol : Text, value : Text] : e.protocol \in Text /\ e.value \in Text
    OBVIOUS
  <2>. QED  BY <2>1, <2>2, Zenon DEF Sized
<1>2. \A i \in 1..n : w[i] \in Nat /\ v[i] \in Nat
  BY <1>1, WidthIsNat
<1>3. /\ Bits["Res"] \cap bits # {} => Bits["Res"] \cap filter # {}
      /\ Bits["Size"] \cap bits # {} => Bits["Size"] \cap filter # {}
  BY PrintedIsCounted DEF Sized
<1>4. x \in Nat /\ y \in Nat /\ x <= y
  BY <1>3 DEF SizeDigits
<1>5. ResPrinted(o, bits) = IF Bits["Res"] \cap bits = {} THEN 0 ELSE SumTo(f, n)
  <2>1. f = [i \in DOMAIN o.res |-> 35 + 16 + Width(o.res[i].protocol, EscapedLength)
                                      + Width(o.res[i].value, EscapedLength) + x]
    OBVIOUS
  <2>. HIDE DEF f, w, v
  <2>. QED  BY <2>1, EscapedAssumption DEF ResPrinted, ResLength
<1>6. ResCounted(o, filter) = IF Bits["Res"] \cap filter = {} THEN 0 ELSE SumTo(g, n)
  <2>1. g = [i \in DOMAIN o.res |-> 35 + 16 + Width(o.res[i].protocol, EscapedLength)
                                      + Width(o.res[i].value, EscapedLength) + y]
    OBVIOUS
  <2>. HIDE DEF g, w, v
  <2>. QED  BY <2>1 DEF ResCounted, ResLength
<1>. HIDE DEF w, v, x, y
<1>7. \A i \in 1..n : f[i] \in Nat /\ g[i] \in Nat /\ f[i] <= g[i]
  <2>. TAKE i \in 1..n
  <2>. DEFINE a == w[i]
              b == v[i]
  <2>1. f[i] = 35 + 16 + a + b + x /\ g[i] = 35 + 16 + a + b + y
    BY <1>1
  <2>2. a \in Nat /\ b \in Nat
    BY <1>2
  <2>. HIDE DEF a, b, f, g
  <2>. QED  BY <1>4, <2>1, <2>2
<1>. HIDE DEF f, g, n, bits
<1>8. SumTo(f, n) \in Nat /\ SumTo(g, n) \in Nat /\ SumTo(f, n) <= SumTo(g, n)
  BY <1>1, <1>7, SumIsNat, SumIsMonotone
<1>. QED  BY <1>3, <1>5, <1>6, <1>8 DEF bits

(* The strings around title and class leave three bytes at least.          *)
LEMMA HeadFits ==
  ASSUME NEW o, Sized(o), NEW filter
  PROVE  /\ HeadPrinted(o, filter) \in Nat /\ HeadCounted(o, filter) \in Nat
         /\ HeadPrinted(o, filter) <= HeadCounted(o, filter)
<1>. DEFINE id == Width(o.id, EscapedLength)
            parent == Width(o.parent, EscapedLength)
            title == Width(o.title, EscapedLength)
            channel == IF Has(o, "ChannelID", filter)
                       THEN Counted["ChannelID"] + Width(o.texts["ChannelID"], EscapedLength)
                       ELSE 0
            len == o.class.length
            dots == o.class.dots
            flags == (IF Bits["Searchable"] \cap filter # {} THEN 24 + 1 ELSE 0)
            children == (IF Bits["ChildCount"] \cap filter # {} THEN 24 + CountDigits ELSE 0)
<1>1. id \in Nat /\ parent \in Nat /\ title \in Nat
  BY WidthIsNat DEF Sized
<1>2. len \in Nat /\ dots \in 0..4 /\ o.container \in BOOLEAN
  BY DEF Sized
<1>3. channel \in Nat
  <2>1. Has(o, "ChannelID", filter) => Width(o.texts["ChannelID"], EscapedLength) \in Nat
    BY WidthIsNat DEF Has, Sized
  <2>2. Counted["ChannelID"] \in Nat
    BY DEF Counted
  <2>. QED  BY <2>1, <2>2
<1>4. flags \in 0..25 /\ children \in 0..34
  BY DEF CountDigits
<1>5. HeadPrinted(o, filter) =
        id + parent + 35 + title + len + dots + 39
          + (IF o.container THEN 71 + 1 + 10 + 20 + flags + children ELSE 76 + 1 + 15)
  BY EscapedAssumption DEF HeadPrinted, DoubleEscape
<1>6. HeadCounted(o, filter) =
        id + parent + 35 + title + len + 39 + 4 + 1
          + (IF o.container THEN 1 + 10 + 129 + 20 + channel ELSE 76 + 15)
  BY DEF HeadCounted, DoubleEscapeLength
<1>. HIDE DEF id, parent, title, channel, len, dots, flags, children
<1>. QED  BY <1>1, <1>2, <1>3, <1>4, <1>5, <1>6

(* What the first pass adds up has room for what the second one prints and *)
(* its terminator.                                                         *)
LEMMA PassesAgree ==
  ASSUME NEW o, Sized(o), ClockWritten(o), NEW filter, FilterBits(filter), NEW left \in Nat
  PROVE  ~(length(o, filter, left) >= size(o, filter))
<1>. DEFINE bits == printThese(o, filter)
            numbers == Lengths(Requested(NumberFields(o), filter),
                               [f \in DOMAIN Room |-> Counted[f] + Room[f]])
<1>1. /\ HeadPrinted(o, filter) \in Nat /\ HeadCounted(o, filter) \in Nat
      /\ HeadPrinted(o, filter) <= HeadCounted(o, filter)
  BY HeadFits
<1>2. /\ ResPrinted(o, bits) \in Nat /\ ResCounted(o, filter) \in Nat
      /\ ResPrinted(o, bits) <= ResCounted(o, filter)
  BY ResFit
<1>3. /\ TextsLength(o, bits, Printed, EscapedWidth) \in Nat
      /\ TextsLength(o, filter, Counted, EscapedLength) \in Nat
      /\ TextsLength(o, bits, Printed, EscapedWidth)
           <= TextsLength(o, filter, Counted, EscapedLength)
  BY TextsFit
<1>4. /\ NumbersPrinted(o, bits, left) \in Nat /\ numbers \in Nat
      /\ NumbersPrinted(o, bits, left) <= numbers
  BY NumbersFit
<1>5. length(o, filter, left) =
        HeadPrinted(o, filter) + ResPrinted(o, bits)
          + TextsLength(o, bits, Printed, EscapedWidth) + NumbersPrinted(o, bits, left)
  BY DEF length
<1>6. size(o, filter) =
        1 + HeadCounted(o, filter) + ResCounted(o, filter)
          + TextsLength(o, filter, Counted, EscapedLength) + numbers
  BY DEF size
<1>. HIDE DEF bits, numbers
<1>. QED  BY <1>1, <1>2, <1>3, <1>4, <1>5, <1>6

-----------------------------------------------------------------------------
LEMMA TextsOf ==
  /\ \A t, u \in Text : t \o u \in Text
  /\ \A t, u \in Text : u # <<>> => t \o u # <<>>
  /\ <<"plain">> \in Text /\ <<"plain">> # <<>>
  /\ Dash \in Text /\ Dash # <<>>
  /\ <<>> \in Text
  /\ <<"amp", "plain">> \in Text
<1>. DEFINE C == DOMAIN Escaped
<1>1. "plain" \in C /\ "amp" \in C
  BY DEF Escaped
<1>. HIDE DEF C
<1>2. \A t, u \in Seq(C) : t \o u \in Seq(C) /\ (u # <<>> => t \o u # <<>>)
  OBVIOUS
<1>3. <<"plain">> \in Seq(C) /\ <<"plain">> # <<>>
  BY <1>1
<1>4. Dash \in Seq(C) /\ Dash # <<>>
  BY <1>1 DEF Dash
<1>5. <<>> \in Seq(C) /\ <<"amp", "plain">> \in Seq(C)
  BY <1>1
<1>. QED  BY <1>2, <1>3, <1>4, <1>5 DEF Text, C

Programmes == [title : Text, description : Text, time : Time]
Channels == [number : Text, sign : Text, channel : Text, addresses : Nat,
             programme : Programmes]

(* What the sizes of an object depend on.                                  *)
Filled(o, container, len, dots, title, texts, recordable, range, time, res) ==
  /\ o.id = <<"plain">> /\ o.parent = <<"plain">> /\ o.title = title
  /\ o.class.length = len /\ o.class.dots = dots
  /\ o.container = container /\ o.recordable = recordable /\ o.range = range
  /\ o.time = time /\ o.texts = texts /\ o.res = res

(* What the entry of an object needs: a size that can be added up and its  *)
(* three texts.                                                            *)
Describable(o) == Sized(o) /\ <<>> \notin {o.id, o.parent, o.title}

LEMMA FilledIsDescribable ==
  ASSUME NEW o, NEW container \in BOOLEAN, NEW len \in {16, 28, 30, 34},
         NEW dots \in {0, 1, 2}, NEW title \in Text, title # <<>>,
         NEW texts, DOMAIN texts \subseteq TextFields,
         \A f \in DOMAIN texts : texts[f] \in Text,
         NEW recordable \in BOOLEAN, NEW range \in BOOLEAN, NEW time \in Time,
         NEW res \in Seq([protocol : Text, value : Text]),
         Filled(o, container, len, dots, title, texts, recordable, range, time, res)
  PROVE  Describable(o)
<1>1. <<"plain">> \in Text /\ <<"plain">> # <<>>
  BY TextsOf
<1>. QED  BY <1>1 DEF Filled, Sized, Describable

LEMMA JoinedTexts ==
  ASSUME NEW f, NEW g, DOMAIN f \subseteq TextFields, DOMAIN g \subseteq TextFields,
         \A x \in DOMAIN f : f[x] \in Text, \A x \in DOMAIN g : g[x] \in Text
  PROVE  /\ DOMAIN Joined(f, g) \subseteq TextFields
         /\ \A x \in DOMAIN Joined(f, g) : Joined(f, g)[x] \in Text
BY DEF Joined

LEMMA NoTexts == DOMAIN <<>> = {}
OBVIOUS

LEMMA ChannelTextsTyped ==
  ASSUME NEW m \in Channels
  PROVE  /\ DOMAIN ChannelTexts(m) \subseteq TextFields
         /\ \A x \in DOMAIN ChannelTexts(m) : ChannelTexts(m)[x] \in Text
BY DEF ChannelTexts, TextFields, Channels

LEMMA ResourcesTyped ==
  ASSUME NEW m \in Channels
  PROVE  Resources(m) \in Seq([protocol : Text, value : Text])
<1>1. m.addresses \in Nat /\ m.channel \in Text
  BY DEF Channels
<1>. DEFINE value == <<"plain">> \o m.channel \o <<"amp", "plain">>
            e == [protocol |-> <<"plain">>, value |-> value]
            R == [protocol : Text, value : Text]
<1>2. value \in Text /\ <<"plain">> \in Text
  BY <1>1, TextsOf
<1>. HIDE DEF value
<1>3. e \in R
  BY <1>2
<1>4. Resources(m) = [i \in 1..m.addresses |-> e]
  BY DEF Resources, value
<1>. HIDE DEF e, R
<1>5. [i \in 1..m.addresses |-> e] \in Seq(R)
  BY <1>1, <1>3
<1>. QED  BY <1>4, <1>5 DEF R

LEMMA TitlesAreTexts ==
  ASSUME NEW m \in Channels
  PROVE  /\ m.number \o Dash \o m.sign \in Text /\ m.number \o Dash \o m.sign # <<>>
         /\ m.number \o Dash \o m.sign \o Dash \o <<"plain">> \in Text
         /\ m.number \o Dash \o m.sign \o Dash \o <<"plain">> # <<>>
         /\ Shown(m.programme.title) \in Text /\ Shown(m.programme.title) # <<>>
<1>1. m.number \in Text /\ m.sign \in Text /\ m.programme.title \in Text
  BY DEF Channels, Programmes
<1>2. m.number \o Dash \in Text /\ m.number \o Dash # <<>>
  BY <1>1, TextsOf
<1>3. m.number \o Dash \o m.sign \in Text /\ m.number \o Dash \o m.sign # <<>>
  <2>1. \A t, u \in Text : t # <<>> => t \o u # <<>>
    BY DEF Text
  <2>. QED  BY <1>1, <1>2, <2>1, TextsOf
<1>4. m.number \o Dash \o m.sign \o Dash \in Text
  BY <1>3, TextsOf
<1>5. /\ m.number \o Dash \o m.sign \o Dash \o <<"plain">> \in Text
      /\ m.number \o Dash \o m.sign \o Dash \o <<"plain">> # <<>>
  BY <1>4, TextsOf
<1>. QED  BY <1>1, <1>3, <1>5, TextsOf DEF Shown

LEMMA NoProgrammeIsATime == NoProgramme \in Time /\ <<>> \in Seq([protocol : Text, value : Text])
BY DEF NoProgramme, Time

LEMMA ContainersDescribable ==
  ASSUME NEW m \in Channels
  PROVE  /\ Describable(Container) /\ Describable(EpgContainer)
         /\ Describable(GuideContainer(m)) /\ Describable(DayContainer(m))
<1>1. Filled(Container, TRUE, 16, 0, <<"plain">>, <<>>, FALSE, FALSE,
                       NoProgramme, <<>>)
  BY DEF Container, Filled, AllocateObject
<1>2. Filled(EpgContainer, TRUE, 28, 1, <<"plain">>, <<>>, FALSE, FALSE,
                          NoProgramme, <<>>)
  BY DEF EpgContainer, Filled, AllocateObject
<1>3. Filled(GuideContainer(m), TRUE, 28, 1, m.number \o Dash \o m.sign,
                               ChannelTexts(m), FALSE, FALSE, NoProgramme, <<>>)
  BY DEF GuideContainer, EpgContainer, Filled, AllocateObject
<1>4. Filled(DayContainer(m), TRUE, 28, 1,
                             m.number \o Dash \o m.sign \o Dash \o <<"plain">>,
                             ChannelTexts(m), FALSE, TRUE, NoProgramme, <<>>)
  BY DEF DayContainer, GuideContainer, EpgContainer, Filled, AllocateObject
<1>5. Describable(Container) /\ Describable(EpgContainer)
  BY <1>1, <1>2, FilledIsDescribable, TextsOf, NoTexts, NoProgrammeIsATime, Zenon
<1>6. Describable(GuideContainer(m))
  BY <1>3, FilledIsDescribable, TitlesAreTexts, ChannelTextsTyped, NoProgrammeIsATime, Zenon
<1>7. Describable(DayContainer(m))
  BY <1>4, FilledIsDescribable, TitlesAreTexts, ChannelTextsTyped, NoProgrammeIsATime, Zenon
<1>. QED  BY <1>5, <1>6, <1>7

LEMMA ChannelDescribable ==
  ASSUME NEW m \in Channels
  PROVE  Describable(ChannelObject(m))
<1>. DEFINE shown == IF m.programme.time = NoProgramme THEN <<>>
                     ELSE [ProgramID |-> <<"plain">>,
                           LongDescription |-> Shown(m.programme.title)]
            texts == Joined(ChannelTexts(m), shown)
            title == m.number \o Dash \o m.sign
<1>1. Filled(ChannelObject(m), FALSE, 34, 2, title, texts, TRUE, FALSE,
                              m.programme.time, Resources(m))
  BY DEF ChannelObject, Filled, AllocateObject
<1>2. DOMAIN shown \subseteq TextFields /\ \A x \in DOMAIN shown : shown[x] \in Text
  <2>1. CASE m.programme.time = NoProgramme
    BY <2>1, NoTexts
  <2>2. CASE m.programme.time # NoProgramme
    <3>. DEFINE s == Shown(m.programme.title)
    <3>1. s \in Text /\ <<"plain">> \in Text
      BY TitlesAreTexts, TextsOf
    <3>2. shown = [ProgramID |-> <<"plain">>, LongDescription |-> s]
      BY <2>2
    <3>. HIDE DEF s, shown
    <3>. QED  BY <3>1, <3>2 DEF TextFields
  <2>. QED  BY <2>1, <2>2
<1>. HIDE DEF shown
<1>3. DOMAIN texts \subseteq TextFields /\ \A x \in DOMAIN texts : texts[x] \in Text
  BY <1>2, ChannelTextsTyped, JoinedTexts
<1>4. title \in Text /\ title # <<>> /\ m.programme.time \in Time
      /\ Resources(m) \in Seq([protocol : Text, value : Text])
  BY TitlesAreTexts, ResourcesTyped DEF Channels, Programmes
<1>. HIDE DEF texts, title
<1>. QED  BY <1>1, <1>3, <1>4, FilledIsDescribable, Zenon

LEMMA EventDescribable ==
  ASSUME NEW m \in Channels
  PROVE  Describable(EventObject(m))
<1>. DEFINE told == IF m.programme.description = <<>> THEN <<>>
                    ELSE [LongDescription |-> m.programme.description]
            named == [ChannelID |-> m.channel]
            texts == Joined(named, told)
            title == Shown(m.programme.title)
<1>1. Filled(EventObject(m), FALSE, 30, 2, title, texts, FALSE, FALSE,
                            m.programme.time, Resources(m))
  BY DEF EventObject, Filled, AllocateObject
<1>2. m.channel \in Text /\ m.programme.description \in Text
  BY DEF Channels, Programmes
<1>3. DOMAIN told \subseteq TextFields /\ \A x \in DOMAIN told : told[x] \in Text
  <2>1. CASE m.programme.description = <<>>
    BY <2>1, NoTexts
  <2>2. CASE m.programme.description # <<>>
    BY <1>2, <2>2 DEF TextFields
  <2>. QED  BY <2>1, <2>2
<1>4. DOMAIN named \subseteq TextFields /\ \A x \in DOMAIN named : named[x] \in Text
  BY <1>2 DEF TextFields
<1>. HIDE DEF told, named
<1>5. DOMAIN texts \subseteq TextFields /\ \A x \in DOMAIN texts : texts[x] \in Text
  BY <1>3, <1>4, JoinedTexts
<1>6. title \in Text /\ title # <<>> /\ m.programme.time \in Time
      /\ Resources(m) \in Seq([protocol : Text, value : Text])
  BY TitlesAreTexts, ResourcesTyped DEF Channels, Programmes
<1>. HIDE DEF texts, title
<1>. QED  BY <1>1, <1>5, <1>6, FilledIsDescribable, Zenon

(* Every object that GetMetaData makes can be described.                   *)
LEMMA MetaDataDescribable ==
  ASSUME NEW m \in Channels, NEW o \in GetMetaData(m)
  PROVE  Describable(o)
BY ContainersDescribable, ChannelDescribable, EventDescribable DEF GetMetaData

-----------------------------------------------------------------------------
LEMMA EntriesFitInit == Init => EntriesFit
BY DEF Init, NoAnswer, EntriesFit

(* Only the entries of a Browse may be NULL.                               *)
LEMMA RepliesAreNotNull ==
  /\ NoAnswer.kind # "NULL"
  /\ \A code, buffers : Reply(code, buffers).kind # "NULL"
  /\ \A code, msg : Response_Error(code, msg).kind # "NULL"
  /\ \A uri, method, params : ResponseGeneric(uri, method, params).kind # "NULL"
  /\ \A method : AsyncResponse(method).kind # "NULL"
  /\ \A announced, text, language : Page(announced, text, language).kind # "NULL"
  /\ \A argument, request : Illegal(argument, request).kind # "NULL"
  /\ \A request : BrowseError(request).kind # "NULL"
<1>1. NoAnswer.kind # "NULL"
  BY DEF NoAnswer
<1>2. \A code, buffers : Reply(code, buffers).kind # "NULL"
  BY DEF Reply
<1>3. \A code, msg : Response_Error(code, msg).kind # "NULL"
  BY ErrorKind
<1>4. /\ \A uri, method, params : ResponseGeneric(uri, method, params).kind # "NULL"
      /\ \A method : AsyncResponse(method).kind # "NULL"
  BY ResponseKind
<1>5. \A announced, text, language : Page(announced, text, language).kind # "NULL"
  BY PageFields
<1>6. \A argument, request : Illegal(argument, request).kind # "NULL"
  BY IllegalKind
<1>7. \A request : BrowseError(request).kind # "NULL"
  BY BrowseErrorKind
<1>. QED  BY <1>1, <1>2, <1>3, <1>4, <1>5, <1>6, <1>7

LEMMA OtherAnswers ==
  ASSUME EntriesFit, [Next]_vars,
         ~\E m \in Metadata, left \in Garbage : DescribeEntry(m, left)
  PROVE  EntriesFit'
<1>1. SUFFICES answer' = answer \/ answer'.kind # "NULL"
  BY DEF EntriesFit
<1>2. ASSUME NEW hosted \in BOOLEAN, NEW language \in BOOLEAN, GetDescription(hosted, language)
      PROVE  answer'.kind # "NULL"
  <2>1. PICK text \in IF hosted \/ description # -1 THEN {Document} ELSE Garbage :
          answer' = [Page(IF hosted THEN Document ELSE bufferLen, text, language)
                       EXCEPT !.kind = DescriptionKind(hosted)]
    BY <1>2 DEF GetDescription
  <2>2. answer'.kind = DescriptionKind(hosted)
    BY <2>1, PageFields
  <2>. QED  BY <2>2 DEF DescriptionKind
<1>3. ASSUME NEW readable \in BOOLEAN, NEW language \in BOOLEAN, SendXML(readable, language)
      PROVE  answer'.kind # "NULL"
  BY <1>3, RepliesAreNotNull DEF SendXML
<1>4. ASSUME NEW code \in {400, 404}, Refused(code)
      PROVE  answer'.kind # "NULL"
  BY <1>4, RepliesAreNotNull DEF Refused
<1>5. ASSUME ProcessPOST
      PROVE  answer'.kind # "NULL"
  BY <1>5, RepliesAreNotNull DEF ProcessPOST, GetSortCapabilities, GetSearchCapabilities,
     GetSystemUpdateID, GetProtocolInfo, GetCurrentConnectionIDs
<1>6. ASSUME NEW body \in Bodies, NEW number \in Numbers,
             GetCurrentConnectionInfo(body, number)
      PROVE  answer'.kind # "NULL"
  BY <1>6, RepliesAreNotNull DEF GetCurrentConnectionInfo
<1>7. ASSUME NEW request \in Requests, NEW ip \in Interfaces, Browse(request, ip)
      PROVE  answer'.kind # "NULL"
  <2>1. \/ \E code, msg : answer' = Response_Error(code, msg)
        \/ \E argument : answer' = Illegal(argument, request)
        \/ answer' = BrowseError(request)
    BY <1>7 DEF Browse
  <2>. QED  BY <2>1, RepliesAreNotNull
<1>8. ASSUME BrowseDone
      PROVE  answer'.kind # "NULL"
  BY <1>8, RepliesAreNotNull DEF BrowseDone
<1>9. ASSUME NEW list \in AddressLists, UpdateIPAddresses(list)
      PROVE  answer' = answer
  BY <1>9 DEF UpdateIPAddresses
<1>10. ASSUME OtherCallFails
       PROVE  answer' = answer
  BY <1>10 DEF OtherCallFails
<1>11. UNCHANGED vars => answer' = answer
  BY DEF vars
<1>. QED
  BY <1>2, <1>3, <1>4, <1>5, <1>6, <1>7, <1>8, <1>9, <1>10, <1>11 DEF Next

LEMMA DescribedEntriesFit ==
  ASSUME SInv, NEW m \in Metadata, NEW left \in Garbage, DescribeEntry(m, left)
  PROVE  EntriesFit'
<1>. DEFINE n == Len(br.addresses)
            a == [m EXCEPT !.addresses = n]
            filter == GetFilterBitString(br.filter.star, br.filter.names)
<1>1. PICK o \in GetMetaData(a) :
        answer' = [kind |-> GetMediaObjectDidlEscaped(o, filter, left),
                   written |-> o.time.rest > 0 \/ o.time.days = 0]
  BY DEF DescribeEntry
<1>2. n \in Nat
  <2>1. br.addresses \in Seq(Interfaces)
    BY DEF SInv, StateTyped, DescribeEntry
  <2>. QED  BY <2>1
<1>3. a \in Channels
  <2>1. m \in Channels
    BY ControlAssumption DEF Channels, Programmes
  <2>. HIDE DEF n
  <2>. QED  BY <1>2, <2>1 DEF Channels
<1>4. left \in Nat
  BY ControlAssumption
<1>5. FilterBits(filter)
  BY FilterStringBits
<1>. HIDE DEF a, n, filter
<1>6. Describable(o)
  BY <1>1, <1>3, MetaDataDescribable
<1>7. answer'.kind = GetMediaObjectDidlEscaped(o, filter, left)
      /\ answer'.written = ClockWritten(o)
  BY <1>1 DEF ClockWritten
<1>8. ClockWritten(o) => ~(length(o, filter, left) >= size(o, filter))
  BY <1>4, <1>5, <1>6, PassesAgree DEF Describable
<1>9. ClockWritten(o) => GetMediaObjectDidlEscaped(o, filter, left) = "entry"
  BY <1>6, <1>8 DEF GetMediaObjectDidlEscaped, Describable
<1>. QED  BY <1>7, <1>9 DEF EntriesFit

(* No entry of a Browse is dropped for want of room, whatever the texts,   *)
(* the programme, the addresses and the filter: what the first pass adds   *)
(* up is more than what the second one prints, unless the programme lasts  *)
(* whole days (CdsToDidl_GetMediaObjectDidlEscaped).                       *)
THEOREM EntriesHaveRoom == Spec => []EntriesFit
<1>1. SInv /\ EntriesFit /\ [Next]_vars => EntriesFit'
  BY OtherAnswers, DescribedEntriesFit
<1>2. Spec => []SInv
  BY SoundInit, SoundNext, PTL DEF Spec
<1>. QED  BY EntriesFitInit, <1>1, <1>2, PTL DEF Spec
=============================================================================
