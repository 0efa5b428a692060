SPECIFICATION Spec
CONSTANTS
  eth = eth
  wlan = wlan
  lo = lo
  Interfaces <- MCInterfaces
  Loopback = lo
  AddressLists <- MCAddressLists
  Numbers <- MCNumbers
  ULongMax = 15
  UIntMax = 3
  Filters <- MCFilters
  Requests <- MCRequests
  Metadata <- MCMetadata
  Document = 7
  Garbage = {0, 40}
INVARIANTS TypeOK LegalRefusedOnlyOverrun HostedDescription EntriesFit AnswersFit NoAddressLost
