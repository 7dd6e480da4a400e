CONSTANTS
  MaxLabel = 3
  MaxName = 5
  MaxText = 4
  Clients = {c1}
  MaxEpoch = 1
  RateHosts = {"h1", "h2", "h3"}
  GlobalRequests = 3
  PerHostRequests = 2
  Window = 2
  MaxTrackedHosts = 2
  MaxTime = 2
  MaxSkew = 1
  MaxInterim = 2
  HeaderBudget = 8
  MaxBody = 3
  MaxTrailers = 1
  MaxAliasSteps = 2
  MaxEndpoints = 2
  MaxAlpn = 2
  MaxParameters = 5
  MaxTlsa = 2
  MaxCname = 2
  MaxTreeHeight = 75
  MAX_UNSUPPORTED_EVIDENCE = 1
  PrivateIps = {"private"}
  BlockedPorts = {"22"}
  Varint1 = 1
  Varint2 = 3
  Varint4 = 4
  Prefix2 = 2
  Prefix4 = 3
  Prefix8 = 4
  MAX_ADDR = 1
  MAX_HEADERS = 2
  MAX_INV = 2
  MAX_AGENT_LEN = 1
  MAX_DNS_RELAY_QUERY_SIZE = 2
  LastStatus = 3
  Magic = 7
  MAX_MESSAGE = 9
  MaxQuerySize = 4
  MaxResponseSize = 6
  MinEdnsSize = 2
  WireFields = {0, 1, 2, 3, 4}
  MaxWire = 5
  MaxId = 2
  MaxPayload = 2
  MaxDns = 2
  Wrap = 16
  MaxClock = 4
  max_cname_hops = 2
  Requests = {r1}
  MaxOctets = 5
  MaxZeros = 9
SPECIFICATION Spec
INVARIANTS
  RequestsAreAdmitted
  MessagesAgree
  DecisionsAreTrue
  EvidenceHolds
CHECK_DEADLOCK FALSE
