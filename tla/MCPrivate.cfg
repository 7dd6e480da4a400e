SPECIFICATION Spec
CONSTANTS
  Records <- MCRecords
  RouteRecords <- MCRouteRecords
  RouteBatches <- MCRouteBatches
  Proxies = {"p1", "p2"}
  NoPeer = "none"
  MaxCached = 1
  MaxTime = 2
  MaxGeneration = 3
  MaxRequests = 1
  MaxSessions = 2
  MaxSaves = 2
  Services = {"w"}
  MaxEndpoints = 1
  MaxResource = 4
  MaxClock = 1
  MaxRouteSessions = 2
  MaxOpened = 2
  Labels = {"c1", "c2"}
  MaxTrusted = 1
  MaxRoleGeneration = 3
  MaxRelaySessions = 2
  MaxExports = 2
  Brokers = {"b1", "b2"}
  Subjects = {"s1", "s2"}
  Requester = "r"
  MaximumLiveSubjects = 1
  MaxRevision = 2
  MaxNow = 2
  MaxJobs = 2
INVARIANTS
  PrivateStateIsCurrent
  OpenedOnlyAdvance
  GrantsOutliveNothing
CHECK_DEADLOCK FALSE
