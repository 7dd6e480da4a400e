SPECIFICATION MCSpec
CONSTANTS
    MaxGeneration = 3
    MaxGateways = 2
    AttemptTimeout = 1
    MaxNow = 4
    MaxTime = 5
    UserConfig <- MCConfig
    a = a
    b = b
    Failure = {"Unreachable", "Truncated", "AuthenticationFailed"}
    Response <- MCResponse
    Absent = Absent
    BadIdentity = BadIdentity
    External = {e1, e2}
    Workers = {w1, w2}
    MaxActive = 1
    Hosts = {h1, h2}
    MaxIdentities = 1
    MaxStops = 2
    Deadline = 6
    PollInterval = 2
    ConnectTimeout = 3
    MaxIo = 3
INVARIANTS
    NoDowngrade
    SelectionIsSound
    ProxyStopsCleanly
PROPERTIES
    EverythingEnds
CHECK_DEADLOCK FALSE
