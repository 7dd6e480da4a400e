SPECIFICATION Spec
CONSTANTS
    Parts = {"call"}
    Key = {"k1", "k2", "k3"}
    Value = {"v1", "v2"}
    Generation = {"g1", "g2"}
    Ttl = {1, 2}
    MaxEntries = 2
    MaxTotalValueBytes = 3
    MaxValueBytes = 2
    MaxPositiveTtl = 2
    MaxNegativeTtl = 1
    CacheMaxNow = 1
    CacheMaxTime = 2
    MaxSequence = 4
    NoEntry = NoEntry
    LruTtl = {0, 1, 2}
    LruMaxNow = 3
    MaxUses = 4
    MaxCnameChain = 2
    Name = {1, 2, 3}
    Anchor = {1, 2}
    Size = {1, 2}
    Limit = {0, 1, 2, 3}
    TableMaxNow = 2
    Caller = {c1, c2}
    AnswerTtl = {0, 2}
    MaxFlight = 2
    AnswerMaxNow = 8
    Peer = {"p1", "p2", "p3"}
    Reliable = {"p1", "p3"}
    ProofPeer = "p2"
    Query = {"q1", "q2"}
    MaxConnections = 2
    AlternateRetries = 1
    HandshakeBudget = 2
    MaxPackets = 1
    Cooldown = 1
    Ban = 2
    MaxCalls = 2
    MaxQueue = 1
    RelayMaxTime = 2
INVARIANT NoFailureIsErased
CHECK_DEADLOCK FALSE
