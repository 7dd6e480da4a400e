SPECIFICATION MCSpec
CONSTANTS
    Peer = {p1, p2, p3}
    Header = {"a", "b"}
    MaxInFlight = 1
    Block <- Fork
    Chainwork <- ForkWork
    AdvertisedHeight = {0, 1}
    BadBatch = BadBatch
    MaxPeers = 3
    MinimumPeerAgreement = 2
    MaxPeerFailures = 1
    MaxGeneration = 3
    MaxCrashes = 1
    None = None
    TargetWindow = 1
    RequiredHistory = 4
    MedianSpan = 3
    LinearLocator = 2
    MaxBatch = 2
    MaxTime = 4
    MaxHeight = 6
    MaxSaves = 2
    HandshakeTimeout = 1
    RequestTimeout = 1
    MaxPendingFrames = 2
    Tags = {1, 2}
    MaxClock = 3
    MaxAsked = 2
    MaxFlagBytes = 2
    MaxTransactions = 4
    FlagBits = 6
    MaxLabel = 2
    MaxLabels = 2
    MaxJumps = 1
    MaxNameBytes = 5
    PointerTop = 192
    Reserved = 64
    Transactions <- MCTransactions
    MaxTotal = 4
    MaxHashes = 3
    MaxResource = 5
INVARIANTS
    RoundMatchesChain
    TipWasAgreed
    CurrentMeansNoExtension
    LightEvidenceHolds
SYMMETRY Peers
CHECK_DEADLOCK FALSE
