SPECIFICATION MCSpec
CONSTANTS
    s1 = s1
    s2 = s2
    x = x
    y = y
    net = net
    other_net = other_net
    Regimes = {"hns", "icann", "lifetimes", "together", "alone", "handshakes", "dialing"}
    Platforms = {"mobile", "chromium"}
    MaxFetches = 2
    MaxOpens = 3
    Session = {s1, s2}
    MaxCounter = 14
    MaxGeneration = 2
    Decision <- MCDecision
    Evidence <- MCEvidence
    Transport = {"HandshakeP2pDnsRelay"}
    UserConfig <- MCUserConfig
    Time = {0, 1, 2, 3}
    EngineNetwork = net
    None = None
INVARIANTS
    EvidenceIsCurrent
    CompletionFromThisEpoch
    AuthorityFromThisEpoch
    AuthorityWithinEvidence
    ConnectionsAreSound
PROPERTY
    GenerationsInLockstep
CHECK_DEADLOCK FALSE
