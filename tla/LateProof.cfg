SPECIFICATION LateProofSpec
CONSTANTS
    g = g
    a1 = a1
    a2 = a2
    b1 = b1
    b2 = b2
    c2 = c2
    bad = bad
    None = None
    Hash = {g, a1, a2, b1, b2, c2, bad}
    Acceptable = {g, a1, a2, b1, b2, c2}
    Genesis = g
    Prev <- MCPrev
    Work <- MCWork
    Batch <- MCBatch
    MaxGeneration = 1
    p1 = p1
    p2 = p2
    p3 = p3
    Nil = Nil
    Peer = {p1, p2, p3}
    Allowed = {p1, p2}
    Group <- MCGroup
    Config <- MCConfig
    Checkpoint = {1, 2}
    MaxHeight = 2
    Claim = {1, 3}
    Time = {0, 1}
    BanSeconds = 1
    Name = {p1, p2}
    Root = {1, 2}
    Present <- MCPresent
INVARIANT
    StoredAnswersItsRequest
CHECK_DEADLOCK FALSE
