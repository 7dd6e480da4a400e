SPECIFICATION MCSpec
CONSTANTS
    None = None
    Origin = {o1, o2, o3}
    Scope = {o1, o2, o3}
    Window <- MCWindow
    MaxInstances = 2
    MaxEpoch = 1
    MaxConnects = 2
    MaxCounter = 4
    MaxAuthorities = 1
    MaxNow = 2
    MaxTime = 5
    MaxPending = 1
    PendingLifetime = 2
    MaxPublications = 2
    PublicationLifetime = 2
    GrantLifetime = 2
INVARIANTS
    ReclaimedIsDead
    GrantsAreSound
    TunnelsAreCurrent
PROPERTY
    HandlesStayDead
SYMMETRY Origins
CHECK_DEADLOCK FALSE
