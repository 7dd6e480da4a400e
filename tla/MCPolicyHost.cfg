SPECIFICATION MCSpec
CONSTANTS
    MaxGeneration = 4
    MaxSaves = 1
    MaxUpdates = 2
    FoundBlob <- MCFoundBlob
    UserConfig <- MCUserConfig
    Thread = {one, two}
    Version1 = {one}
    MaxEngines = 2
    Session = {s1, s2}
    MaxCounter = 12
    MaxHeld = 2
SYMMETRY Interchangeable
INVARIANTS
    SettledHostObeysPolicy
    CallsAreSound
    StampsBehindClock
    RecoveryClimbsLadder
PROPERTY
    LedgerSpec
CHECK_DEADLOCK FALSE
