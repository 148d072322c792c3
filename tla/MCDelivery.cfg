CONSTANTS
    j1 = j1
    j2 = j2
    Jobs <- MCJobs
    uploadAttempts = 3
    Modes = {"post", "local", "once"}
    MaxRestarts = 2
    MaxStuck = 1
SPECIFICATION FairSpec
INVARIANTS
    TypeOK
    NoNeedlessCopy
    NeverLost
    SeparateHands
PROPERTIES
    RefusedRests
    Finishes
    Stops
