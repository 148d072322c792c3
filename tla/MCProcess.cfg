CONSTANTS
    reportStaleAfter = 2
    MaxDrops = 2
    Limits = {0, 3}
    MinFrames = 2
    MaxFrames = 4
    messagesToSee = 2
SPECIFICATION FairSpec
INVARIANTS
    TypeOK
    NoneAbandoned
PROPERTIES
    DeafIsUnhealthy
    HealthReturns
    Stops
