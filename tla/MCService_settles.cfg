CONSTANTS
    t1 = t1
    t2 = t2
    t3 = t3
    NoTask = NoTask
    Tasks <- MCTwo
    Unnamed <- MCNone
    Coherent = FALSE
    ListFails = FALSE
    MaxRestarts = 1
    MaxPauses = 0
SPECIFICATION FairSpec
PROPERTIES
    FinalizesOnlyEnded
    Settles
