CONSTANTS
    t1 = t1
    t2 = t2
    t3 = t3
    NoTask = NoTask
    Tasks <- MCSingle
    Unnamed <- MCNone
    Coherent = TRUE
    ListFails = FALSE
    MaxRestarts = 1
    MaxPauses = 0
SPECIFICATION Spec
INVARIANT VerdictHonest
