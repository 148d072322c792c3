CONSTANTS
    t1 = t1
    t2 = t2
    t3 = t3
    NoTask = NoTask
    Tasks <- MCThree
    Unnamed <- MCOne
    Coherent = TRUE
    ListFails = TRUE
    MaxRestarts = 2
    MaxPauses = 1
SPECIFICATION Spec
SYMMETRY Symmetry
INVARIANTS
    TypeOK
    OneOwner
    CurrentOnDisk
    OwnFrames
PROPERTY KeepsPromise
