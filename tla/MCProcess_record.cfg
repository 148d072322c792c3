CONSTANTS
    reportStaleAfter = 2
    MaxDrops = 1
    Limits = {0, 3}
    MinFrames = 2
    MaxFrames = 4
    messagesToSee = 2
SPECIFICATION Spec
INVARIANT RecordIsLocal
