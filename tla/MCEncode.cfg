CONSTANTS
    Builds <- ConcatBuilds
    FPS = 2
    MaxFrames = 5
    MaxHold = 2
SPECIFICATION Spec
INVARIANTS
    TypeOK
    FootageSurvives
    DurationHonest
