CONSTANTS
    Builds <- AnyBuild
    FPS = 2
    MaxFrames = 5
    MaxHold = 2
SPECIFICATION Spec
INVARIANT FootageSurvives
