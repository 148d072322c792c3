CONSTANTS
    MaxLayer = 4
    MaxFrame = 6
    MinFrames = 2
    MaxRestarts = 2
    Worlds <- MCWorlds
SPECIFICATION FairSpec
INVARIANTS
    TypeOK
    CountedFramesWhole
    LayersTell
    CaptionHonest
    VideoMatches
    OnePerLayer
    DrainedOverlayFits
PROPERTIES
    KeepsFootage
    Settles
