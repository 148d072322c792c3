CONSTANTS
    MaxLayer = 3
    MaxFrame = 4
    MinFrames = 2
    MaxRestarts = 0
    Worlds <- MCSlow
SPECIFICATION Spec
INVARIANT OverlayFits
