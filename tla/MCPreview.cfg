CONSTANTS
    Titles = {"cube", "vase"}
    Stores <- MCStores
    Plates = {1, 2}
SPECIFICATION FairSpec
INVARIANTS
    TypeOK
    InStep
    OnlyFaultsFail
    RightRender
PROPERTY Ends
