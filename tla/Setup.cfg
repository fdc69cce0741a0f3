SPECIFICATION SetupSpec
CONSTANTS
    Bridges = {b1, b2}
    Slot = slot
    Texts = {t1, t2}
    MaxVersion = 3
    MayDowngrade = FALSE
SYMMETRY Symmetry
INVARIANTS UsersTextIsKept AliasHasWasm
PROPERTIES UninstallClears EndsWhole
