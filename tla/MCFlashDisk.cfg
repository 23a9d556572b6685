CONSTANTS
    Pages = 2
    Sectors = 5
    Val = {v1, v2}
    NULL = NULL
    MaxFaults = 1
    HostSector = {0, 1}
SYMMETRY Symmetry
SPECIFICATION Spec
INVARIANTS
    Stored
    WindowFresh
PROPERTY
    OneFatLeft
