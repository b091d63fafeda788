SPECIFICATION Spec
CONSTANTS
    Env = {e1, e2}
    Page = {p1, p2, p3, p4, p5}
    NIDX = 2
    REFMOD = 16
    NULL = NULL
INVARIANTS
    PmapInv
    TablesUnshared
PROPERTIES
    ReadOnlyStays
    ErrorsChangeNothing
SYMMETRY Symmetry
