SPECIFICATION FairSpec
CONSTANTS
    Env = {e1, e2, e3}
    Root = e1
    NPAGE = 7
    OTHERS = 3
    Value = {0, 1}
    None = None
INVARIANTS
    ForkInv
    TlbCoherent
PROPERTIES
    ForkIsolates
    ForkReturns
CHECK_DEADLOCK FALSE
