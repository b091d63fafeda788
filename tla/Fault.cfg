SPECIFICATION Spec
CONSTANTS
    PGWORDS = 48
    USTACK = 3
    MAXFAULT = 4
    MAXLOCAL = 3
INVARIANTS
    FaultInv
PROPERTIES
    RestoresTrapTimeState
CHECK_DEADLOCK FALSE
