SPECIFICATION Spec
CONSTANTS
    CPU = {c1, c2, c3, c4}
    NULL = NULL
INVARIANTS
    MutualExclusion
    NoFalsePanic
PROPERTIES
    ImplementsMutex
