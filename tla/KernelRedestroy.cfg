SPECIFICATION Spec
CONSTANTS
    CPU = {c0, c1}
    BSP = c0
    NENV = 2
    NINIT = 1
    MAXGEN = 1
    NULL = NULL
    Calls = {"destroy", "exofork", "set_status"}
    Careless = {"destroy"}
PROPERTIES
    ZombieFreedByOwner
