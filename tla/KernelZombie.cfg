SPECIFICATION FairSpec
CONSTANTS
    CPU = {c0, c1, c2}
    BSP = c0
    NENV = 2
    NINIT = 1
    MAXGEN = 1
    NULL = NULL
    Calls = {"yield", "destroy", "exofork", "set_status"}
    Careless = {}
PROPERTIES
    ZombieReaped
