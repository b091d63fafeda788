SPECIFICATION Spec
CONSTANTS
    CPU = {c0, c1, c2}
    BSP = c0
    NENV = 2
    NINIT = 1
    MAXGEN = 2
    NULL = NULL
    Calls = {"yield", "fault", "breakpoint", "destroy", "exofork", "set_status", "ipc_recv", "ipc_send", "kbd"}
    Careless = {"ipc_send"}
INVARIANTS
    AtMostOneCpu
    PgdirLive
    KernelInv
PROPERTIES
    ZombieFreedByOwner
    SlotReusedWhenIdle
    PanicFreezes
    LockPaired
