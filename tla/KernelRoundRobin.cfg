SPECIFICATION FairSpec
CONSTANTS
    CPU = {c0, c1}
    BSP = c0
    NENV = 4
    NINIT = 4
    MAXGEN = 1
    NULL = NULL
    Calls = {"yield", "ipc_recv", "ipc_send"}
    Careless = {}
PROPERTIES
    RunnableRuns
