SPECIFICATION Spec
CONSTANTS
    PT = 32
    PHYSMAP = 64
    NCPU = 3
    Machines = {11, 40, 64}
    MPENTRY = 2
    IOPHYSMEM = 4
    EXTPHYSMEM = 6
    KEND = 8
    PERPAGE = 16
    ENVPAGES = 1
    MAXENTRY = 4
    None = None
INVARIANTS
    BootInv
    OwnStack
    WindowsDisjoint
PROPERTIES
    BootCompletes
CHECK_DEADLOCK FALSE
