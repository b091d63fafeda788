SPECIFICATION Spec
CONSTANTS
    WORD = 2
    UINT = 256
    PRINTBUF = 4
    ADDR = 32
    PGSIZE = 8
    ULIM = 24
    USTACKTOP = 24
    SECTSIZE = 4
    MAXARGS = 3
    MEMORY = 8
    MAXNUM = 40
    MAXTEXT = 8
INVARIANTS
    PrintfRight
    BytesInPlace
    UserMemCheckExact
    ImagesLoaded
    SearchFindsStab
CHECK_DEADLOCK FALSE
