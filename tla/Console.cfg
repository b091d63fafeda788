SPECIFICATION Spec
CONSTANTS
    CONSBUFSIZE = 3
    BUFLEN = 4
    CRT_COLS = 2
    CRT_SIZE = 6
    SerialBytes = {"no", "a", "del", "cr"}
    PlainKeys = {"a", "lshift", "caps", "backspace"}
    E0Keys = {"ctl", "alt", "del"}
    KBDBUF = 2
    MAXINPUT = 4
    MAXBOOT = 1
INVARIANTS
    ConsoleInv
    RingKeepsOrder
    EchoShowsLine
PROPERTIES
    InputIsRead
CHECK_DEADLOCK FALSE
