SPECIFICATION FairSpec
CONSTANTS
    Env = {e1, e2, e3}
    Value = {1}
    Writers = {e1, e2}
    Hub = e1
    Takers = {e1, e2}
    Asked = {{"U", "W"}, {"U", "stray"}}
    None = None
INVARIANTS
    IpcInv
PROPERTIES
    DeliversOnce
    NoRightGained
    FailedSendHarmless
    WaitingIsServed
CHECK_DEADLOCK FALSE
