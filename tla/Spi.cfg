SPECIFICATION BSpec
CONSTANTS
    Users = {a, b}
    Kinds = {"duplex", "long", "init", "deinit", "flag"}
    MaxPacks = 2
    MaxInits = 2
    NoUser = none
INVARIANTS OneTransfer HalfDuplexUnderSelect LockHasOwner
PROPERTIES CallsReturn
CHECK_DEADLOCK FALSE
