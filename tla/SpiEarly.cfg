SPECIFICATION BSpec
CONSTANTS
    Users = {a}
    Kinds = {"send", "duplex", "init"}
    MaxPacks = 2
    MaxInits = 1
    NoUser = none
INVARIANTS DataUnderSelect
CHECK_DEADLOCK FALSE
