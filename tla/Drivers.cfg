SPECIFICATION MCSpec
CONSTANTS
    Callers = {a, b}
    MaxCalls = 2
    MaxTries = 1
    MaxCount = 3
    Reports = {"SCANNING", "NO_AP_FOUND", "BEACON_LOSE"}
INVARIANTS STypeOK OwnScanEnded MisuseNeedsTrouble HandleHasOwner
           IpFlagTruth
PROPERTIES ScanReturns SteadyStatusTold
CHECK_DEADLOCK FALSE
