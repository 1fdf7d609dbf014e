SPECIFICATION WSpec
CONSTANTS
    SoftTimers = {"periodic", "oneshot"}
    AutoReload = {"periodic"}
    Periods = {1, 2}
    Delays = {2}
    Wrap = 4
    Lag = 1
    QueueLength = 2
    NoTimer = none
INVARIANTS
    StoppedStays
