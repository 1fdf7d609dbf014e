SPECIFICATION MCSpec
CONSTANTS
    kv = kv
    log = log
    Writers <- MCWriters
    Updater = updater
    Savers = {wpas}
    Stray = {"all"}
    Free = free
    Pages = 2
    sketch = sketch
    other = other
    Tasks <- MCTasks
    None = none
    N = 3
    MaxBytes = 6
    Letters = {"a", "b"}
    Searches <- MCSearches
    Kept = 5
    Timers = {0, 1, 4}
    TimerUsers <- MCTasks
    SoftTimers = {"periodic", "oneshot"}
    AutoReload = {"periodic"}
    Periods = {1, 2}
    Delays = {2}
    Wrap = 4
    Lag = 1
    QueueLength = 2
    NoTimer = none
SYMMETRY Symmetric
INVARIANTS
    FlashTypeOK
    UpdateLands
    OnlySetProtectLoses
    TypeOK
    CountNotAhead
    ReadsOldest
    RingHoldsUnread
    LongestMatchKept
    FirstTargetFound
    RunsAsAsked
    NeverEarly
    NeverSleepsPast
PROPERTIES
    NoExpiryLost
