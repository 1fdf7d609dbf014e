SPECIFICATION MCSpec
CONSTANTS
    Tasks = {1, 2, 3}
    Length = 2
    Items = {1, 2}
    Idle = Idle
    CallsOf <- MCCallsOf
    IsrSends <- MCIsrSends
    high = high
    upper = upper
    lower = lower
    low = low
    Threads = {high, upper, lower, low}
    Mutexes = {1, 2}
    Priority <- MCPriority
    Nobody = Nobody
INVARIANTS QTypeOK NoLostWakeup MTypeOK HolderOutranksWaiters BoostEnds FreeIsOffered
PROPERTIES ImplementsFifo MessageReachesWaiter TimedSendReturns
