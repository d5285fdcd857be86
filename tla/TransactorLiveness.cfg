SPECIFICATION FairSpec
CONSTANTS
    c1 = c1
    c2 = c2
    nested = nested
    x = x
    y = y
    Caller <- MCCaller
    Row <- MCRow
    Work <- MCWork
    Parent <- MCParent
    MaxRetries = 1
    PoolSize = 2
    SelfConcluding <- MCConcluding
    Heedless <- MCHeedless
    HookMayPanic = FALSE
    MaxFaults = 1
PROPERTY EveryCallReturns
