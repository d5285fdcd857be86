SPECIFICATION Spec
CONSTANTS
    c1 = c1
    c2 = c2
    nested = nested
    x = x
    y = y
    Caller <- MCPair
    Row <- MCRow
    Work <- MCPairWork
    Parent <- MCPairParent
    MaxRetries = 1
    PoolSize = 2
    SelfConcluding <- MCNoCaller
    Heedless <- MCHeedless
    HookMayPanic = TRUE
    MaxFaults = 3
INVARIANTS TypeOK ReplyIsTrue NoLostUpdate NoTxOutlivesItsCall
PROPERTY AtomicWorkSpec
SYMMETRY MCRowSymmetry
