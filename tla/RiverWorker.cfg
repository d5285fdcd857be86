SPECIFICATION FairSpec
CONSTANTS
    mail = mail
    beat = beat
    x = x
    Job <- MCJob
    Conn <- MCConn
    Periodic <- MCPeriodic
    MayBeInvalid <- MCMayBeInvalid
    Heedless <- MCHeedless
    Timeout <- MCTimeout
    MaxAttempts <- MCAttempts
    MaxFaults = 2
INVARIANTS WorkedExactlyWhenCompleted EnqueuedWithItsTransaction LimitedInTime StoppedMeansIdle
PROPERTY StopReturns
