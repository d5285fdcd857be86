SPECIFICATION Spec
CONSTANTS
    outer = outer
    inner = inner
    other = other
    x = x
    y = y
    Caller <- MCCaller
    Row <- MCRow
    Work <- MCWork
    Owner <- MCOwner
    Deadline <- MCDeadline
    TimeoutExtension = 1
    MaxRetries = 1
    SelfConcluding <- MCConcluding
    Horizon = 4
    MaxFaults = 1
INVARIANTS ReplyIsTrue NestedSharesFate NoLostUpdate NoTxOutlivesItsCall ServerOutwaitsClient
