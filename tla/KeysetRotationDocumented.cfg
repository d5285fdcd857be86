SPECIFICATION RotationSpec
CONSTANTS
    k1 = k1
    k2 = k2
    a = a
    b = b
    c = c
    acct = acct
    w1 = w1
    w2 = w2
    w3 = w3
    ui = ui
    Key <- MCKey
    NoKey = NoKey
    Label <- MCLabel
    Worker <- MCWorker
    Server = ui
    Home <- MCHome
    Enabled <- MCEnabled
    Allowed <- MCAllowed
    Account = acct
    FirstKey = k1
    Procedure = "documented"
INVARIANT EveryProcessReads
