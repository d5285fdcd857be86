SPECIFICATION Spec
CONSTANTS
    k1 = k1
    k2 = k2
    o1 = o1
    o2 = o2
    alice = alice
    bob = bob
    read = read
    write = write
    list = list
    IdpKey <- MCIdpKey
    OwnKey <- MCOwnKey
    User <- MCUser
    Method <- MCMethod
    Unannotated <- MCUnannotated
    ByScope <- MCByScope
    ByPermission <- MCByPermission
    Anonymous <- MCAnonymous
    Lifetime = 3
    Horizon = 4
    MaxCredentials = 1
    MaxMisses = 1
INVARIANTS RunsAsGranted WithdrawnKeysExpire RotationLocksNobodyOut OwnCredentialsLast
