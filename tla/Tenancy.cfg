SPECIFICATION Spec
CONSTANTS
    acme = acme
    globex = globex
    rpc = rpc
    other = other
    job = job
    k1 = k1
    k2 = k2
    k3 = k3
    k4 = k4
    Request <- MCRequest
    RoleOf <- MCRoles
    CallerOf <- MCCallers
    Nobody = Nobody
    Session = {s1, s2}
    Call <- MCCall
    MaxRetries = 1
    Stampable = {"sysuser", "unspecified"}
    Propagated = {"role", "claims"}
INVARIANTS RunsForItsRequest RunsAsItsProcedure IdleIsClean NoneUnmanaged
SYMMETRY MCSymmetry
