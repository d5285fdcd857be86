----------------------------- MODULE MCTenancy -----------------------------
(* RPCs of two callers, one as webuser and one as sysuser, and a job in    *)
(* the background that has neither role nor token.  The calls they are     *)
(* served by are interchangeable.                                          *)
EXTENDS Tenancy, TLC

CONSTANTS acme, globex, rpc, other, job, k1, k2, k3, k4

MCCall == {k1, k2, k3, k4}
MCSymmetry == Permutations(MCCall)

MCRequest == {rpc, other, job}
MCRoles == (rpc :> "webuser") @@ (other :> "sysuser") @@ (job :> "none")
MCCallers == (rpc :> acme) @@ (other :> globex) @@ (job :> Nobody)
=============================================================================
