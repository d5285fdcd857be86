--------------------------- MODULE MCRiverWorker ---------------------------
(* A job whose handler does not heed its context, and a periodic one with  *)
(* a shorter timeout and a single attempt, on one connection.              *)
EXTENDS RiverWorker, TLC

CONSTANTS mail, beat, x

MCJob == {mail, beat}
MCConn == {x}
MCPeriodic == {beat}
MCMayBeInvalid == MCJob
MCHeedless == {mail}
MCTimeout == (mail :> 2) @@ (beat :> 1)
MCAttempts == [j \in MCJob |-> IF j = mail THEN 2 ELSE 1]
=============================================================================
