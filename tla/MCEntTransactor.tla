-------------------------- MODULE MCEntTransactor --------------------------
(* A call with a deadline whose handler calls Transact1 again, and a call  *)
(* on the same rows whose handler may commit by itself.                    *)
EXTENDS EntTransactor, TLC

CONSTANTS outer, inner, other, x, y

MCCaller == {outer, inner, other}
MCRow == {x, y}
MCWork == (outer :> {x}) @@ (inner :> {y}) @@ (other :> MCRow)
MCOwner == (outer :> outer) @@ (inner :> outer) @@ (other :> other)
MCDeadline == (outer :> 2) @@ (inner :> 2) @@ (other :> 0)
MCConcluding == {other}
=============================================================================
