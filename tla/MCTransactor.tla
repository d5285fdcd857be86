---------------------------- MODULE MCTransactor ----------------------------
(* Two calls that increment the same rows, alone or with a call that the   *)
(* handler of the first makes with the context it was given.  The handler  *)
(* of the first may swallow the refusal of the plan-cost gate.             *)
EXTENDS Transactor, TLC

CONSTANTS c1, c2, nested, x, y

MCRow == {x, y}
MCNoCaller == {}

MCPair == {c1, c2}
MCPairWork == [c \in MCPair |-> MCRow]
MCPairParent == [c \in MCPair |-> c]
MCRowSymmetry == Permutations(MCRow)

MCHeedless == {c1}

MCConcluding == {c2}

MCCaller == {c1, c2, nested}
MCWork == [c \in MCCaller |-> MCRow]
MCParent == (c1 :> c1) @@ (c2 :> c2) @@ (nested :> c1)
=============================================================================
