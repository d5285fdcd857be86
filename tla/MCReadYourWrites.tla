-------------------------- MODULE MCReadYourWrites --------------------------
(* Two writes and a read of one client, and two servers whose clocks may   *)
(* differ by a tick.                                                       *)
EXTENDS ReadYourWrites, TLC

CONSTANTS w1, w2, r1, a, b

MCRequest == {w1, w2, r1}
MCWriting == {w1, w2}
MCServer == {a, b}
MCSkew == (a :> 0) @@ (b :> 1)
=============================================================================
