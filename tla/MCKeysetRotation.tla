-------------------------- MODULE MCKeysetRotation --------------------------
(* Workers of two namespaces that share their keyset, one of a third that  *)
(* does not encrypt, and a codec server allowed to serve the first.        *)
EXTENDS KeysetRotation

CONSTANTS k1, k2, a, b, c, acct, w1, w2, w3, ui

MCKey == {k1, k2}
MCLabel == {a, b, c, acct}
MCWorker == {w1, w2, w3}
MCHome == [p \in MCWorker |-> CASE p = w1 -> <<a>> [] p = w2 -> <<b>> [] OTHER -> <<c>>]
MCEnabled == {w1, w2, ui}
MCAllowed == {<<a>>}
=============================================================================
