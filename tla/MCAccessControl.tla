--------------------------- MODULE MCAccessControl ---------------------------
(* A provider that rotates from one key to another, a service with one of  *)
(* two keys of its own or both, a user with a scope and one with a         *)
(* permission, and a procedure each, an open one and an unannotated one.   *)
EXTENDS AccessControl, TLC

CONSTANTS k1, k2, o1, o2, alice, bob, read, write, list

MCIdpKey == {k1, k2}
MCOwnKey == {o1, o2}
MCUser == {alice, bob}
MCMethod == {read, write, list}
MCUnannotated == {list}
MCByScope == (alice :> {read}) @@ (bob :> {})
MCByPermission == (alice :> {}) @@ (bob :> {write})
MCAnonymous == {list}
=============================================================================
