------------------------------ MODULE Procedures ------------------------------
(***************************************************************************)
(* The db_role annotation of the RPC procedures that are linked into a     *)
(* program: what stdcrpcenttenancyfx makes of it when the program starts,  *)
(* and what its interceptor makes of it at every call.                     *)
(***************************************************************************)

(* "own": of the proto package that declares the extension.                *)
Package == {"own", "other"}

Annotation == {"absent", "DB_ROLE_UNSPECIFIED", "DB_ROLE_ANONYMOUS",
               "DB_ROLE_WEBUSER", "DB_ROLE_SYSUSER", "unknown"}

Procedure == [package : Package, db_role : Annotation]

NoProcedure == [package |-> "none", db_role |-> "absent"]

(* What RequiredDatabaseRole answers, an error among them.                 *)
Postures == {"anonymous", "webuser", "sysuser"}
Undeclared == "error"

(* lookupMethodDescriptor: of what is linked into the binary.              *)
HasDescriptor(p, linked) == p \in linked

RequiredDatabaseRole(p, linked) ==
    IF ~HasDescriptor(p, linked) THEN Undeclared
    ELSE CASE p.db_role = "DB_ROLE_ANONYMOUS" -> "anonymous"
           [] p.db_role = "DB_ROLE_WEBUSER" -> "webuser"
           [] p.db_role = "DB_ROLE_SYSUSER" -> "sysuser"
           [] OTHER -> Undeclared

(* Other packages are linked in too, and are not held to the annotation.   *)
AllProcedures(linked) == {p \in linked : p.package = "own"}

(* Mutant: that the annotation is there will do.                           *)
AnnotatedAtBoot(linked, resolver) ==
    resolver => \A p \in AllProcedures(linked) : p.db_role # "absent"

(* New: a program with a resolver does not start without them all; one     *)
(* without has no procedures that it would validate.                       *)
ValidatedAtBoot(linked, resolver) ==
    resolver =>
        \A p \in AllProcedures(linked) : RequiredDatabaseRole(p, linked) # Undeclared

(* The interceptor: "none" without a resolver, and for a call's error the  *)
(* answer is an internal one.                                              *)
Stamped(p, linked, resolver) ==
    IF resolver THEN RequiredDatabaseRole(p, linked) ELSE "none"
=============================================================================
