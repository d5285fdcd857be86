-------------------------------- MODULE Pools --------------------------------
(***************************************************************************)
(* stdpgxfx: to which host each named pool connects, and the password it   *)
(* presents there when RDS IAM authentication is on.  An RDS host name is  *)
(* told apart by the kind of its endpoint, its cluster and its region; one *)
(* may be written with the dot of a fully qualified name at its end.  pgx  *)
(* has fallbacks for the host of a URL, which newDB leaves as they are.    *)
(***************************************************************************)

CONSTANTS Cluster, Region, NoRegion

ASSUME PoolsAssumption == NoRegion \notin Region

(* The names of RDS endpoints, and others.                                 *)
Kind == {"writer", "reader", "custom", "instance", "global", "elsewhere"}

Host == [kind : Kind, cluster : Cluster, region : Region \cup {NoRegion}, dot : BOOLEAN]
NoOverride == [kind |-> "none"]

(* DeriveSigningRegion: of regional endpoints, with or without the dot.    *)
DeriveSigningRegion(h) ==
    IF h.kind \in {"global", "elsewhere"} THEN NoRegion ELSE h.region

(* ApplyPoolHostConventions: the name of the "ro" pool makes a cluster     *)
(* endpoint its reader endpoint, also when it was one of the others with   *)
(* ".cluster-" in its name.                                                *)
ApplyPoolHostConventions(name, h) ==
    IF name # "ro" \/ h.dot \/ h.kind \notin {"writer", "reader", "custom"} THEN h
    ELSE IF h.kind = "writer" THEN [h EXCEPT !.kind = "reader"]
    ELSE [h EXCEPT !.kind = "unresolved"]

(* newDB: an override wins over the conventions.  This is ConnConfig.Host, *)
(* the host that a connection tries first.                                 *)
PoolHost(name, base, hosts) ==
    IF hosts[name] # NoOverride THEN hosts[name] ELSE ApplyPoolHostConventions(name, base)

(* Mutant: the token is built when the pool's configuration is.            *)
SignsForBase(h, base) == [host |-> base, region |-> DeriveSigningRegion(base)]

(* installIamAuthBeforeConnect: a token for the host of this connection.   *)
IamToken(h, base) == [host |-> h, region |-> DeriveSigningRegion(h)]

NoToken == [host |-> NoOverride, region |-> NoRegion]

(* BeforeConnect refuses a host without a region to sign for.              *)
BeforeConnect(h, iam) == iam => DeriveSigningRegion(h) # NoRegion

(* pgx.ConnectConfig: the host whose name resolves and that answers first, *)
(* of the pool's own and the fallbacks: further hosts of the URL, and its  *)
(* host again, without TLS, where TLS is optional.  Whichever it is gets   *)
(* the password that BeforeConnect has set.                                *)
Connections(name, base, fallbacks, hosts, iam) ==
    LET h == PoolHost(name, base, hosts)
    IN  {[host |-> x, token |-> IF iam THEN IamToken(h, base) ELSE NoToken] :
            x \in {y \in {h} \cup fallbacks : BeforeConnect(h, iam) /\ y.kind # "unresolved"}}

(* What RDS accepts: a token for the endpoint and the region it is of.     *)
Authenticates(c) == c.token.host = c.host /\ c.token.region = c.host.region
=============================================================================
