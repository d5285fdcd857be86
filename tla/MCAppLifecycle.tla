--------------------------- MODULE MCAppLifecycle ---------------------------
(* Three orders of construction; a Lambda, a service and a local run of a  *)
(* Lambda, with random namespaces and without, with both kinds of pools    *)
(* and with hosts of each kind, TLS that is optional and a URL of two      *)
(* hosts; with procedures that are annotated, that are not, and that       *)
(* another package brings along.                                           *)
EXTENDS AppLifecycle

CONSTANTS c1, c2, r1, r2, none, s1

MCCluster == {c1, c2}
MCRegion == {r1, r2}
MCSlot == {s1}

On(kind, c, r, dot) == [kind |-> kind, cluster |-> c, region |-> r, dot |-> dot]
Writer == On("writer", c1, r1, FALSE)
NoHosts == [rw |-> NoOverride, ro |-> NoOverride]
Elsewhere == [rw |-> NoOverride, ro |-> On("reader", c2, r2, FALSE)]

(* Procedures: annotated; another package's, without; forgotten; present   *)
(* and unspecified.                                                        *)
Web1 == [package |-> "own", db_role |-> "DB_ROLE_WEBUSER"]
Foreign == [package |-> "other", db_role |-> "absent"]
Forgotten == [package |-> "own", db_role |-> "absent"]
Zero == [package |-> "own", db_role |-> "DB_ROLE_UNSPECIFIED"]

World1(runsAs, driver, random, remove, noWorkers, base, hosts, iam) ==
    [runsAs |-> runsAs, driver |-> driver, random |-> random, remove |-> remove,
     noWorkers |-> noWorkers, validates |-> random, secrets |-> random, base |-> base, fallbacks |-> {},
     hosts |-> hosts, iam |-> iam, rwOnly |-> FALSE, resolver |-> TRUE, linked |-> {Web1, Foreign}]

(* A writer endpoint, without IAM, in a URL that leaves TLS optional.      *)
OptionalTLS ==
    [World1("service", "pgx", FALSE, FALSE, FALSE, Writer, NoHosts, FALSE)
        EXCEPT !.fallbacks = {Writer}]

MCWorld == {
    OptionalTLS,
    World1("service", "pgx", FALSE, FALSE, FALSE, Writer, Elsewhere, TRUE),
    [World1("service", "sql", TRUE, TRUE, FALSE, On("elsewhere", c1, none, FALSE), NoHosts, FALSE)
        EXCEPT !.rwOnly = TRUE, !.resolver = FALSE, !.linked = {Web1, Forgotten}],
    World1("service", "sql", TRUE, FALSE, FALSE, On("instance", c1, r1, FALSE), NoHosts, TRUE),
    [World1("lambda", "sql", FALSE, FALSE, TRUE, Writer, NoHosts, TRUE)
        EXCEPT !.fallbacks = {On("instance", c1, r1, FALSE)}],
    World1("lambda", "pgx", TRUE, TRUE, FALSE, On("global", c1, none, FALSE), Elsewhere, TRUE),
    World1("elsewhere", "pgx", TRUE, TRUE, FALSE, On("writer", c1, r1, TRUE), NoHosts, TRUE),
    [World1("elsewhere", "sql", FALSE, FALSE, TRUE, On("custom", c1, r1, FALSE), NoHosts, FALSE)
        EXCEPT !.fallbacks = {On("custom", c1, r1, FALSE)}]}
    \cup
    {[World1("service", "sql", FALSE, FALSE, TRUE, Writer, NoHosts, FALSE)
        EXCEPT !.linked = {Web1, p}] : p \in {Forgotten, Zero}}

Orders == {
    <<"environment", "secret", "tenancy", "rw", "ro", "transactors", "auth", "temporal", "client", "system", "server", "workers">>,
    <<"environment", "temporal", "client", "auth", "rw", "ro", "tenancy", "secret", "transactors",
      "workers", "system", "server">>,
    <<"environment", "rw", "temporal", "client", "ro", "tenancy", "transactors", "system", "auth",
      "server", "secret", "workers">>}

MCOrder == Orders \cup {SelectSeq(o, LAMBDA p : p # "ro") : o \in Orders}

(* Requests with one thing wrong, or two that have to do with each other.  *)
MCRequests ==
    {r \in [entry : Entry, input : Input, allowed : BOOLEAN, writes : BOOLEAN,
            handler : Success \cup Failure,
            procedure : {Web1, Foreign, Forgotten, Zero, NoProcedure}] :
        /\ r.entry # "rpc" => r.allowed
        /\ r.entry = "rpc" <=> r.procedure # NoProcedure
        /\ r.entry \in {"rpc", "activity", "start"} => r.input \in {"valid", "invalid"}
        /\ r.input # "valid" \/ r.procedure \in {Foreign, Forgotten, Zero}
           => r.handler \in {"succeeds", "client_error"}
        /\ r.writes => r.handler = "succeeds" /\ r.input = "valid"
        /\ r.entry = "start" => r.handler = "succeeds" /\ ~r.writes}
=============================================================================
