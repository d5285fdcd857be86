----------------------------- MODULE AppLifecycle -----------------------------
(***************************************************************************)
(* A process built from this repository's fx modules, from its             *)
(* constructors to its exit code, while it takes requests: database pools, *)
(* transactors, database roles, the JWKS cache, the Temporal client and    *)
(* workers, the in-memory server of the relays and the HTTP server, run by *)
(* fx or by stdfxlambda.RunApp.  fx is external: it constructs what is needed in    *)
(* some order that respects the parameters, runs start hooks in that order *)
(* and the stop hooks of what has started in reverse, goes on after a stop *)
(* hook that fails, and gives up when the context of the call ends.        *)
(***************************************************************************)
EXTENDS RequestPath, Pools, Sequences

CONSTANTS
    World,      \* ways to run and configure the process
    Order,      \* orders in which fx may construct the parts
    Slot,       \* bound: requests at a time
    Requests    \* bound: the requests that are made

Part == {"environment", "secret", "rw", "ro", "tenancy", "transactors", "auth", "temporal",
         "client", "workers", "system", "server"}

(* A worker that asks for no replica has neither its pool nor transactor.  *)
PartsOf(w) == IF w.rwOnly THEN Part \ {"ro"} ELSE Part

(* What the constructor of a part takes, and so is there before it.  All   *)
(* of them are configured by the environment, fetched secrets included.    *)
Needs(p) ==
    CASE p = "environment" -> {}
      [] p = "ro" -> {"rw"}
      [] p = "transactors" -> {"rw", "ro", "tenancy"}
      [] p = "client" -> {"temporal"}
      [] p = "workers" -> {"temporal", "transactors", "client"}
      [] p = "system" -> {"transactors", "client"}
      [] p = "server" -> {"system", "auth", "transactors", "client"}
      [] OTHER -> {"environment"}

ASSUME AppLifecycleAssumption ==
    /\ \A o \in Order :
          /\ o \in Seq(Part)
          /\ \A i, j \in DOMAIN o : o[i] = o[j] => i = j
          /\ \A i, j \in DOMAIN o : o[j] \in Needs(o[i]) => j < i
    /\ \A w \in World : /\ w.runsAs \in {"service", "lambda", "elsewhere"}
                        /\ w.linked \subseteq Procedure
                        /\ w.base \in Host /\ w.fallbacks \subseteq Host
                        /\ \A n \in {"rw", "ro"} : w.hosts[n] \in Host \cup {NoOverride}
    /\ Requests \subseteq Request
    /\ \A r \in Requests : r.entry = "start" => r.handler = "succeeds" /\ ~r.writes

VARIABLES
    world, order,
    phase,      \* where the process is in its life
    at,         \* parts constructed, or started
    open,       \* resources that are held
    late,       \* the context of the start or of the stop has ended
    failed,     \* a stop hook has failed
    exit,       \* the exit code, or NotExited
    slot        \* requests in the process

life == <<world, order, phase, at, late, failed, exit>>
vars == <<life, open, slot>>

NotExited == 100
Idle == [state |-> "idle"]
Web == {"rpc", "json", "relay"}
Resource == {"rw", "ro", "jwks", "namespace", "namespace_client", "connection",
             "generated_client", "worker_1", "worker_2", "system", "listener", "serving"}

TypeOK ==
    /\ world \in World
    /\ {order[i] : i \in DOMAIN order} = PartsOf(world)
    /\ phase \in {"constructing", "starting", "unwinding", "running", "stopping", "ended"}
    /\ at \in 0 .. Len(order)
    /\ open \subseteq Resource
    /\ late \in BOOLEAN /\ failed \in BOOLEAN
    /\ exit \in {0, 1, 2, 3, NotExited}
    /\ \A s \in Slot : slot[s].state \in {"idle", "arrived", "working", "answered"}

Init ==
    /\ world \in World
    /\ order \in {o \in Order : {o[i] : i \in DOMAIN o} = PartsOf(world)}
    /\ phase = "constructing" /\ at = 0
    /\ open = {}
    /\ late = FALSE /\ failed = FALSE
    /\ exit = NotExited
    /\ slot = [s \in Slot |-> Idle]
-----------------------------------------------------------------------------
(* fx: the constructors.  Pools are opened, the listener bound and the     *)
(* in-memory server started there, not by start hooks.                     *)
Constructed(p) ==
    CASE p \in {"rw", "ro", "system"} -> {p}
      [] p = "server" -> {"listener"}
      [] OTHER -> {}

Ends(code) == phase' = "ended" /\ exit' = code

(* Secrets are read by constructors, within five seconds: those that the   *)
(* environment refers to, and one of the application's own.                *)
DecorateEnvironment(p) == p = "environment" /\ world.secrets
NewJSONSecret(p) == p = "secret"

(* The database roles of all procedures are looked up; a pool's host may   *)
(* not parse, the listener's address may be taken, a secret not be had.    *)
Constructible(p) == p = "tenancy" => ValidatedAtBoot(world.linked, world.resolver)
ConstructorFails(p) ==
    \/ p \in {"rw", "ro", "server"} \/ DecorateEnvironment(p) \/ NewJSONSecret(p)
    \/ ~Constructible(p)

Construct ==
    /\ phase = "constructing"
    /\ IF at < Len(order)
       THEN \/ /\ Constructible(order[at + 1])
               /\ at' = at + 1
               /\ open' = open \cup Constructed(order[at + 1])
               /\ UNCHANGED <<phase, exit>>
            \/ /\ ConstructorFails(order[at + 1])
               /\ Ends(1)
               /\ UNCHANGED <<at, open>>
       ELSE phase' = "starting" /\ at' = 0 /\ UNCHANGED <<open, exit>>
    /\ UNCHANGED <<world, order, late, failed, slot>>

(* Temporal.Start: in a namespace of its own for a test, that it registers *)
(* with a client it keeps.                                                 *)
TemporalStart ==
    IF ~world.random
    THEN {[opens |-> {"connection"}, ok |-> TRUE], [opens |-> {}, ok |-> FALSE]}
    ELSE {[opens |-> {}, ok |-> FALSE],
          [opens |-> {"namespace_client"}, ok |-> FALSE],
          [opens |-> {"namespace_client", "namespace"}, ok |-> FALSE],
          [opens |-> {"namespace_client", "namespace", "connection"}, ok |-> TRUE]}

(* Workers.Start: one worker after the other, unless they are disabled.    *)
WorkersStart ==
    IF world.noWorkers THEN {[opens |-> {}, ok |-> TRUE]}
    ELSE {[opens |-> {}, ok |-> FALSE],
          [opens |-> {"worker_1"}, ok |-> FALSE],
          [opens |-> {"worker_1", "worker_2"}, ok |-> TRUE]}

(* The client of a generated Temporal API is made from the connection when *)
(* it starts; parts without a start hook count as started.                 *)
StartHook(p) ==
    CASE p = "auth" -> {[opens |-> {"jwks"}, ok |-> TRUE], [opens |-> {}, ok |-> FALSE]}
      [] p = "temporal" -> TemporalStart
      [] p = "client" -> {[opens |-> IF "connection" \in open THEN {"generated_client"} ELSE {}, ok |-> TRUE]}
      [] p = "workers" -> WorkersStart
      [] p = "server" -> {[opens |-> {"serving"}, ok |-> TRUE]}
      [] OTHER -> {[opens |-> {}, ok |-> TRUE]}

(* Outside of Lambda, RunApp stops what it has started at once.            *)
Started == IF world.runsAs = "elsewhere" THEN "stopping" ELSE "running"

Start ==
    /\ phase = "starting"
    /\ IF at = Len(order)
       THEN phase' = Started /\ late' = FALSE /\ UNCHANGED <<at, open>>
       ELSE IF late
       THEN phase' = "unwinding" /\ UNCHANGED <<at, open, late>>
       ELSE \E hook \in StartHook(order[at + 1]) :
                /\ open' = open \cup hook.opens
                /\ IF hook.ok THEN at' = at + 1 /\ UNCHANGED phase
                              ELSE phase' = "unwinding" /\ UNCHANGED at
                /\ UNCHANGED late
    /\ UNCHANGED <<world, order, failed, exit, slot>>

(* Mutant: RunApp stops on a context without a timeout.                    *)
OnlyStartsAreTimed == {"starting", "unwinding"}

(* A stop has 490 ms on Lambda and fx's stop timeout elsewhere; unwinding  *)
(* goes on with the context of the start.                                  *)
Timed == {"starting", "unwinding", "stopping"}

ContextEnds ==
    /\ phase \in Timed /\ ~late
    /\ late' = TRUE
    /\ UNCHANGED <<world, order, phase, at, failed, exit, open, slot>>

Signal ==
    /\ phase = "running"
    /\ phase' = "stopping"
    /\ UNCHANGED <<world, order, at, late, failed, exit, open, slot>>
-----------------------------------------------------------------------------
InFlight(entries) ==
    {s \in Slot : slot[s].state \in {"arrived", "working"} /\ slot[s].request.entry \in entries}

Working == {s \in Slot : slot[s].state = "working"}

(* Mutant: the server is closed rather than shut down.                     *)
ClosesAtOnce(p) == TRUE

(* A stop hook returns: the server waits for its requests, a pgx pool for  *)
(* its connections.                                                        *)
Returns(p) ==
    /\ p \in {"server", "system"} => InFlight(Web) = {}
    /\ p \in {"rw", "ro"} /\ world.driver = "pgx" => Working = {}

(* What it closes.  The transactors of ent close both pools, which are     *)
(* closed once more by their own hooks.                                    *)
StopHook(p) ==
    CASE p \in {"rw", "ro", "system"} -> {p}
      [] p = "transactors" ->
            IF world.driver = "sql" THEN {"rw", "ro"} \cap PartsOf(world) ELSE {}
      [] p = "auth" -> {"jwks"}
      [] p = "temporal" -> {"namespace_client", "connection"}
                           \cup IF world.remove THEN {"namespace"} ELSE {}
      [] p = "workers" -> {"worker_1", "worker_2"}
      [] p = "server" -> {"listener", "serving"}
      [] OTHER -> {}

(* Temporal.Stop returns when the namespace cannot be deleted, without     *)
(* closing anything.                                                       *)
StopHookFails(p) == p = "temporal" /\ world.random /\ world.remove

(* Shutdown and Close take the server off the network before they wait.    *)
BeginStop(p) == p = "server" /\ "serving" \in open

Stop ==
    /\ phase \in {"unwinding", "stopping"} /\ at > 0 /\ ~late
    /\ LET p == order[at]
       IN  \/ /\ BeginStop(p)
              /\ open' = open \ {"serving", "listener"}
              /\ UNCHANGED <<at, failed>>
           \/ /\ ~BeginStop(p) /\ Returns(p)
              /\ open' = open \ StopHook(p)
              /\ at' = at - 1
              /\ UNCHANGED failed
           \/ /\ StopHookFails(p)
              /\ failed' = TRUE
              /\ at' = at - 1
              /\ UNCHANGED open
    /\ UNCHANGED <<world, order, phase, late, exit, slot>>

(* Mutants: RunApp reports what the shutdown returned only on Lambda; it   *)
(* adds the codes up.                                                      *)
ExitsWith3Elsewhere(stopFailed) ==
    IF phase = "unwinding" THEN 1
    ELSE IF world.runsAs = "elsewhere" THEN 3
    ELSE IF stopFailed THEN 2 ELSE 0

(* RunApp's exit codes; fx's own Run exits with 1 when a stop has failed.  *)
ExitCode(stopFailed) ==
    IF phase = "unwinding" THEN 1
    ELSE IF stopFailed THEN IF world.runsAs = "service" THEN 1 ELSE 2
    ELSE IF world.runsAs = "elsewhere" THEN 3 ELSE 0

(* fx returns when all hooks have run, or the context has ended.           *)
Stopped ==
    /\ phase \in {"unwinding", "stopping"} /\ (at = 0 \/ late)
    /\ Ends(ExitCode(failed \/ at > 0))
    /\ UNCHANGED <<world, order, at, late, failed, open, slot>>
-----------------------------------------------------------------------------
Accepts(r) ==
    CASE r.entry \in Web -> "serving" \in open
      [] r.entry = "activity" -> {"worker_1", "worker_2"} \cap open # {}
      [] r.entry = "function" -> phase = "running" /\ world.runsAs = "lambda"
      [] r.entry = "start" -> "connection" \in open

(* What an RPC's context is stamped with.                                  *)
Posture(r) ==
    IF r.entry = "rpc" THEN Stamped(r.procedure, world.linked, world.resolver) ELSE "none"

Arrive(s) ==
    /\ slot[s] = Idle
    /\ \E r \in Requests :
        /\ Accepts(r)
        /\ r.entry = "rpc" => r.procedure \in world.linked
        /\ slot' = [slot EXCEPT ![s] =
                IF Reaches(r, Posture(r)) THEN [state |-> "arrived", request |-> r]
                ELSE [state |-> "answered", request |-> r, ran |-> FALSE, pool |-> "none",
                      committed |-> FALSE, answer |-> Turned(r, Posture(r))]]
    /\ UNCHANGED <<life, open>>

(* The handler takes a connection of a pool that is open, and connects.    *)
(* An RPC without a posture gets no transaction of ent's.                  *)
Work(s) ==
    /\ slot[s].state = "arrived" /\ slot[s].request.entry # "start"
    /\ slot[s].request.entry = "rpc" /\ world.driver = "sql"
       => Posture(slot[s].request) \in Postures
    /\ \E name \in {"rw", "ro"} \cap open :
        \E c \in Connections(name, world.base, world.fallbacks, world.hosts, world.iam) :
            slot' = [slot EXCEPT ![s] =
                    [state |-> "working", request |-> slot[s].request,
                     pool |-> name, connection |-> c]]
    /\ UNCHANGED <<life, open>>

Answered(s, committed) ==
    slot' = [slot EXCEPT ![s] =
        [state |-> "answered", request |-> slot[s].request, ran |-> TRUE,
         pool |-> IF slot[s].state = "working" THEN slot[s].pool ELSE "none",
         committed |-> committed,
         answer |-> Answer(slot[s].request, committed, world.validates)]]

(* The transactors of "ro" begin read-only transactions.                   *)
MayWrite(pool) == pool # "ro"

Commits(s) ==
    /\ MayCommit(slot[s].request)
    /\ slot[s].pool \in open
    /\ slot[s].request.writes => MayWrite(slot[s].pool)

(* It commits, or fails to, on a connection that a closed pool has taken   *)
(* away, or without one.  A workflow is started by a client that is open.  *)
Answers(s) ==
    /\ \/ /\ slot[s].state = "working"
          /\ (Commits(s) /\ Answered(s, TRUE)) \/ Answered(s, FALSE)
       \/ /\ slot[s].state = "arrived" /\ slot[s].request.entry = "start"
          /\ "connection" \in open
          /\ Answered(s, TRUE)
       \/ slot[s].state = "arrived" /\ Answered(s, FALSE)
    /\ UNCHANGED <<life, open>>

Leave(s) ==
    /\ slot[s].state = "answered"
    /\ slot' = [slot EXCEPT ![s] = Idle]
    /\ UNCHANGED <<life, open>>

(* The process is gone, and what it was at with it.                        *)
Ended == phase = "ended" /\ UNCHANGED vars

Process == Construct \/ Start \/ Signal \/ Stop \/ Stopped

Next ==
    \/ Process \/ ContextEnds \/ Ended
    \/ phase # "ended" /\ \E s \in Slot : Arrive(s) \/ Work(s) \/ Answers(s) \/ Leave(s)

(* Timers fire and hooks return when they can.  Handlers need not return,  *)
(* and nobody has to send a signal.                                        *)
Spec == Init /\ [][Next]_vars /\ WF_vars(ContextEnds)
             /\ WF_vars(Construct \/ Start \/ Stop \/ Stopped)
-----------------------------------------------------------------------------
(* What a request of the HTTP server needs is there until it has been      *)
(* answered, whatever the order in which fx has constructed the parts, as  *)
(* long as the stop has time left: the server is stopped before what it    *)
(* depends on and waits for its requests (serve.go:78).                    *)
WebWorkKeepsItsResources ==
    InFlight(Web) # {} /\ ~late =>
        {"rw", "ro", "connection", "generated_client", "system", "jwks"}
            \ ({"ro"} \ PartsOf(world)) \subseteq open

(* A process that has unwound a failed start, or stopped, has closed all   *)
(* it had opened but for what is known to remain: the namespace when it is *)
(* not to be removed; after a failed start what the hook that failed has   *)
(* left; after a stop whose deletion of the namespace failed what it was   *)
(* to close.  Exit codes 0 and 3 say that all went well (temporal.go:139,  *)
(* temporal.go:167, workers.go:147, lambda.go:40).                         *)
Remains ==
    IF exit \in {0, 3} THEN IF world.remove THEN {} ELSE {"namespace"}
    ELSE {"namespace", "namespace_client"}
         \cup (IF failed THEN {"connection"} ELSE {})
         \cup (IF exit = 1 THEN {"worker_1", "rw", "ro", "system", "listener"} ELSE {})

StoppedMeansClosed ==
    phase = "ended" =>
        /\ at = 0 => open \ {"generated_client"} \subseteq Remains
        /\ exit \in {0, 3} => at = 0 /\ ~failed

(* A caller that is told of success has had its request done, but for a    *)
(* relay's event that did not parse and a function's error without a       *)
(* message; one that is refused has had nothing done by a transaction, and *)
(* one that is told of a failure only when the work was done and its       *)
(* outcome could not be told (http_json_tx.go:49, validate_response.go:31, *)
(* lambda_relays.go:58, invoker.go:111).                                   *)
AnswersAreTrue ==
    \A s \in Slot : slot[s].state = "answered" =>
        LET r == slot[s].request
            committed == slot[s].committed
        IN  CASE slot[s].answer = "ok" ->
                    \/ committed /\ r.handler \in Success /\ r.input # "malformed"
                    \/ r.entry = "relay" /\ r.input = "malformed"
                    \/ r.entry = "function" /\ r.handler = "silent_error"
              [] slot[s].answer = "refused" -> Transactional(r) => ~committed
              [] OTHER -> Transactional(r) /\ committed => r.handler = "bad_output"

(* A connection to its pool's own host, not one it fell back on, presents  *)
(* with IAM a token for the host it is on and for that host's region, and  *)
(* as one of the "ro" pool of a cluster's writer endpoint it is not on the *)
(* writer, unless it is told to or the name ends in a dot.  Nothing is     *)
(* written through "ro", whichever host it is on, the writer that it fell  *)
(* back on included (db.go:160, db.go:227, transact.go:107).               *)
ConnectsWhereItShould ==
    \A s \in Slot :
        /\ LET c == slot[s].connection
           IN  slot[s].state = "working" /\ c.host = PoolHost(slot[s].pool, world.base, world.hosts) =>
                   /\ world.iam => Authenticates(c)
                   /\ slot[s].pool = "ro" /\ world.hosts.ro = NoOverride /\ ~world.base.dot
                      => c.host.kind # "writer"
        /\ slot[s].state = "answered" /\ slot[s].committed /\ slot[s].request.writes
           => slot[s].pool # "ro"

(* An RPC that the application sees has a posture that its author has      *)
(* declared, and the interceptor fails only the procedures of packages     *)
(* that nobody has looked at when the program started; without a resolver  *)
(* an RPC gets no transaction of ent's (stdcrpcenttenancyfx.go:479,        *)
(* interceptor.go:236).                                                    *)
ServesDeclaredPostures ==
    \A s \in Slot : slot[s] # Idle /\ slot[s].request.entry = "rpc" =>
        LET r == slot[s].request
            declared == RequiredDatabaseRole(r.procedure, world.linked) # Undeclared
            reached == slot[s].state # "answered" \/ slot[s].ran
        IN  /\ world.resolver /\ reached => declared
            /\ ~reached /\ slot[s].answer = "failed" => r.procedure.package = "other"
            /\ slot[s].state = "working" /\ world.driver = "sql" => world.resolver /\ declared

(* A process that has begun to stop, or to undo a start, is done with it   *)
(* whether or not its requests ever end (lambda.go:37).                    *)
StopEnds == phase \in {"unwinding", "stopping"} ~> phase = "ended"
=============================================================================
