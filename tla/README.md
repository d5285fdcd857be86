# Verification of stdgo

TLA+ models of the parts of `github.com/advdv/stdgo` whose correctness depends
on interleavings, failures and retries, the TLC configurations that check them
on small instances, and theorems about them that TLAPS proves for every size.

All paths below are relative to the repository's root unless they name a module.

## 1. The system

stdgo is a library of building blocks for Go services: PostgreSQL transactions
(`stdtx`, `stdent`), Connect RPC (`stdcrpc*`), authentication and tenancy
(`fx/stdcrpcauthfx`, `fx/stdcrpcenttenancyfx`), background work (`fx/stdriverfx`,
`fx/stdtemporalfx`), and the fx modules that wire them to HTTP servers, Lambda
functions, AWS and Temporal. It has no main loop of its own; its state lives in
databases, connections, cookies, contexts and in the goroutines of its users.

| Part | State it keeps | Operations | Talks to | What is hard |
|---|---|---|---|---|
| `stdtx`, `stdtxpgxv5` | the attempt under way, its `pgx.Tx`, the attempts marker in the context | `Transact0/1`; driver begin, setup, rollback, commit | a `pgxpool.Pool`, PostgreSQL, the handler (callback) | conflicts, deadlocks, lost commits, cancellation, panic and Goexit, nested calls, handlers that conclude the transaction, pool exhaustion |
| `stdent` transactor and driver | the `Tx` in the context, attempts | `Transact0/1`, `BeginTx`, `setupTx` | `database/sql`, ent, a begin hook | as above, plus reuse of the outer transaction, transaction timeouts, no backoff |
| `stdent` read promotion, `stdcrpcwritefence` | a context stamp; a flag and a `sync.Once` per request; a signed cookie at the client | `TransactR(0)`; middleware, interceptor, `MarkFenceIntent` | browser, net/http, primary and replica | order of marks and writes, replica lag, clocks, rounding, responses out of order |
| `stdcrpcenttenancyfx`, `stdenttxfx` | role, managed marker and tenant in the context; session settings in a pooled connection | `Transact*`, `BeginHook`, interceptor | `stdent`, `stdcrpcauthfx` | postures that outlive their transaction, nested roles, retries |
| Temporal propagators | the header of a workflow | inject, extract | Temporal, activities | headers missing or half present, replays, workers wired differently |
| `stdcrpcauthfx`, `stdcrpcaccess`, `stdauthnfx` | claims or identity in the context; a cached JWKS; signing keys | token and API key checks, permission checks | JWKS, identity provider | key rotation on both sides, a cache that must outlive its start hook, order of checks |
| `stdriverfx` | jobs in PostgreSQL, session settings | `Enqueue`, `TransactWorker.Work`, start, soft and hard stop | River, `stdtx` | effects once per job, lost commits, stop against running jobs |
| `stdtemporalfx` | client, workers, a random namespace | start, stop, register | Temporal | partial starts |
| `stdtemporalcodecfx` | a keyset per process | encode, decode, the codec server | KMS, Temporal | rolling deployments during key rotation |
| `stdpgxfx`, `stdpgxtxfx` | pools; a buffered response | pool configuration; transacting handlers | `stdtx`, RDS IAM | a host and a token per pool, encoding after commit |
| `stdfxlambda`, `stdlambda`, `stdhttpserverfx`, `stdpubprivrpcfx` | a started fx app | start, serve, invoke, stop | Lambda runtime, net/http | partial starts, stops against requests under way, deadlines, what a caller is told |
| `stdmage*`, `stdcdk`, `magefiles` | images, tags, parameters, `cdk.context.json`, migrations, the environment of the process | deploy, migrate, snapshot | docker, ECR, ECS, Lambda, SSM, CDK, Atlas, goose | several deployers, mutable tags, stale lookups, commands that fail half-way |
| the rest (`stdctx`, `stdlo`, `stdenvcfg`, `stdhttpware`, `stdcrpcsnap`, `stdcrpcintercept`, `stdaws*`, `stdenttypeid`, `stdpgtest`, ...) | none that outlives a call | helpers, configuration, tests | | |

What makes them correct:

* **Transactors**: the work of a call is committed at most once, however often it
  is retried; the reply tells the truth about it; no concurrent update is lost;
  no connection is leaked; every call returns.
* **Read your writes**: a client's read sees the writes it knows of, whichever
  server and database it reaches, and the load this puts on the primary ends.
* **Write fence**: a fence marked in time reaches the client; none does unmarked.
* **Tenancy**: no statement runs before its posture is set; every statement runs
  with the role and tenant of the request that caused it; a pooled connection
  comes back clean.
* **Background work**: the effects of a job are committed exactly when the job is
  completed; a worker process stops within its timeouts.
* **Codec**: what one process wrote, every process that reads it can decode, and
  no other namespace can.
* **Access**: a handler runs for whom a credential was issued to and only for
  what that one may do; rotating keys locks nobody out, withdrawing one does.
* **Life of a process**: a request keeps what it needs until it is answered; what
  was opened is closed; a stop ends; the answer to a request is true.
* **Deployment**: what a target has reported as deployed is what runs; nothing
  is deployed from a stale lookup; no database is migrated but the one asked for.

`PROJECT.json` lists every component with its status, and every hazard with the
line where it bites and the properties that cover it.

## 2. Modules

| Module | Models | Code |
|---|---|---|
| `AtomicWork` | what a transactor promises: work applied in one step, at most once, as the reply says | (specification) |
| `Postgres` | transactions, snapshots, row locks and lost sessions, as the drivers see them | external |
| `Transactor` | `Transact1` over the pgx driver | `stdtx/*.go`, `stdtx/stdtxpgxv5/*.go` |
| `EntTransactor` | `Transact1` over ent's driver and `database/sql` | `stdent/*.go` |
| `FencedResponse` | one HTTP response behind the write fence, as functions of its state | `stdcrpc/stdcrpcwritefence/*.go` |
| `WriteFence` | handlers that use the response in any order | `writefence.go` |
| `ReadYourWrites` | a client, servers with clocks, primary and replica | `stdcrpcwritefence`, `stdent/readpromote.go` |
| `Tenancy` | role, tenant and subject of every transaction: contexts, sessions of the pool, workflow headers | `fx/stdcrpcenttenancyfx`, its and `stdcrpcauthfx`'s Temporal propagators, `stdent/transact.go`, `stdent/driver.go` |
| `RiverWorker` | jobs from enqueueing to completion, and the stops of the workers | `fx/stdriverfx/*.go` |
| `PayloadCodec` | the codec and its HTTP server, as functions | `fx/stdtemporalcodecfx/stdtemporalcodec/*.go` |
| `KeysetRotation` | processes that are redeployed around a key rotation | `fx/stdtemporalcodecfx/*.go` |
| `AccessControl` | the three ways to authenticate and authorise a request, while keys rotate | `fx/stdcrpcauthfx`, `stdcrpc/stdcrpcaccess`, `fx/stdauthnfx` |
| `Procedures` | the `db_role` annotation at boot and per call | `fx/stdcrpcenttenancyfx` |
| `RequestPath` | every way into and out of the program, layer by layer | `stdcrpcintercept`, `stdpubprivrpcfx`, `stdpgxtxfx`, `stdfxlambda`, `stdlambda`, `stdhttpware`, `stdtemporalfx` |
| `Pools` | hosts, fallbacks, signing regions and tokens of the pools | `fx/stdpgxfx/db.go` |
| `AppLifecycle` | a process from its constructors to its exit code, with requests under way | `stdfxlambda`, `stdhttpserverfx`, `stdtemporalfx`, `stdenttxfx`, and the modules above |
| `MageProcess` | runs of mage: targets, stages, parallel workers, commands that fail; the environment of a process | `stdmage/mage.go`, `stdmage/stdmagedev`, `stdmage/*` |
| `ServiceDeploy` | images, tags, ECS services and Lambda functions | `stdmage/stdmagesvc`, `stdcdk` |
| `InfraDeploy` | images by digest, SSM parameters, `cdk.context.json`, stacks | `stdmage/stdmageecr`, `stdmage/stdmagecdk` |
| `SchemaMigrations` | migrations, databases, snapshots, the development database served anew | `stdmage/stdmageatlas`, `stdmage/stdmagepgschema`, `stdmage/stdmagedev` |
| `Mage` | several processes of mage at work on the same things | |
| `MC...` | instances | |
| `PostgresProofs`, `TransactorProofs`, `EntTransactorProofs`, `TenancyProofs`, `AccessControlProofs` | theorems about the module of that name | |
| `FenceProofs`, `BackgroundProofs` | theorems about `WriteFence` and `ReadYourWrites`, about `KeysetRotation` and `RiverWorker` | |
| `ProcessProofs` | theorems about the processes that people start: `AppLifecycle` and `Mage` | |

How they are composed:

* `Transactor` and `EntTransactor` use `Postgres` through `INSTANCE`; `Transactor`
  implements `AtomicWork` (`Promise`, a refinement mapping in which `applied[c]`
  is "one of c's attempts is committed").
* `WriteFence` and `ReadYourWrites` both extend `FencedResponse`: the hooks that the
  first exercises in every order are those that answer the calls of the second.
* `KeysetRotation` extends `PayloadCodec`; the functions of the codec are what its
  processes do with payloads.
* `AppLifecycle` extends `RequestPath` (which extends `Procedures`) and `Pools`: a
  request needs parts of the process to be open, and connects through its pools.
* `Mage` composes `ServiceDeploy`, `InfraDeploy` and `SchemaMigrations` over one
  `MageProcess`: they meet in the environment and directory of a process and in the
  docker images of a machine.

### Transactor

`pc[c]` is where call `c` is in `Transact1`; `attempt[c]` is failsafe's
`exec.Attempts()`; `failure[c]` is the error, panic or Goexit the attempt is
ending with; `reply[c]` what the caller got. A transaction is a pair of a call and
an attempt; `conn[t]` is the client's end of it (held, broken, closed in pgx's
sense) and `srv[t]` the server's, so that the two may disagree: after a COMMIT
whose answer was lost, after a rollback that could not be sent.

| Action | Code |
|---|---|
| `StartRefused`, `Start` | the nested-call check, `transactor.go:54-59`; the first attempt |
| `Begin`, `BeginFails` | the pool and `BEGIN`, `driver.go:55-60` |
| `Setup`, `SetupFails`, `SetupPanics` | `setupTx` and the rollback when it fails, `driver.go:65-71` |
| `Read`, `Update`, `SerializationFailure`, `Deadlock`, `StatementRejected`, `StatementLost` | the handler's statements |
| `PlanTooCostly` | the plan-cost gate of `WTx`, `tx.go:57-110` |
| `HandlerSucceeds` ... `HandlerConcludes` | how the handler ends, `transactor.go:117-134` |
| `Rollback`, `DeferredRollback` | the rollback on error or panic, then the deferred one |
| `Commit` and its seven ways to go wrong | `CommitTx`, `transactor.go:136-144`, `driver.go:81-88` |
| `Judge`, `Retry` | the retry policy, `transactor.go:71-93` |
| `Cancel`, `ConnectionBreaks`, `Reap` | the context, the network, the server |

Each transaction reads all counters into its snapshot and writes back what it read
plus one, because an update that is lost then shows in `value`. Waiting for a row
lock is an `Update` that is not enabled. A call whose handler calls `Transact1`
again has that call as a `Parent`ed one; the handler waits for it.

A statement is refused by the server, which aborts its transaction (`StatementRejected`), or, after an
EXPLAIN, by the plan-cost gate of `WTx` on the client (`PlanTooCostly`), which leaves the transaction as it
is. A handler that swallows the first gets ROLLBACK for its COMMIT. One that swallows the second goes on and
commits what it has done so far, and its call reports success: `Heedless` are the calls whose handlers may, and
`AtomicWork` lets exactly these apply part of their work.

Abstracted: SQL text, logging, what a plan costs, the length of backoffs, and which of two concurrent
goroutines the Go scheduler prefers.

### EntTransactor

The same calls over `stdent` and `database/sql`. `sqltx[t]` is what `database/sql`
makes of a transaction and `srv[t]` what the server does; `limit` and `expires` are the
transaction timeout between being computed (`driver.go:167`) and being enforced, and
`clock` is what deadlines and timeouts are measured by. `Owner[c]` is the outermost call
of a chain: `TxInContext` (`transact.go:54`) decides whether `StartNested` or `Start`
happens, and `HandBack` hands a nested call's error, panic or Goexit to the handler that
called it. `AwaitDone` is `database/sql`'s goroutine that ends a transaction with its
context, behind the handler's back; `CommitTxDone` is the `sql.ErrTxDone` that passes for
success (`transact.go:129`); `Settled` is failsafe, which reports the context's error when
the context is over whatever the last attempt did. 40P01 is not retried (`Deadlock`).
`PlanTooCostly` is a statement `WTx` refuses without asking the server to execute it, as in `Transactor`.

### FencedResponse, WriteFence, ReadYourWrites

A response is a record of five flags; every method of the wrapped writer is a
function on it. `WriteFence` lets handlers call them in any order and mark the
fence at any moment. In `ReadYourWrites` time is counted in ticks, `Second` of
them to a second, so that `securecookie`'s whole seconds are visible; a server's
clock is ahead by its `Skew`; the replica applies commits in order and less than
`Lag` after they happened; the browser may discard a cookie once its Max-Age has
passed or keep it forever (a client that replays it). Calls of the client may overlap.
`told` is the write whose success the client was told of by the last answer it got:
that one has left its cookie in the jar, and `SeesOwnWrites` promises what the jar can
keep, no more (section 5).

### Tenancy

A *call* is anything with a context: the body of an RPC handler, of a background job
or of an activity (`entry` "body"), a call of one of the `Transact` helpers
("managed"), or a call of `stdent` past them ("direct"). `given[k]` is the context it
was called with and `ctx[k]` the one its function works with, which has the
transaction in it; a transaction is a call and an attempt. `session[s]` is what
PostgreSQL has for a connection of the pool: whose transaction, `current_user`, and
the two settings. `origin` is history: the request that caused a call.

| Action | Code |
|---|---|
| `Serve` | the interceptor stamps the role of the procedure, the authn middleware the claims; a job has neither |
| `WithDatabaseRole` | trusted code stamps a context that has no role |
| `Transact`, `TransactRefused` | the gate and marker of `enterManagedTx`, then `stdent.Transact1`: reuse or a new transaction |
| `DirectTransact` | `stdent.Transact1` with whatever context the caller has |
| `Open`, `OpenFails`, `BeginHook`, `SetupFails` | `Driver.BeginTx` and `setupTx`: the hook refuses, or its SQL is executed before the transaction is handed out |
| `Retry`, `Return`, `Cancelled` | another attempt from the same context; commit or rollback by the call that owns the transaction; `database/sql`'s rollback when a context ends |
| `StartWorkflow`, `Activity` | `Inject` to `Extract`, with whatever workflows in between pass on |
| `Reconnect` | the pool replaces a connection |

A call whose caller has returned may still start another with its context: that is a
goroutine left behind by a handler. What a statement does is not modelled, only on which
session it would run (`Reaches`) and what that session has then. PostgreSQL keeps a custom
setting's name once it has been set, so that after the transaction it reads as the
empty string and no longer as NULL (`AfterReset`).

Abstracted: the proto annotations and the configured names of roles and settings, the
rows and their policies, the wire format of headers (one that cannot be parsed is one that is
missing). Contexts are stamped only where they have no role, as the comment at
`interceptor.go:40-51` prescribes; a handler that stamps another role over
its own and calls `Transact` inside a transaction goes on with the outer role, which
the model leaves out.

### RiverWorker

River is external: it fetches a job (`Fetch`), rescues one whose attempt is past
its timeout (`Rescue`) and applies what `Work` returned only while the row still says that
this attempt is running (`Report`, `Outcome`). An *execution* is a job and an attempt.

| Action | Code |
|---|---|
| `Ask`, `Enqueue`, `AskEnds`, `PeriodicJobs` | a transaction that enqueues, `enqueuer.go:26-44`; periodic jobs, which nobody validates before they are inserted |
| `ValidateArgs` | `transact_worker.go:46`: invalid arguments cancel the job |
| `Begin`, `SetTimeouts` | `BEGIN` on a pooled connection and `SET SESSION`, `transact_worker.go:51-58` |
| `Handle`, `HeedlessReturns`, `RecordOutput` | the handler, its output validated and recorded, `:60-73` |
| `JobCompleteTx`, `Commit`, `CommitUnanswered`, `WorkRetries`, `WorkFails`, `GivesUp` | `:74-80` in the transactor |
| `TimesOut`, `ServerEnds` | the context's timeout; the server's, and what it makes of a client that is gone |
| `Stop`, `SoftStop...`, `HardStop...` | `work.go:131-160` |
| `Exit`, `Crash`, `Restart` | the process |

`armed[e]` is the timer of a transaction: `BEGIN` arms it with what the session has, and
`SET SESSION` does not rearm one that is running. `session[x]` is what committed
transactions have left on connection x. `marked[e]` says that the transaction has
completed, and so locked, the row of its job. Which arguments are invalid is chosen at the
start (`invalidArgs`). How much time passes is left open: an attempt's context may end as
soon as it has a timeout.

### PayloadCodec, KeysetRotation

A payload is a stack of layers, one for each time it was encrypted, each with its key and
additional data; a cipher opens what was sealed with one of its keys under the same
additional data. `ServeHTTP` has the checks of the codec server in their order, with the
label Temporal Cloud appends to a namespace (`StripCloudAccountSuffix`). In
`KeysetRotation` the configured keyset (`secret`) changes by `Rotate`, `Promote`, `Remove`,
each only once everything has been redeployed with the keyset before; a process loads it
once, when it starts, so that `loaded` differs while a deployment is under way. `Procedure`
chooses how an operator rotates: as the package documentation says, with `genkeyset`, or
"staged", in two deployments.

### AccessControl

The provider publishes a key an interval before it signs with it, and withdraws it; the
service is stopped, reconfigured with other signing keys and started; credentials
circulate. `jwks` is what the cache has, refreshed once per tick (`Refresh`) unless the
fetch fails. `WrapByScope` is `stdcrpcauthfx`, `WrapByPermission` is `stdcrpcaccess` with
the header a proxy may have set, `Authenticate` is `stdauthnfx`; each is the sequence of checks
of the code as one operator on a request. A request is served at an instant. Requests are unary: both
interceptors of `stdauthnfx` are (`interceptors.go:17`, `interceptors.go:43`), so that streaming RPCs pass them by.

### Procedures, RequestPath, Pools, AppLifecycle

fx is external: it constructs what is needed in some order that respects what constructors
take (`Order`), runs start hooks in that order and stop hooks of what has started in reverse, and
gives up when the context ends. `at` counts parts constructed or started, `open` is what is
held. `Construct` reads secrets (`DecorateEnvironment`, `NewJSONSecret`), opens pools, binds the listener and validates the procedures (`ValidatedAtBoot`);
`StartHook` and `StopHook` give for every part what its hook opens and closes and where it may
fail. `RunApp`'s exit codes are `ExitCode`. A request that is under way is a slot: `Arrive` sends
it through the layers of `RequestPath` (`Reaches`, `Turned`), `Work` takes a connection of an
open pool (`Connections` of `Pools`: to the pool's host, or to one of the fallbacks that pgx has from the URL), `Answers` commits or does not and computes
what the caller is told (`Answer`). A handler's behaviour is part of the request, so that every
layer sees errors, panics, aborts and outputs that break their own rules.

What these modules make visible and no property forbids, because the code does not promise
otherwise:

* the pool "ro" of a base host that is a reader or a custom cluster endpoint gets a name that
  does not resolve, and one that ends in a dot is left on the writer (`stdpgxfx/db.go`);
* a pool's fallbacks keep the host of the URL, whatever its own host has been rewritten to (`db.go:260`, `db.go:281`):
  where TLS is optional or a URL names several hosts, a connection that cannot reach its own host goes there,
  with a token for the other one (what `ConnectsWhereItShould` says of hosts and tokens is about those that did not; see also section 5);
* `HJTx` answers 500 to a malformed body, and to a 42501 of the database;
* a relay's event that does not parse is handled as the zero event and acknowledged
  (`lambda_relays.go:58-63`); an invoker takes an error without a message for success
  (`stdlambda/invoker.go`);
* procedures of other proto packages are not validated at boot and fail when they are called;
* a constructor that fails, as one that cannot read its secret, leaves open what others have opened;
* a start that times out runs no further hooks, and leaves open what it has opened;
* Temporal's worker stop does not wait for activities (`ro` and `rw` may close under them);
* signals and updates are validated by the client's interceptor only.

### MageProcess, ServiceDeploy, InfraDeploy, SchemaMigrations, Mage

A target is a list of stages, a stage a list of commands per worker (`rill.ForEach` has
several); every command may fail, which ends the process, while other workers go on for a
moment. `pushed[d]` is the history of a tag; ECS starts tasks with what the tag holds when
they start or when the replacement was ordered, Lambda looks a tag up once. `parameter[e]` is the
history of an SSM parameter and `context[m]` what CDK has cached of it on a machine. A schema is a
set of changes and a migration adds some and undoes some: what a sequence of them makes (`SchemaOf`) is what one
adds and none after it undoes. `url` is the database that the
environment variables of a process name, which outlive the target that loaded them; `EnvFiles` says which environment
files a machine has, and `FindsEnv` whether `LoadEnv` finds those of an environment where the process is.
`BuildPushSetParam` begins with `Serve`, which loads "dev", builds and starts all containers anew (`Up`), that of the
development database among them; it then takes the image that the directory's name has (`inspect`), gives its digest
to the image that the name has by then (`tag_digest`) and pushes what has this digest as its tag: `tagged[m]` and
`repository` keep for each such name what it names. CDK's lookup of a parameter and the caching of it
are one step. `MigrationsDirIsRelative` says whether goose finds migrations from the CDK directory.

Observations that no property forbids: `LoadEnv` stops at the first file that is missing,
without an error, so that the variables of an earlier target stay, and a migration goes to the database they
name (`mage.go:25`; `MigratesWhereAsked` exempts a process that does not find its files, also
because an earlier target has changed its directory, and holds it to what it was asked for before); any environment
but "prod" is staging to `BuildPushSetParam` and an error to CDK; two
processes that build on one machine may tag each other's image (`RunsWhatWasDeployed` therefore
speaks of an image built as late or later, and `DeploysLiveParameters` is about a registry whose images name
their environment only if `BuildsApart`); of two people in one working copy one may remove or write a migration while
the other makes a snapshot, or start the development database anew with a `BuildPushSetParam`, so that an empty
one is dumped (`CopiesApart` says that they do not); a slow deployer may push an older build after a
newer one; the second CDK target of a process with a relative directory fails at `chdir`; a
snapshot after a patch hook that does not rehash fails.

## 3. Runs

| Run | Instance | Shows |
|---|---|---|
| `transactor_safety` | two calls on two rows, the handler of one may swallow a plan-cost refusal, one retry, three faults, hooks may panic | `TypeOK`, `ReplyIsTrue`, `NoLostUpdate`, `NoTxOutlivesItsCall`, and the refinement `AtomicWorkSpec` |
| `transactor_liveness` | two calls and one nested in the first, the second may conclude its transaction itself, a pool of two, one fault, fairness | `EveryCallReturns` |
| `ent_transactor` | a call with a deadline and a nested one, next to a call on the same rows that may commit by itself, one retry, one fault, a clock of four | `ReplyIsTrue`, `NestedSharesFate`, `NoLostUpdate`, `NoTxOutlivesItsCall`, `ServerOutwaitsClient` |
| `write_fence` | two requests, one using pass-through methods | `PinnedWhenMarkedInTime` |
| `read_your_writes` | two writes and a read that may overlap, two servers with skewed clocks, TTL and lag of one second (two ticks) | `SeesOwnWrites`, `PromotionEnds` |
| `tenancy` | a webuser and a sysuser RPC of two callers, a job that stamps a valid or an invalid role, two sessions, four calls, one retry | `RunsForItsRequest`, `RunsAsItsProcedure`, `IdleIsClean`, `NoneUnmanaged` |
| `river_worker` | a job with a heedless handler, a timeout of two and two attempts, and a periodic one with a timeout of one and one attempt; either with invalid arguments; one connection, two faults, fairness | `WorkedExactlyWhenCompleted`, `EnqueuedWithItsTransaction`, `LimitedInTime`, `StoppedMeansIdle`, `StopReturns` |
| `keyset_rotation` | workers of two namespaces with one keyset, one of a third that does not encrypt, a codec server for the first; two keys, two deployments per rotation | `EveryProcessReads`, `NamespacesAreApart`, `UiReadsAndWrites` |
| `keyset_rotation_documented` | the same, the key promoted before it is everywhere | **violation** of `EveryProcessReads`: see 5 |
| `access_control` | each of the three schemes, a provider with two keys, a service with two of its own, two users, three procedures, one credential at a time, one fetch that fails | `RunsAsGranted`, `WithdrawnKeysExpire`, `RotationLocksNobodyOut`, `OwnCredentialsLast` |
| `app_lifecycle` | ten configurations, some with fallbacks, in three orders of construction, one request of any kind at a time, fairness | `WebWorkKeepsItsResources`, `StoppedMeansClosed`, `AnswersAreTrue`, `ConnectsWhereItShould`, `ServesDeclaredPostures`, `StopEnds` |
| `mage` | sixteen sessions of two processes on one machine or two, one of which lacks `.env.prod`; two deployments and a third not set up, two environments and one that does not exist, two changes | `RunsWhatWasDeployed`, `DeploysLiveParameters`, `SnapshotIsOfTheMigrations`, `MigratesWhereAsked` |

Every module states a type invariant; that of `Transactor` is a property of its run, and those of all
modules with proofs are proved.

Bounds, all named in the configurations. `MaxRetries` is 1: the second attempt is
the last one allowed, so both "retried" and "retries exhausted" happen; what a
third attempt would add is covered by the proofs, which hold for every
`MaxRetries`. `MaxFaults` bounds how many things the environment breaks in one
behaviour; three are enough for a commit whose answer is lost, on a call that is
cancelled, after a retried attempt; in `RiverWorker` two are a lost answer and a crash, or a
stop and one of either. Two rows are needed for a deadlock, two calls for
a conflict. In the safety run the rows are symmetric (every call works on both of them), the calls are not: one
may be heedless. With liveness, symmetry is not used. The pool of the liveness run is as large as its outermost calls
are many, so that what a call waits for there is rows and locks rather than connections.
In `EntTransactor` the deadline is two ticks and the extension one, so that `Horizon` 4 leaves time
for the server to end what nobody has. In `Tenancy` four calls are what it takes for a handler, its
transaction, a nested or direct call in it and a goroutine, or for an RPC, its workflow, an activity
and its transaction; two sessions let a retried or a second transaction get the
connection of the first or another one. The calls are symmetric.
`Horizon` stops the clock of `ReadYourWrites` after a cookie could have been
signed, expired and replayed. One connection in `RiverWorker` is the worst case for what a session keeps.
A rotation with two keys is one complete rotation: adding, promoting, removing. The clock of
`AccessControl` (4, with tokens that last 3) lets a key be published, signed with, withdrawn and its
tokens expire; a second credential would add nothing, since credentials do not interact.
`app_lifecycle` has one request at a time: requests meet only in what the process has open.
`mage` has sessions rather than all pairs of targets: one for each pair that shares a tag, a
parameter, a database, a machine or a process; those with a restart, a `BuildPushSetParam` between a migration and its
snapshot, and a second target that lacks its environment file are among them. Its migrations directory is not relative, so that goose finds it from the CDK directory too.

Deadlock is checked in every run; `AllReturned`, `Served`, `AllDone`, `Finished`, `AllSettled` and
`Ended` are the states in which everything has been done.

### Fairness

`FairSpec` of `Transactor` assumes that a call which can proceed eventually does (its goroutine
is scheduled) and that the server eventually notices a lost connection, without
which its row locks would stay. Nothing obliges the world to call, to fail or to
cancel: `Start`, the faults and `Cancel` have no fairness. Deadlock detection is
part of `Advance`: PostgreSQL detects every deadlock. Fairness is weak only: a
call that waits for a row lock, for a connection of the pool or for a nested
call stays enabled once what it waits for is there and nobody else takes it.

`FairSpec` of `RiverWorker` assumes that attempts are scheduled, but for a handler that does not heed
its context, which need not return; and that the timers of a stop fire (`work.go:131-160` gives each
half a timeout). `Spec` of `AppLifecycle` assumes that the context of a start or stop ends
(`lambda.go:37` gives it 490 ms on Lambda, fx its timeouts elsewhere) and that hooks return when what
they wait for is there; handlers need not return, and nobody has to send a signal. No fairness is
assumed anywhere else.

## 4. Proofs

The `...Proofs` modules are checked by `tlapm`.

| Module | Theorem | Statement |
|---|---|---|
| `TransactorProofs` | `TypeCorrect` | `Spec => []TypeOK` |
| | `CommitInvariantHolds` | `Spec => []CommitInvariant` |
| | `RepliesAreTrue` | `Spec => []ReplyIsTrue` |
| | `NoTxLeftBehind` | `Spec => []NoTxOutlivesItsCall` |
| | `NoUpdateIsLost` | `Spec => []NoLostUpdate` |
| | `ImplementsAtomicWork` | `SelfConcluding = {} => (Spec => AtomicWorkSpec)`, for any `Heedless` |
| `EntTransactorProofs` | `TypeCorrect` | `Spec => []TypeOK` |
| | `RepliesAreTrue` | `Spec => []ReplyIsTrue` |
| | `NestedCallsShareTheirFate` | `Spec => []NestedSharesFate` |
| | `NoUpdateIsLost` | `Spec => []NoLostUpdate` |
| | `ConnectionsAreReturned` | `Spec => []NoTxOutlivesItsCall` |
| | `ClientShutsDownFirst` | `Spec => []ServerOutwaitsClient` |
| `FenceProofs` | `FenceTypes` | `FenceSpec => []FenceTypeOK` |
| | `FenceReachesClient` | `FenceSpec => []PinnedWhenMarkedInTime` |
| | `TypeCorrect` | `Spec => []TypeOK` |
| | `ReadsSeeOwnWrites` | `FenceOutlivesLag => (Spec => []SeesOwnWrites)` |
| | `NoPromotionAfterWindow` | `Spec => PromotionEnds` |
| `TenancyProofs` | `TenancyInvariantHolds` | `Spec => [](TypeOK /\ TenancyInvariant)` |
| | `TenantsAreApart` | `Spec => []RunsForItsRequest` |
| | `RolesAreKept` | `Spec => []RunsAsItsProcedure` |
| | `PooledSessionsAreClean` | `Spec => []IdleIsClean` |
| | `DirectCallsAreRefused` | `Spec => []NoneUnmanaged` |
| `BackgroundProofs` | `PayloadsStayReadable` | `Procedure = "staged" /\ EncryptionAgreed => (RotationSpec => []EveryProcessReads)` |
| | `CodecsKeepNamespacesApart` | `BareNames => (RotationSpec => []NamespacesAreApart)` |
| | `UiServesItsNamespaces` | `Procedure = "staged" /\ BareNames /\ Server \in Enabled => (RotationSpec => []UiReadsAndWrites)` |
| | `TypeCorrect` | `Spec => []TypeOK` |
| | `WorkIsCompletion` | `Spec => []WorkedExactlyWhenCompleted` |
| | `JobsAreAskedFor` | `Spec => []EnqueuedWithItsTransaction` |
| | `WorkIsLimited` | `Spec => []LimitedInTime` |
| | `StopsAreClean` | `Spec => []StoppedMeansIdle` |
| `AccessControlProofs` | `TypeCorrect` | `Spec => []TypeOK` |
| | `HandlersRunAsGranted` | `Spec => []RunsAsGranted` |
| | `WithdrawnKeysAreDistrusted` | `Spec => []WithdrawnKeysExpire` |
| | `NobodyIsLockedOut` | `Spec => []RotationLocksNobodyOut` |
| | `OwnKeysDecide` | `Spec => []OwnCredentialsLast` |
| `ProcessProofs` | `TypeCorrect` | `Spec => []TypeOK` |
| | `RequestsKeepTheirResources` | `Spec => []WebWorkKeepsItsResources` |
| | `EndedProcessesHoldNothing` | `Spec => []StoppedMeansClosed` |
| | `CallersAreToldTheTruth` | `Spec => []AnswersAreTrue` |
| | `ConnectionsAreRight` | `Spec => []ConnectsWhereItShould` |
| | `PosturesAreDeclared` | `Spec => []ServesDeclaredPostures` |
| | `TargetsRunWhatTheyDeployed` | `OpsSpec => []RunsWhatWasDeployed` |
| | `DeploysUseLiveParameters` | `BuildsApart => (OpsSpec => []DeploysLiveParameters)` |
| | `SnapshotsAreOfTheirMigrations` | `SnapshotsFindEnv /\ CopiesApart => (OpsSpec => []SnapshotIsOfTheMigrations)` |
| | `MigrationsGoWhereAsked` | `OpsSpec => MigratesWhereAsked` |

`PostgresProofs` has the lemmas about the database that both transactors use.

What they assume. Those about the transactors hold for every set of calls and rows, every nesting,
every pool size, any retries, deadlines and faults, from `TransactorAssumption` and
`EntTransactorAssumption` alone; likewise those about `WriteFence` from `WriteFenceAssumption`. Those about
`Tenancy` hold for every set of requests, callers, calls and sessions and any number of retries, from
`TenancyAssumption` and the hypothesis that both role and claims are propagated (below). Those about
`RiverWorker` hold for every set of jobs and connections, any timeouts, attempts and faults, from
`RiverWorkerAssumption`. Those about `ReadYourWrites` hold for any calls, servers, clocks that are ahead
by any constant, TTL and lag, from `ReadYourWritesAssumption`; those about `AccessControl` for any keys,
users, procedures, grants and lifetimes, from `AccessControlAssumption`. Those about `KeysetRotation` hold for
any workers, namespaces, allowances and keys, from `KeysetRotationAssumption`, and those about `AppLifecycle` for any
configurations, slots and requests and every order of construction that gives a constructor what it takes, from
`AppLifecycleAssumption`; a request that starts a workflow has no handler of its own there. Those
about `Mage` hold for any sessions of any targets (`MageAssumption`), any deployments, functions (a finite
number of each service, `ServiceDeployAssumption`), tasks, environments and changes, on any number of machines.

Some theorems have a hypothesis on the constants, and each says what the code leaves to its user:

* `Propagated = {"role", "claims"}`, in all of `TenancyProofs`: the composition root wires both propagators,
  as `stdcrpcenttenancytemporalfx.go:17` expects of it and the run does. Without the one of the claims an activity
  runs for nobody.
* `SelfConcluding = {}`: a handler that commits or rolls back by itself can have work applied and then
  fail, as `HandlerConcludes` shows. Transactors cannot prevent it, and the promise of `AtomicWork`
  is not made to such handlers.
* `Procedure = "staged"`: keys are rotated in two deployments. As the package documentation has it, the theorem is
  false (`keyset_rotation_documented`). `EncryptionAgreed`: workers of one namespace either all encrypt or none does;
  `BareNames`: namespaces are configured without the label of their account, as `server.go:29` asks; and the
  codec server has a keyset.
* `FenceOutlivesLag`: what whoever sets `WithTTL` has to see to. Lag is no longer than the Max-Age (in
  whole seconds, as `writefence.go:234` truncates it), and still is not when the server that verifies
  a cookie is ahead of the one that signed it. The instance of the run satisfies it with nothing to spare.
* `SnapshotsFindEnv`: where a snapshot is made, `.env` and `.env.dev` are there; without them it would be one of the
  database that an earlier target has named. `MigrationsGoWhereAsked` does without any such hypothesis.
* `BuildsApart`: while an image is built for an environment nothing else is built on this machine, since
  `BuildPushSetParam` takes the image that its directory's name has by then, twice (`deploy.go:64`, `deploy.go:72`). `CopiesApart`: while
  somebody makes a snapshot, nobody else iterates, diffs, makes another or runs a `BuildPushSetParam` in that working copy, which would
  write migrations or start the development database anew (`dev.go:82`); others may apply the migrations to any database, this one too. `TargetsRunWhatTheyDeployed`
  needs neither. `MCMage` has TLC check that its instance satisfies the three.

*ReplyIsTrue is not inductive*: from a state that satisfies it, an attempt could be
retried although an earlier one has committed. `CommitInvariant` is the
strengthening. Its core is `CommitIsFinal`, that a commit (or a COMMIT nobody awaits)
belongs to the last attempt of its call, which is past the point of no return, with an
outcome that does not deny it, together with `SuccessIsCommitted`, its converse. These need
to know that a commit closes the client's end (`CommitCloses`), that attempts to come have not
touched the database (`UnbegunUntouched`), that only the current attempt has a connection
(`OnlyCurrentConnected`), that the transaction is open until it is concluded
(`OpenUntilConcluded`), and that an error path carries an error (`FailureInHand`).

The invariant speaks of one call at a time and a step touches at most one, which
the proof uses: `Fits` says of the pieces of state of one call what
`CallInvariant` says of the call; a lemma shows that a step which moves one call
to a fitting place and leaves the others alone preserves `CommitInvariant`, and
each action is then a small lemma about the pieces it changes.

*NoLostUpdate is proved of the database*, not of its clients. `SessionStep` of `Postgres` is what a client
may do to its transaction: begin, fail, end, read, update a row that nobody else holds and nobody has
changed since its snapshot, leave a COMMIT hanging, commit. `DbInvariant` is inductive under these
(`SessionPreserves`): a row that a transaction holds has no other holder and still has the value its
snapshot shows, so that what it writes back at its commit counts itself and everyone before. Each
transactor then shows that every action of its own is a step of one session or none, and for
some of them, that needs `CommitInvariant`: it is why a COMMIT is sent at most once.

*The refinement* maps `applied[c]` to "an attempt of c is committed". Most steps stutter. A commit, also one that
the server carries out long after the client is gone, is `AtomicWork`'s step that applies the work: the
whole of it, or what a heedless handler has done of it, because of `WorkInvariant` (a call is about to commit, or has a COMMIT
hanging, only with rows written that it may apply (`Applicable`); a statement that the server refused leaves a
transaction that cannot commit, and one that the plan-cost gate refused lets only a heedless call go on), and for the first
time, because of `CommitInvariant`. A return is its reply, which `CommitIsFinal` and
`SuccessIsCommitted` make true.

*EntTransactor* has the same kind of invariant, with three complications. `database/sql` ends a transaction
with its context behind the call's back and passes that for success at commit, so `Fits` says of
every place what may be left of the transaction there (a transaction that is done under a call still at work means that
the context is over). A nested call works in its outermost call's transaction: `NestedInside` says that
nested calls run one at a time, within their owner's handler, and have no attempt and no
transaction of their own, from which `NestedSharesFate` follows; a step of any call of a family
concerns the outermost one and its current transaction only (`Frame`). And `ServerOutwaitsClient` needs
that a timer, from being computed to being set to going off, is never earlier than deadline and
extension (`TimerAllows`).

*SeesOwnWrites is not inductive*: it speaks of reads that are over. `FenceInvariant` follows the fence of the write
`told` to the client: into the response of the write (`Intercepted`, then pinned), the jar and the next calls,
where the cookie is signed no earlier than the commit (`Fences`) and by a clock of one of the servers (`Genuine`).
`OwnWritesInvariant` adds what a call may do without: if it is sent without a cookie or its cookie
is refused, the replica has caught up with what the client was told. That is where `FenceOutlivesLag` enters:
a cookie that has been discarded or refused is older than the lag (`Waited`, `RefusedAfter`), in whole
seconds truncated on both sides, and `ReplicaInTime` says that the replica has everything older. `PromotionEnds` is the
converse bound (`VerifiedWithin`) and needs no hypothesis, only that cookies are genuine. It says "some server signed
it" rather than naming the one that did, which is not in the cookie.

*RunsForItsRequest is not inductive*: it speaks of the sessions that statements reach now,
and says nothing of a context that has yet to be used. `TenancyInvariant` adds that
every context belongs to one request (`ContextsBelong`): claims, role and, what matters for
goroutines and nested calls, the transaction in it, which is one of the same request, is not
of an attempt to come, and if it is of the current attempt its owner has got past the hook.
So a context never leads to a session that is not posed yet. `SessionsPosed` says of a
session that it is clean, or has the transaction of the current attempt of one call, which no
other session has, and is clean before the hook and posed for that call's context
after it. `MarkerGuarded` is why a direct call with a marked context finds a transaction
in it: the marker never travels without one. `HeadersBelong` is the same for
workflows, and the only place where the propagators matter. Each action is a lemma; `BelongingStays`
and `SessionsStay` say what a step must leave alone.

*WorkedExactlyWhenCompleted is not inductive*: it says nothing of transactions that are still
open and may commit. `WorkInvariant` adds what makes that safe. An attempt to come has touched
nothing (`Fresh`). An attempt at work whose context is not over is the one the row of its job counts,
and the row says "running" (`Current`): River starts another only after the report of the one before or
a rescue, which it does to an attempt whose context is over. So `JobCompleteTx`, which needs a live context,
finds the row "running" and marks it, and nothing is committed unmarked (`Marks`). Whoever has marked
the row has it locked until its transaction ends; reports and rescues wait for the lock, so that it stays the
attempt the row counts (`Locks`), and a commit, also one whose answer is lost and that the server carries out
later, completes a job that is still "running" and unworked. `Reported` says that an attempt reports
success only after it has completed its job, and `Attempts` that a job to be fetched has attempts left.
`AskInvariant`, `TimerInvariant` (connections keep only timeouts that committed jobs have left, and a timer is one of
those or its own job's) and `StopInvariant` are the strengthenings of the other three.

*EveryProcessReads is not inductive*: it speaks of processes that run and of payloads that exist, and the next
deployment brings a process that runs with another keyset. `KeysAreKnown` says that whatever the configured
keyset or one that is loaded encrypts with, and whatever is in the history was encrypted with, is in the configured
keyset and in every one that is loaded. A rotation in two deployments keeps it: a key is promoted when everybody has it,
and removed when nothing was written with it. `EncryptedByWorkers` says that what is encrypted is of a namespace whose
workers encrypt. `NamespacesAreApart` follows from the functions of the codec alone, since a cipher opens nothing under
other additional data. For the codec server, `AnswerStands` adds that no keyset changes behind an answer.

*The properties of AppLifecycle* need to know what is open, and why. An order of construction is seen as the set of the parts
that are done (`Done`), which grows by a part that has all it needs and shrinks by one that no part left needs, since
constructors ran the other way round (`Forward`, `Backward`). `LifeInvariant` says what parts that are done hold open
(`Construction`, `Holding`), and of everything open who is going to close it (`Closing`): the stop hook of a
part that is done, or nobody, for the reasons `StoppedMeansClosed` names. `WebInvariant` says that the
HTTP server takes requests, and has some, only while it is one of the parts that are done, or when the process was
given up because its time had ended; with `Holding` this gives `WebWorkKeepsItsResources`. `SlotInvariant` says of a request what it has been through
by the state it is in: it got past every layer before it reached the handler, the connection it works on was made by the
pool it names, to its host or a fallback of its URL, a commit was one it may make, and its answer is what the layers make of that. `CallersAreToldTheTruth` is then
about the layers of `RequestPath`, one way in after the other (`Telling`).

*The properties of Mage* are about reports of targets that are over, while other processes are at work. `Frame` says that a
process is at a target it was asked for, and that the commands each worker has left are the end of that target's list, in its
order (`Staged`, `Sorted`). What a target has achieved is then said by the commands it has *left*: as long as the one
that establishes something is left, nothing is claimed, and with none left all is. `ServiceKnows` is this for a deploy.
With no push left there is a mark in the history of the tag; with the order to ECS done, what is ordered was pushed since
the mark and every task either is or is about to be replaced (`InTurn`); when the service is stable all tasks run that
(`Runs`), and every function not left to update does (`Calls`). `Knows` is said of one deployment, so that `DeployAll`, whose
workers each do one, is a conjunction of them. What others may do is summed up once (`Drifts`: tags only grow, a task or a
function changes only to what the tag holds or was ordered) and `KnowsDrifts` shows that it undoes nothing. `InfraKnows` and
`Moves` are the same for parameters, with `Published`: what a parameter names is in the registry and of its
environment; after `live_context` and until the synthesis the cache has nothing older than the deploy (`Current`).
`SnapshotKnows` says that from the restart to the dump a development database has applied the first of the migrations and
nothing else, and with no apply left all of them; that this is the schema `SchemaOf` gives needs that migrations
are numbered and so differ (`Migrations`). `ConnectsAsAsked` says
of a process at a target that, where it finds its environment's files, a load of this environment comes before
the next migration, or has been done (`LoadsFirst`, `Loaded`), and `Urls` that a shared database which its variables name, wherever it
is, is one that a target it has begun was to migrate (`Begun`). They are the two halves of `MigrationsGoWhereAsked`. That a snapshot
is of the working copy's own database is `Settled`: from the restart on its process is in the directory with the files. An `up` empties that
database as a restart does; in the process of a snapshot there is none left, and `CopiesApart` says that others have none.
For the images, `AllPaired` says that a digest, on a machine or in the registry, names an image built for the same environment as the one it
was the digest of: with `BuildsApart`, what `tag_digest` finds is what `inspect` saw or another build for that environment.

*The properties of AccessControl* are about an answer, which nothing follows but its being done with; what makes the answers
right is in `AccessInvariant`. The provider's keys are published and withdrawn once (`ProviderInvariant`);
whatever circulates was signed by whoever has the key, and under a provider's key that is not published any more
only if it has been withdrawn (`Genuine`). `CacheInvariant` is the core: as long as no fetch fails, the cache is one
interval behind at most (`Behind`). What it still has was withdrawn in that time, which gives `WithdrawnKeysExpire`; what it
lacks was published in that time, and since the provider waits longer than that before it signs with a key
(`SignWith`), nothing in circulation was signed with it, which gives `RotationLocksNobodyOut`. It needs that a cache
which has fetched goes on refreshing for as long as the service is up (`CacheRefreshes`): the reason why the
cache must not live on the context of the start hook.

All inductive invariants were model-checked on the instance of their run before they were proved.
The proofs also corrected the models. `Settled`, `RequiredDatabaseRole` and `ExitCode` were CASEs whose guards
overlapped, for which TLC takes the first and logic any: they are disjoint now. `HandlerConcludes` of
`EntTransactor` had left out the handler that commits by itself and then returns an error. `UpdateLambdas` had
left out the command that looks up which functions there are, which may fail, also where there are none.

Only model-checked: `EveryCallReturns`, `StopReturns` and `StopEnds` (liveness under fairness is out of
the prover's reach). Every safety and action property of the runs is a theorem; the one that
`keyset_rotation_documented` refutes is proved of the staged procedure. No module of the project declares a RECURSIVE operator.

## 5. Where the code and its documentation disagree

One disagreement is a run:

* `keyset_rotation_documented`: the package documentation (`codec.go:25-36`) has the new key promoted
  before the keyset is shipped. While it is, a process that has been redeployed writes what one
  that has not cannot read. In two deployments, first the key, then its promotion, all is well
  (`keyset_rotation`).

The following were met while modelling. They are in the models, which have what the code
does, and the properties are stated so as to promise no more:

* The comment at `stdtx/transactor.go:107-110` promises a rollback on Goexit. The defer is
  installed after `BeginTx`; a panic or Goexit in the `BeginWithSQL` hook
  (`driver.go:68`) leaves the transaction open and its connection taken.
* The comments of `newDB` and `ApplyPoolHostConventions` (`stdpgxfx/db.go:204-208`, `:268-269`) have the "ro" pool rewrite a
  cluster's writer endpoint to the reader endpoint, so that the pool's host reflects the routing its name asks for. `ConnConfig.Host` is
  rewritten; pgx's `ConnConfig.Fallbacks`, which it fills unless `sslmode` leaves only one way to connect, still have
  the writer. When the reader endpoint cannot be reached, "ro" reads from the writer (`Connections`). Nothing is
  written through it all the same (`ConnectsWhereItShould`).
* `writefence.go:208-212`: `Flush` and `ReadFrom` reach the wire without the hook, and the cookie is lost.
* `writefence.go:158-160` says the same duration is set for a cookie and its signature; a TTL that is not a
  whole number of seconds is truncated (`:234`), and a fence may end before the lag does.
* Of overlapping writes, the response that arrives last wins the cookie, also when it was
  signed first: the fence of the later write may end too early.
* `writefence.go:36-38`: the signature is in whole seconds and the comparison inclusive, so a
  cookie can be accepted for up to a second more than its TTL.
* `stdcrpcauthtemporalfx.go:130-133` says that without claims a tenanted transaction fails in the
  hook. It is opened, in the empty tenant (`stdcrpcenttenancyfx.go:384-393`), and only row level security answers.
* `stdcrpcenttenancyfx.go:265-268` relies on an omitted setting reading as NULL. On a connection where
  it has been set before it reads as the empty string; triggers that test for NULL take the work for somebody's.
* `transact_worker.go:51-58` sets the timeouts of a job with `SET SESSION`. They stay on the connection
  after the commit, and limit whoever takes it next, also a job with a longer timeout.
* `interceptor.go:223-226` says that unannotated procedures are found when the program starts; those of
  other proto packages fail when they are called, as internal errors.
* `stdhttpserverfx/serve.go:59` gives `ReadTimeout` where `READ_HEADER_TIMEOUT` is configured.
* `stdmagesvc/service.go:188`: the comment of `DeployService` says that it updates just the lambdas;
  it updates the service only.

## 6. What is not modelled

Not modelled, and why:

* *A handler that stamps another role over its own* and calls `Transact` inside a transaction: it goes
  on with the outer role, which the comments tell code not to do (hazard at
  `stdcrpcenttenancyfx/transact.go:149`).
* *The arithmetic of the plan-cost gate* (`stdtxpgxv5/tx.go`, `stdent/wtx.go`) on a plan; that it refuses a statement,
  and what a handler makes of that, is in both transactor models (`PlanTooCostly`).
* *Streaming RPCs*, in `AccessControl`: the interceptors of `stdauthnfx` do not see them.
* *`stdawsfx`, and what a secret of `stdawssecretsfx` holds*: calls of AWS through a caching library. That
  a constructor reads a secret, and may fail to, is in `AppLifecycle`.
* *`stdenttypeid`, `stdctx`, `stdenvcfg`, `stdfx`, `stdlo`, `stdzapfx`, `stdbuildinfofx`*: conversions,
  configuration and logging without state or order.
* *`stdcrpcsnap`, the argument reader of `stdcrpc`, CORS, the OpenAPI mount, river's UI and job listing*:
  layout and reads.
* *Test support* (`stdpgtest`, `stdmigrate`, `stdtestcontainer`, `stdtxtest`, `stdenttest`) and
  *generated code* (`*.pb.go`).
* *Printing, linting, releasing and bootstrapping targets* of `stdmage`, and ECS' rollback of a
  deployment whose tasks do not start.
