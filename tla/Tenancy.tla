------------------------------ MODULE Tenancy ------------------------------
(***************************************************************************)
(* Which PostgreSQL role, tenant and subject every transaction runs with:  *)
(* stdcrpcenttenancyfx's interceptor, Transact helpers and begin hook over *)
(* stdent's transactions, sessions that a pool hands from one request to   *)
(* the next, and the propagators that carry role and claims from an RPC    *)
(* through a Temporal workflow into its activities.                        *)
(***************************************************************************)
EXTENDS Naturals

CONSTANTS
    Request,        \* what makes the program work: RPCs and background jobs
    RoleOf,         \* RoleOf[r]: the procedure's db_role, "none" for a job
    CallerOf,       \* CallerOf[r]: whose token came with r, Nobody for none
    Nobody,
    Session,        \* connections of the pool
    Call,           \* bound: the handlers, activities and calls of Transact
    MaxRetries,
    Stampable,      \* what trusted code without a role stamps on its context
    Propagated      \* the wired propagators: a subset of {"role", "claims"}

Caller == {CallerOf[r] : r \in Request} \cup {Nobody}

Posture == {"anonymous", "webuser", "sysuser"}
Role == Posture \cup {"none", "unspecified"}

ASSUME TenancyAssumption ==
    /\ Request # {}
    /\ RoleOf \in [Request -> Posture \cup {"none"}]
    /\ MaxRetries \in Nat
    /\ Stampable \subseteq Posture \cup {"unspecified"}
    /\ Propagated \subseteq {"role", "claims"}
    /\ Nobody \notin {"NULL", ""}
    /\ \A r \in Request : CallerOf[r] \notin {"NULL", ""}

VARIABLES
    stage,      \* stage[k]: how far call k has come
    entry,      \* entry[k]: "body" of a handler or activity, or how it transacts
    given,      \* given[k]: the context k was called with
    ctx,        \* ctx[k]: the context its function works with
    attempt,    \* attempt[k]: the attempt at its own transaction
    origin,     \* origin[k]: history: the request k works for
    session,    \* session[s]: a connection of the pool
    headers     \* the workflows started so far, by what their header says

callvars == <<stage, entry, given, ctx, attempt, origin>>
vars == <<callvars, session, headers>>

Tx == Call \X (1 .. MaxRetries + 1)
NoTx == <<>>

(* "returned" after its function ran, "failed" when it never did.          *)
Stage == {"new", "opening", "setup", "running", "returned", "failed"}

(* role: the database role.  claims: the verified token.  managed: the     *)
(* marker of Transact.  tx: the transaction stdent put there.              *)
Context == [role : Role, claims : Caller, managed : BOOLEAN, tx : Tx \cup {NoTx}]

Background == [role |-> "none", claims |-> Nobody, managed |-> FALSE, tx |-> NoTx]

(* A setting nobody ever set reads as NULL, one that has been reset as the *)
(* empty string: PostgreSQL keeps the name.                                *)
Reset == {"NULL", ""}

Connected == [tx |-> NoTx, role |-> "authenticator", tenant |-> "NULL", subject |-> "NULL"]

SessionState ==
    [tx : Tx \cup {NoTx}, role : Posture \cup {"authenticator"},
     tenant : Caller \cup Reset, subject : Caller \cup Reset]

Header == [role : Role, claims : Caller, origin : Request]

TypeOK ==
    /\ stage \in [Call -> Stage]
    /\ entry \in [Call -> {"body", "managed", "direct"}]
    /\ given \in [Call -> Context]
    /\ ctx \in [Call -> Context]
    /\ attempt \in [Call -> 1 .. MaxRetries + 1]
    /\ origin \in [Call -> Request]
    /\ session \in [Session -> SessionState]
    /\ headers \subseteq Header

Init ==
    /\ stage = [k \in Call |-> "new"]
    /\ entry = [k \in Call |-> "body"]
    /\ given = [k \in Call |-> Background]
    /\ ctx = [k \in Call |-> Background]
    /\ attempt = [k \in Call |-> 1]
    /\ origin = [k \in Call |-> CHOOSE r \in Request : TRUE]
    /\ session = [s \in Session |-> Connected]
    /\ headers = {}
-----------------------------------------------------------------------------
Enter(k, how, context, to, request) ==
    /\ stage[k] = "new"
    /\ stage' = [stage EXCEPT ![k] = to]
    /\ entry' = [entry EXCEPT ![k] = how]
    /\ given' = [given EXCEPT ![k] = context]
    /\ ctx' = [ctx EXCEPT ![k] = context]
    /\ origin' = [origin EXCEPT ![k] = request]
    /\ UNCHANGED <<attempt, session, headers>>

Goto(k, to) ==
    /\ stage' = [stage EXCEPT ![k] = to]
    /\ UNCHANGED <<entry, given, ctx, attempt, origin, headers>>

(* The interceptor stamps the procedure's role, the authn middleware the   *)
(* claims; a background job has neither.                                   *)
Serve(k, r) ==
    Enter(k, "body", [Background EXCEPT !.role = RoleOf[r], !.claims = CallerOf[r]],
          "running", r)

(* WithDatabaseRole by trusted code that has no inbound RPC.               *)
WithDatabaseRole(k, role) ==
    /\ stage[k] = "running"
    /\ ctx[k].role = "none"
    /\ ctx' = [ctx EXCEPT ![k].role = role]
    /\ UNCHANGED <<stage, entry, given, attempt, origin, session, headers>>

(* stdent.Transact1 with the context of p: in the transaction found there, *)
(* or in one of its own.  The caller may wait for it or be a goroutine     *)
(* that p leaves behind.                                                   *)
Transact1(k, p, how, context) ==
    Enter(k, how, context,
          IF context.tx = NoTx THEN "opening" ELSE "running", origin[p])

hasRole(context) == context.role # "none"

(* The marker that only the package's helpers put on a context.            *)
ContextWithManagedTx(context) == [context EXCEPT !.managed = TRUE]

(* The function of p still runs, or has left a goroutine behind.           *)
HasRun(p) == stage[p] \in {"running", "returned"}

TransactRefused(k, p) ==
    /\ HasRun(p)
    /\ ~hasRole(ctx[p])
    /\ Enter(k, "managed", ctx[p], "failed", origin[p])

Transact(k, p) ==
    /\ HasRun(p)
    /\ hasRole(ctx[p])
    /\ Transact1(k, p, "managed", ContextWithManagedTx(ctx[p]))

(* A developer calls stdent directly.                                      *)
DirectTransact(k, p) ==
    /\ HasRun(p)
    /\ Transact1(k, p, "direct", ctx[p])
-----------------------------------------------------------------------------
Own(k) == <<k, attempt[k]>>

Idle(s) == session[s].tx = NoTx

(* What SET LOCAL and set_config(.., true) did ends with the transaction.  *)
AfterReset(guc) == IF guc = "NULL" THEN "NULL" ELSE ""

(* Mutant: SET in place of SET LOCAL.                                      *)
ReleasedWithPosture(c) == [c EXCEPT !.tx = NoTx]

Released(c) ==
    [tx |-> NoTx, role |-> "authenticator",
     tenant |-> AfterReset(c.tenant), subject |-> AfterReset(c.subject)]

(* Rolled back or committed: whichever session tx t has is idle again.     *)
EndTx(t) ==
    session' = [s \in Session |->
                    IF session[s].tx = t THEN Released(session[s]) ELSE session[s]]

Open(k, s) ==
    /\ stage[k] = "opening"
    /\ Idle(s)
    /\ session' = [session EXCEPT ![s].tx = Own(k)]
    /\ Goto(k, "setup")

OpenFails(k) ==
    /\ stage[k] = "opening"
    /\ Goto(k, "failed")
    /\ UNCHANGED session

(* Mutant: one of the backstops is missing.                                *)
AcceptsUnmanaged(context) == context.role \in Posture

(* BeginHook's two backstops.                                              *)
Accepts(context) == context.managed /\ context.role \in Posture

(* The resolvers, which read the claims: "" for a caller who is nobody.    *)
TenantIDFromContext(context) == IF context.claims = Nobody THEN "" ELSE context.claims
SubjectFromContext(context) == IF context.claims = Nobody THEN "" ELSE context.claims

(* Mutant: the tenant is written for every role.                           *)
TenantForAll(c, context) == TenantIDFromContext(context)

(* resolve: the tenant, empty or not, for a webuser only.                  *)
Tenant(c, context) ==
    IF context.role = "webuser" THEN TenantIDFromContext(context) ELSE c.tenant

(* The SQL of BeginHook: tenant, subject unless it is empty, and role.     *)
WithPosture(c, context) ==
    LET subject == SubjectFromContext(context)
    IN  [c EXCEPT
            !.role = context.role,
            !.tenant = Tenant(c, context),
            !.subject = IF subject = "" THEN @ ELSE subject]

BeginHook(k, s) ==
    /\ stage[k] = "setup"
    /\ session[s].tx = Own(k)
    /\ Accepts(given[k])
    /\ session' = [session EXCEPT ![s] = WithPosture(@, given[k])]
    /\ stage' = [stage EXCEPT ![k] = "running"]
    /\ ctx' = [ctx EXCEPT ![k] = [given[k] EXCEPT !.tx = Own(k)]]
    /\ UNCHANGED <<entry, given, attempt, origin, headers>>

(* The hook refuses, or its SQL fails, or the connection is gone.          *)
SetupFails(k) ==
    /\ stage[k] = "setup"
    /\ EndTx(Own(k))
    /\ Goto(k, "failed")

MayRetry(k) == attempt[k] <= MaxRetries

(* 40001: once more, from the context that Transact1 was called with.      *)
Retry(k) ==
    /\ stage[k] = "running"
    /\ \E s \in Session : session[s].tx = Own(k)
    /\ MayRetry(k)
    /\ EndTx(Own(k))
    /\ stage' = [stage EXCEPT ![k] = "opening"]
    /\ attempt' = [attempt EXCEPT ![k] = @ + 1]
    /\ UNCHANGED <<entry, given, ctx, origin, headers>>

(* Commit or rollback of a transaction of its own; a nested call leaves    *)
(* the outer one alone.                                                    *)
Return(k) ==
    /\ stage[k] = "running"
    /\ IF ctx[k].tx = Own(k) THEN EndTx(Own(k)) ELSE UNCHANGED session
    /\ Goto(k, "returned")

(* database/sql rolls back when the context is cancelled, while the        *)
(* function may still be running.                                          *)
Cancelled(k) ==
    /\ stage[k] = "running" /\ ctx[k].tx = Own(k)
    /\ EndTx(Own(k))
    /\ UNCHANGED <<callvars, headers>>

(* The pool replaces a connection that broke.                              *)
Reconnect(s) ==
    /\ session' = [session EXCEPT ![s] = Connected]
    /\ UNCHANGED <<callvars, headers>>
-----------------------------------------------------------------------------
(* Inject, and what ExtractToWorkflow and InjectFromWorkflow hand on.      *)
Injected(context, request) ==
    [role |-> IF "role" \in Propagated /\ context.role # "unspecified"
              THEN context.role ELSE "none",
     claims |-> IF "claims" \in Propagated THEN context.claims ELSE Nobody,
     origin |-> request]

StartWorkflow(k) ==
    /\ HasRun(k)
    /\ headers' = headers \cup {Injected(ctx[k], origin[k])}
    /\ UNCHANGED <<callvars, session>>

(* Mutant: activities stamp sysuser, as code without an RPC does.          *)
ExtractedAsSysuser(h) ==
    [Background EXCEPT !.role = "sysuser", !.claims = h.claims]

Extracted(h) == [Background EXCEPT !.role = h.role, !.claims = h.claims]

(* An activity, or a retry of one.                                         *)
Activity(k, h) == Enter(k, "body", Extracted(h), "running", h.origin)

Finished ==
    /\ \A k \in Call : stage[k] \in {"returned", "failed"}
    /\ UNCHANGED vars

Next ==
    \/ \E k \in Call :
        \/ \E r \in Request : Serve(k, r)
        \/ \E role \in Stampable : WithDatabaseRole(k, role)
        \/ \E p \in Call : Transact(k, p) \/ TransactRefused(k, p) \/ DirectTransact(k, p)
        \/ \E s \in Session : Open(k, s) \/ BeginHook(k, s)
        \/ OpenFails(k) \/ SetupFails(k) \/ Retry(k) \/ Return(k) \/ Cancelled(k)
        \/ StartWorkflow(k)
        \/ \E h \in headers : Activity(k, h)
    \/ \E s \in Session : Reconnect(s)
    \/ Finished

Spec == Init /\ [][Next]_vars
-----------------------------------------------------------------------------
(* Statements of call k, which may be nested in another or left behind by  *)
(* it, reach session s.                                                    *)
Reaches(k, s) == stage[k] = "running" /\ ctx[k].tx # NoTx /\ session[s].tx = ctx[k].tx

(* The value of a setting that was made for caller c.                      *)
For(guc, c) == IF c = Nobody THEN guc \in Reset ELSE guc = c

(* However it got there, through nested calls, goroutines, retries, a      *)
(* workflow, or on a connection somebody else used before, a statement     *)
(* runs in the tenant of the request that caused it when it runs as a      *)
(* webuser, in no tenant otherwise, and is attributed to its caller.       *)
RunsForItsRequest ==
    \A k \in Call, s \in Session : Reaches(k, s) =>
        LET c == CallerOf[origin[k]]
        IN  /\ For(session[s].tenant, IF session[s].role = "webuser" THEN c ELSE Nobody)
            /\ For(session[s].subject, c)

(* ... and with the role of the procedure that was called: neither a       *)
(* workflow nor the code of an activity changes it.                        *)
RunsAsItsProcedure ==
    \A k \in Call, s \in Session : Reaches(k, s) =>
        /\ session[s].role \in Posture
        /\ RoleOf[origin[k]] # "none" => session[s].role = RoleOf[origin[k]]

(* Nothing of a transaction stays on a connection of the pool, wherever    *)
(* and however it ended.                                                   *)
IdleIsClean ==
    \A s \in Session : Idle(s) =>
        /\ session[s].role = "authenticator"
        /\ session[s].tenant \in Reset /\ session[s].subject \in Reset

(* Nobody gets a transaction of its own past Transact: not even with a     *)
(* context that has been through it.                                       *)
NoneUnmanaged ==
    \A k \in Call : entry[k] = "direct" /\ stage[k] = "running" =>
        ctx[k].tx # Own(k)
-----------------------------------------------------------------------------
(* Why: the inductive invariant.  A context belongs to the work for one    *)
(* request, also by the transaction in it, which is never one that has not *)
(* got its posture yet.                                                    *)
BelongsTo(context, request) ==
    /\ context.claims = CallerOf[request]
    /\ RoleOf[request] # "none" => context.role = RoleOf[request]
    /\ \A k \in Call, n \in 1 .. MaxRetries + 1 : context.tx = <<k, n>> =>
          /\ origin[k] = request
          /\ stage[k] # "new"
          /\ n <= attempt[k]
          /\ n = attempt[k] => HasRun(k)

ContextsBelong ==
    \A k \in Call : stage[k] # "new" =>
        BelongsTo(given[k], origin[k]) /\ BelongsTo(ctx[k], origin[k])

HeadersBelong ==
    \A h \in headers :
        /\ h.claims = CallerOf[h.origin]
        /\ RoleOf[h.origin] # "none" => h.role = RoleOf[h.origin]

(* The marker never travels without a transaction into a function.         *)
MarkerGuarded ==
    \A k \in Call :
        /\ HasRun(k) /\ ctx[k].managed => ctx[k].tx # NoTx
        /\ entry[k] = "direct" /\ stage[k] \in {"opening", "setup"} => ~given[k].managed
        /\ entry[k] = "direct" /\ stage[k] = "running" => ctx[k].tx # Own(k)

Clean(c) ==
    c.role = "authenticator" /\ c.tenant \in Reset /\ c.subject \in Reset

PosedFor(c, context) ==
    /\ c.role = context.role /\ c.role \in Posture
    /\ For(c.tenant, IF c.role = "webuser" THEN context.claims ELSE Nobody)
    /\ For(c.subject, context.claims)

(* A session is idle, or has the current transaction of one call.          *)
SessionsPosed ==
    \A s \in Session :
        /\ Idle(s) => Clean(session[s])
        /\ \A k \in Call, n \in 1 .. MaxRetries + 1 : session[s].tx = <<k, n>> =>
              /\ n = attempt[k]
              /\ \A u \in Session : session[u].tx = <<k, n>> => u = s
              /\ \/ stage[k] = "setup" /\ Clean(session[s])
                 \/ /\ stage[k] = "running" /\ ctx[k].tx = <<k, n>>
                    /\ PosedFor(session[s], given[k])

TenancyInvariant ==
    ContextsBelong /\ HeadersBelong /\ MarkerGuarded /\ SessionsPosed
=============================================================================
