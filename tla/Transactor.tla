----------------------------- MODULE Transactor -----------------------------
(***************************************************************************)
(* stdtx.Transact1 over the pgx driver: concurrent calls that run their    *)
(* handler in a transaction, retry serialization failures and deadlocks,   *)
(* and roll back on errors, panics and runtime.Goexit, against a database  *)
(* whose connections and commits can be lost.                              *)
(***************************************************************************)
EXTENDS Naturals, FiniteSets

CONSTANTS
    Caller,         \* calls of Transact1
    Row,
    Work,           \* Work[c]: the rows c's handler increments
    Parent,         \* Parent[c]: the call whose handler makes call c, or c itself
    MaxRetries,     \* driver.SerializationFailureMaxRetries
    PoolSize,       \* connections of the pgxpool.Pool
    SelfConcluding, \* calls whose handler may commit or roll back by itself
    Heedless,       \* calls whose handler may swallow that a plan was too costly
    HookMayPanic,   \* whether a BeginWithSQL hook may panic or Goexit
    MaxFaults       \* bound: how many things may go wrong in a behaviour

ASSUME TransactorAssumption ==
    /\ Work \in [Caller -> SUBSET Row]
    /\ Parent \in [Caller -> Caller]
    /\ MaxRetries \in Nat
    /\ PoolSize \in Nat \ {0}
    /\ SelfConcluding \subseteq Caller
    /\ Heedless \subseteq Caller
    /\ HookMayPanic \in BOOLEAN
    /\ MaxFaults \in Nat

VARIABLES
    srv, writes, snap, value,   \* the database, see Postgres
    pc,         \* pc[c]: where call c is in Transact1
    attempt,    \* attempt[c]: exec.Attempts(), 0 before the first
    failure,    \* failure[c]: what the attempt under way is ending with
    reply,      \* reply[c]: how the call returned
    dead,       \* dead[c]: the call's context is done
    conn,       \* conn[t]: the client's end of transaction t
    faults      \* how many things went wrong so far

dbvars == <<srv, writes, snap, value>>
callvars == <<pc, attempt, failure, reply, dead>>
vars == <<dbvars, conn, callvars, faults>>

Attempt == 1 .. MaxRetries + 1
TxId == Caller \X Attempt
Tx(c) == <<c, attempt[c]>>

INSTANCE Postgres

Place == {"idle", "begin", "setup", "handler", "stmtError", "rollback",
          "commit", "defer", "judge", "backoff", "returned", "unwound"}

(* A call is "unwound" when a panicking hook left it without any cleanup.  *)
Gone(c) == pc[c] \in {"returned", "unwound"}

(* "retryable" is a PgError with one of driver.SerializationFailureCodes,  *)
(* "costly" the refusal of the plan-cost gate, "commit" an error of        *)
(* CommitTx that is not retryable.                                         *)
Failure == {"nil", "retryable", "costly", "fatal", "commit", "panic", "goexit"}

Outcome == {"none", "ok", "error", "commitError", "canceled",
            "panicked", "exited", "refused"}

(* A "broken" connection is still the transaction's, which pgx does not    *)
(* consider closed until it has been rolled back or committed.             *)
Connection == {"none", "held", "broken", "closed"}

CallTypeOK ==
    /\ pc \in [Caller -> Place]
    /\ attempt \in [Caller -> 0 .. MaxRetries + 1]
    /\ failure \in [Caller -> Failure]
    /\ reply \in [Caller -> Outcome]
    /\ dead \in [Caller -> BOOLEAN]

TypeOK ==
    /\ DbTypeOK
    /\ CallTypeOK
    /\ conn \in [TxId -> Connection]
    /\ faults \in 0 .. MaxFaults

Init ==
    /\ DbInit
    /\ pc = [c \in Caller |-> "idle"]
    /\ attempt = [c \in Caller |-> 0]
    /\ failure = [c \in Caller |-> "nil"]
    /\ reply = [c \in Caller |-> "none"]
    /\ dead = [c \in Caller |-> FALSE]
    /\ conn = [t \in TxId |-> "none"]
    /\ faults = 0

Goto(c, place) == pc' = [pc EXCEPT ![c] = place]
SetConn(c, s) == conn' = [conn EXCEPT ![Tx(c)] = s]

(* Call c moves on with failure f in hand; its context and its attempt     *)
(* stay what they are.                                                     *)
Carry(c, f, place) ==
    /\ Goto(c, place)
    /\ failure' = [failure EXCEPT ![c] = f]
    /\ UNCHANGED <<attempt, reply, dead>>

Return(c, how, place) ==
    /\ Goto(c, place)
    /\ reply' = [reply EXCEPT ![c] = how]
    /\ failure' = [failure EXCEPT ![c] = "nil"]
    /\ dead' = [dead EXCEPT ![c] = FALSE]
    /\ UNCHANGED attempt

NewAttempt(c) ==
    /\ Goto(c, "begin")
    /\ attempt' = [attempt EXCEPT ![c] = @ + 1]
    /\ failure' = [failure EXCEPT ![c] = "nil"]
    /\ UNCHANGED <<reply, dead>>
-----------------------------------------------------------------------------
(* A handler that calls Transact1 itself waits for it to return.           *)
Busy(c) == \E n \in Caller \ {c} : Parent[n] = c /\ pc[n] # "idle" /\ ~Gone(n)

InHandler(c) == pc[c] \in {"handler", "stmtError"} /\ ~Busy(c)

(* Mutant: contextWithAttempts is forgotten.                               *)
AttemptsNotInContext(c) == FALSE

(* Whether the context of call c carries the attempts of a transaction up  *)
(* the call chain.                                                         *)
AttemptsInContext(c) == Parent[c] # c

Reachable(c) == AttemptsInContext(c) => InHandler(Parent[c])

StartRefused(c) ==
    /\ pc[c] = "idle"
    /\ Reachable(c)
    /\ AttemptsInContext(c)
    /\ Return(c, "refused", "returned")
    /\ UNCHANGED <<conn, dbvars>>

Start(c) ==
    /\ pc[c] = "idle"
    /\ Reachable(c)
    /\ ~AttemptsInContext(c)
    /\ NewAttempt(c)
    /\ UNCHANGED <<conn, dbvars>>

InUse == {t \in TxId : conn[t] \in {"held", "broken"}}

Begin(c) ==
    /\ pc[c] = "begin"
    /\ ~dead[c]
    /\ Cardinality(InUse) < PoolSize
    /\ SetConn(c, "held")
    /\ SrvSet(Tx(c), "begun")
    /\ Carry(c, "nil", "setup")

BeginFails(c) ==
    /\ pc[c] = "begin"
    /\ Carry(c, "fatal", "judge")
    /\ UNCHANGED <<conn, dbvars>>

(* The connection of c's transaction can be used: neither is it lost, nor  *)
(* has the context that every use of it takes been cancelled.              *)
Usable(c) == conn[Tx(c)] = "held" /\ ~dead[c]

(* tx.Rollback: answered by the server; not deliverable, which destroys    *)
(* the connection; or on a transaction that is closed already.             *)
RollbackTx(c) ==
    \/ /\ Usable(c)
       /\ SetConn(c, "closed")
       /\ SrvEnd(Tx(c))
    \/ /\ conn[Tx(c)] # "closed" /\ ~Usable(c)
       /\ SetConn(c, "closed")
       /\ UNCHANGED dbvars
    \/ /\ conn[Tx(c)] = "closed"
       /\ UNCHANGED <<conn, dbvars>>

Setup(c) ==
    /\ pc[c] = "setup"
    /\ Usable(c)
    /\ Carry(c, "nil", "handler")
    /\ UNCHANGED <<conn, dbvars>>

(* Mutant: BeginTx forgets to roll back when setupTx fails.                *)
SetupFailsLeavingTx(c) ==
    /\ pc[c] = "setup"
    /\ \E f \in {"retryable", "fatal"} : Carry(c, f, "judge")
    /\ UNCHANGED <<conn, dbvars>>

SetupFails(c) ==
    /\ pc[c] = "setup"
    /\ \E f \in {"retryable", "fatal"} : Carry(c, f, "judge")
    /\ RollbackTx(c)

(* Nothing is deferred yet that would roll the transaction back.           *)
SetupPanics(c) ==
    /\ pc[c] = "setup"
    /\ HookMayPanic
    /\ Return(c, "panicked", "unwound")
    /\ UNCHANGED <<conn, dbvars>>
-----------------------------------------------------------------------------
(* The handler's statements; one that has to wait for a row lock is one    *)
(* that is not taken yet.                                                  *)
Querying(c, s) == pc[c] = "handler" /\ ~Busy(c) /\ Usable(c) /\ srv[Tx(c)] = s

Read(c) ==
    /\ Querying(c, "begun")
    /\ SrvRead(Tx(c))
    /\ UNCHANGED <<conn, callvars>>

Pending(c) == Work[c] \ writes[Tx(c)]

(* Mutant: the driver leaves the isolation level at read committed.        *)
ConflictsReadCommitted(t, r) == FALSE

(* Repeatable read: the row was updated since the snapshot was taken.      *)
Conflicts(t, r) == value[r] # snap[t][r]

Update(c) ==
    /\ Querying(c, "open")
    /\ \E r \in Pending(c) :
        /\ ~Locked(Tx(c), r)
        /\ ~Conflicts(Tx(c), r)
        /\ SrvUpdate(Tx(c), r)
    /\ UNCHANGED <<conn, callvars>>

StatementFails(c, f) ==
    /\ SrvSet(Tx(c), "aborted")
    /\ Carry(c, f, "stmtError")
    /\ UNCHANGED conn

SerializationFailure(c) ==
    /\ Querying(c, "open")
    /\ \E r \in Pending(c) : ~Locked(Tx(c), r) /\ Conflicts(Tx(c), r)
    /\ StatementFails(c, "retryable")

(* A set of transactions each of which waits for another one of the set.   *)
WaitsWithin(d, S) ==
    /\ Pending(d) # {}
    /\ \A r \in Pending(d) : \E e \in S \ {d} : Holds(Tx(e), r)

Deadlock(c) ==
    \E S \in SUBSET Caller :
        /\ c \in S
        /\ \A d \in S : Querying(d, "open")
        /\ \A d \in S : WaitsWithin(d, S)
        /\ StatementFails(c, "retryable")

(* The server refuses a statement, or the EXPLAIN of it.                   *)
StatementRejected(c) ==
    /\ Querying(c, "open") \/ Querying(c, "begun")
    /\ StatementFails(c, "fatal")

(* wtx refuses a statement for the cost of its plan: the server has seen   *)
(* nothing but an EXPLAIN, a read, and the transaction can go on.          *)
PlanTooCostly(c) ==
    /\ Querying(c, "open")
    /\ Carry(c, "costly", "stmtError")
    /\ UNCHANGED <<conn, dbvars>>

StatementLost(c) ==
    /\ pc[c] = "handler" /\ ~Busy(c) /\ ~Usable(c)
    /\ SetConn(c, "broken")
    /\ Carry(c, "fatal", "stmtError")
    /\ UNCHANGED dbvars
-----------------------------------------------------------------------------
(* The handler returns, with or without an error of its own, with the      *)
(* statement's, or having swallowed it; panics; or exits its goroutine.    *)
HandlerSucceeds(c) ==
    /\ pc[c] = "handler" /\ ~Busy(c)
    /\ writes[Tx(c)] = Work[c]
    /\ Carry(c, "nil", "commit")
    /\ UNCHANGED <<conn, dbvars>>

HandlerSwallows(c) ==
    /\ pc[c] = "stmtError" /\ ~Busy(c)
    /\ failure[c] = "costly" => c \in Heedless
    /\ Carry(c, "nil", "commit")
    /\ UNCHANGED <<conn, dbvars>>

HandlerPropagates(c) ==
    /\ pc[c] = "stmtError" /\ ~Busy(c)
    /\ Carry(c, failure[c], "rollback")
    /\ UNCHANGED <<conn, dbvars>>

HandlerFails(c) ==
    /\ InHandler(c)
    /\ Carry(c, "fatal", "rollback")
    /\ UNCHANGED <<conn, dbvars>>

HandlerPanics(c) ==
    /\ InHandler(c)
    /\ Carry(c, "panic", "rollback")
    /\ UNCHANGED <<conn, dbvars>>

HandlerExits(c) ==
    /\ InHandler(c)
    /\ Carry(c, "goexit", "defer")
    /\ UNCHANGED <<conn, dbvars>>

(* The handler concludes the transaction itself and then returns, whatever *)
(* error it likes.                                                         *)
HandlerConcludes(c) ==
    /\ c \in SelfConcluding
    /\ Querying(c, "open")
    /\ SetConn(c, "closed")
    /\ \/ /\ writes[Tx(c)] = Work[c]
          /\ SrvCommit(Tx(c))
       \/ SrvEnd(Tx(c))
    /\ \/ Carry(c, "nil", "commit")
       \/ \E f \in {"retryable", "fatal"} : Carry(c, f, "rollback")
-----------------------------------------------------------------------------
(* The rollback in the error path and in the recovered panic's.            *)
Rollback(c) ==
    /\ pc[c] = "rollback"
    /\ Carry(c, failure[c], "defer")
    /\ RollbackTx(c)

DeferredRollback(c) ==
    /\ pc[c] = "defer"
    /\ Carry(c, failure[c], "judge")
    /\ RollbackTx(c)

CommitHookFails(c) ==
    /\ pc[c] = "commit"
    /\ \/ \E f \in {"retryable", "commit"} : Carry(c, f, "defer")
       \/ Carry(c, "panic", "rollback")
    /\ UNCHANGED <<conn, dbvars>>

(* The handler concluded the transaction: TxDoneError is no error.         *)
CommitClosed(c) ==
    /\ pc[c] = "commit"
    /\ conn[Tx(c)] = "closed"
    /\ Carry(c, "nil", "defer")
    /\ UNCHANGED <<conn, dbvars>>

Committing(c, s) == pc[c] = "commit" /\ Usable(c) /\ srv[Tx(c)] \in s

Commit(c) ==
    /\ Committing(c, {"begun", "open"})
    /\ SetConn(c, "closed")
    /\ SrvCommit(Tx(c))
    /\ Carry(c, "nil", "defer")

(* A transaction that had failed is rolled back instead.                   *)
CommitRolledBack(c) ==
    /\ Committing(c, {"aborted"})
    /\ SetConn(c, "closed")
    /\ SrvEnd(Tx(c))
    /\ Carry(c, "commit", "defer")

(* 40001 at COMMIT.                                                        *)
CommitRefused(c) ==
    /\ Committing(c, {"open"})
    /\ SetConn(c, "closed")
    /\ SrvEnd(Tx(c))
    /\ Carry(c, "retryable", "defer")

CommitUnsent(c) ==
    /\ pc[c] = "commit"
    /\ conn[Tx(c)] # "closed" /\ ~Usable(c)
    /\ SetConn(c, "closed")
    /\ Carry(c, "commit", "defer")
    /\ UNCHANGED dbvars

(* The connection is lost, or the context cancelled, before the answer.    *)
CommitUnanswered(c) ==
    /\ Committing(c, {"begun", "open"})
    /\ SetConn(c, "closed")
    /\ SrvSet(Tx(c), "committing")
    /\ Carry(c, "commit", "defer")
-----------------------------------------------------------------------------
(* Mutants: <= for <; commit errors retried; commit errors that pass for   *)
(* failures of the transaction.                                            *)
RetriesOnceMore(c) == failure[c] = "retryable" /\ attempt[c] <= MaxRetries + 1

RetriesCommitErrors(c) ==
    failure[c] \in {"retryable", "commit"} /\ attempt[c] <= MaxRetries

SettledUnambiguously(c) ==
    CASE failure[c] = "nil" -> "ok"
      [] failure[c] = "panic" -> "panicked"
      [] failure[c] = "goexit" -> "exited"
      [] OTHER -> "error"

(* failsafe's retry policy.  With the context done it may answer with the  *)
(* context's error instead of the attempt's outcome.                       *)
Retries(c) == failure[c] = "retryable" /\ attempt[c] <= MaxRetries

Settled(c) ==
    CASE failure[c] = "nil" -> "ok"
      [] failure[c] = "commit" -> "commitError"
      [] failure[c] = "panic" -> "panicked"
      [] failure[c] = "goexit" -> "exited"
      [] OTHER -> "error"

Judge(c) ==
    /\ pc[c] = "judge"
    /\ \/ Retries(c) /\ ~dead[c] /\ Carry(c, failure[c], "backoff")
       \/ ~Retries(c) /\ Return(c, Settled(c), "returned")
       \/ dead[c] /\ failure[c] \notin {"panic", "goexit"} /\ Return(c, "canceled", "returned")
    /\ UNCHANGED <<conn, dbvars>>

Retry(c) ==
    /\ pc[c] = "backoff"
    /\ \/ ~dead[c] /\ NewAttempt(c)
       \/ dead[c] /\ Return(c, "canceled", "returned")
    /\ UNCHANGED <<conn, dbvars>>

(* The context the caller passed in is cancelled or times out.             *)
Cancel(c) ==
    /\ pc[c] # "idle" /\ ~Gone(c)
    /\ ~dead[c]
    /\ dead' = [dead EXCEPT ![c] = TRUE]
    /\ UNCHANGED <<pc, attempt, failure, reply, conn, dbvars>>

ConnectionBreaks(c) ==
    /\ attempt[c] > 0
    /\ conn[Tx(c)] = "held"
    /\ SetConn(c, "broken")
    /\ UNCHANGED <<callvars, dbvars>>

(* The server finds out that t's connection is gone.                       *)
Reap(t) ==
    /\ conn[t] \in {"broken", "closed"}
    /\ SrvReap(t)
    /\ UNCHANGED <<conn, callvars, faults>>
-----------------------------------------------------------------------------
(* What a call does when nothing new goes wrong ...                        *)
Advance(c) ==
    \/ Begin(c) \/ Setup(c)
    \/ Read(c) \/ Update(c) \/ SerializationFailure(c) \/ Deadlock(c)
    \/ HandlerSucceeds(c) \/ HandlerPropagates(c)
    \/ Rollback(c) \/ DeferredRollback(c)
    \/ Commit(c) \/ CommitRolledBack(c) \/ CommitClosed(c)
    \/ Judge(c) \/ Retry(c)
    \* at the next use of a dead context or a broken connection
    \/ dead[c] /\ BeginFails(c)
    \/ pc[c] = "setup" /\ ~Usable(c) /\ SetupFails(c)
    \/ StatementLost(c) \/ CommitUnsent(c)

(* ... and what can go wrong.                                              *)
Fault(c) ==
    \/ BeginFails(c) \/ SetupFails(c) \/ SetupPanics(c)
    \/ StatementRejected(c) \/ PlanTooCostly(c)
    \/ HandlerSwallows(c) \/ HandlerFails(c) \/ HandlerPanics(c)
    \/ HandlerExits(c) \/ HandlerConcludes(c)
    \/ CommitHookFails(c) \/ CommitRefused(c) \/ CommitUnanswered(c)
    \/ Cancel(c) \/ ConnectionBreaks(c)

Step(c) ==
    /\ Start(c) \/ StartRefused(c) \/ Advance(c)
    /\ UNCHANGED faults

FaultyStep(c) ==
    /\ faults < MaxFaults
    /\ faults' = faults + 1
    /\ Fault(c)

AllReturned ==
    /\ \A c \in Caller : pc[c] = "idle" \/ Gone(c)
    /\ UNCHANGED vars

Next ==
    \/ \E c \in Caller : Step(c) \/ FaultyStep(c)
    \/ \E t \in TxId : Reap(t)
    \/ AllReturned

Spec == Init /\ [][Next]_vars

(* Goroutines are scheduled, and the server detects deadlocks and lost     *)
(* connections.  Nothing makes the world call, fail or cancel.             *)
Fairness ==
    /\ \A c \in Caller : WF_vars(Advance(c) /\ UNCHANGED faults)
    /\ \A t \in TxId : WF_vars(Reap(t))

FairSpec == Spec /\ Fairness
-----------------------------------------------------------------------------
Committed(c) == {k \in Attempt : srv[<<c, k>>] = "committed"}

(* A reply tells the caller the truth about its work: "ok" means that it   *)
(* is committed, exactly once whatever was retried; an error that is no    *)
(* commit error, a panic, a Goexit or a refusal means that it is not and   *)
(* never will be; and no reply hides a second commit.  Handlers that       *)
(* conclude the transaction themselves give up this promise.               *)
ReplyIsTrue ==
    \A c \in Caller \ SelfConcluding :
        /\ Cardinality(Committed(c)) <= 1
        /\ reply[c] = "ok" => Committed(c) # {}
        /\ reply[c] \in {"error", "panicked", "exited", "refused"} =>
              \A k \in Attempt : srv[<<c, k>>] \notin {"committed", "committing"}

(* Every committed transaction counts in the rows it wrote, also when its  *)
(* handler computed the new value in Go from what an attempt had read:     *)
(* the retried attempt reads again.                                        *)
NoLostUpdate ==
    \A r \in Row :
        value[r] = Cardinality({t \in TxId : srv[t] = "committed" /\ r \in writes[t]})

(* A call occupies a connection of the pool only with the transaction of   *)
(* its current attempt and only while that runs: none is left behind by a  *)
(* retry, an error, a panic or a Goexit, except by a panicking hook.       *)
Transacting(c) ==
    pc[c] \in {"setup", "handler", "stmtError", "rollback", "commit", "defer"}

NoTxOutlivesItsCall ==
    \A t \in InUse : /\ t = Tx(t[1])
                     /\ Transacting(t[1]) \/ pc[t[1]] = "unwound"

(* Transact1 implements the promise: the work of a call is applied in one  *)
(* step, at most once, and as its reply says; and it is the whole of it,   *)
(* also when the handler swallows that the server refused a statement, but *)
(* not when it swallows that the plan-cost gate did.                       *)
Promise == INSTANCE AtomicWork
           WITH applied <- [c \in Caller |-> Committed(c) # {}]

AtomicWorkSpec == Promise!Spec

(* Every call that was made returns: through conflicts, deadlocks, lost    *)
(* connections, a busy pool and calls nested in its handler.               *)
EveryCallReturns ==
    \A c \in Caller : pc[c] = "begin" ~> pc[c] = "returned"
-----------------------------------------------------------------------------
(* Why a reply is true: the inductive invariant behind ReplyIsTrue and     *)
(* NoTxOutlivesItsCall.                                                    *)
AttemptsCounted(c) ==
    /\ pc[c] = "idle" => attempt[c] = 0
    /\ pc[c] \notin {"idle", "returned"} => attempt[c] # 0
    /\ pc[c] = "backoff" => attempt[c] <= MaxRetries

ReplyWhenGone(c) == ~Gone(c) => reply[c] = "none"

FailureInHand(c) == pc[c] \in {"stmtError", "rollback"} => failure[c] # "nil"

UnbegunUntouched(c) ==
    \A k \in Attempt :
        k > attempt[c] \/ (k = attempt[c] /\ pc[c] = "begin") =>
            srv[<<c, k>>] = "absent" /\ conn[<<c, k>>] = "none"

OnlyCurrentConnected(c) ==
    \A k \in Attempt : conn[<<c, k>>] \in {"held", "broken"} =>
        k = attempt[c] /\ (Transacting(c) \/ pc[c] = "unwound")

CommitCloses(c) ==
    \A k \in Attempt :
        srv[<<c, k>>] \in {"committed", "committing"} => conn[<<c, k>>] = "closed"

(* Only a handler that concludes the transaction itself leaves it closed.  *)
OpenUntilConcluded(c) ==
    \/ pc[c] \in {"setup", "handler", "stmtError"}
    \/ pc[c] \in {"rollback", "commit"} /\ c \notin SelfConcluding
    => conn[Tx(c)] # "closed"

(* A commit, or a COMMIT nobody awaits, is the last thing the last attempt *)
(* of a call did, and neither its failure nor its reply denies it.         *)
CommitIsFinal(c) ==
    \A k \in Attempt : srv[<<c, k>>] \in {"committed", "committing"} =>
        /\ k = attempt[c]
        /\ \/ pc[c] \in {"defer", "judge"} /\ failure[c] \in {"nil", "commit"}
           \/ pc[c] = "returned" /\ reply[c] \in {"ok", "commitError", "canceled"}

SuccessIsCommitted(c) ==
    \/ pc[c] \in {"defer", "judge"} /\ failure[c] = "nil"
    \/ reply[c] = "ok"
    => attempt[c] # 0 /\ srv[Tx(c)] = "committed"

CallInvariant(c) ==
    /\ AttemptsCounted(c)
    /\ ReplyWhenGone(c)
    /\ FailureInHand(c)
    /\ UnbegunUntouched(c)
    /\ OnlyCurrentConnected(c)
    /\ CommitCloses(c)
    /\ OpenUntilConcluded(c)
    /\ c \notin SelfConcluding => CommitIsFinal(c) /\ SuccessIsCommitted(c)

CommitInvariant == \A c \in Caller : CallInvariant(c)

(* Why what is committed is the work of a call, and the whole of it when   *)
(* its handler heeds the plan-cost gate: the invariant that the refinement *)
(* needs besides.                                                          *)
WorkDone(c) ==
    /\ pc[c] = "stmtError" /\ failure[c] # "costly" /\ conn[Tx(c)] = "held" =>
          srv[Tx(c)] = "aborted"
    /\ pc[c] = "commit" /\ conn[Tx(c)] = "held" /\ srv[Tx(c)] \in {"begun", "open"} =>
          writes[Tx(c)] \in Promise!Applicable(c)
    /\ \A k \in Attempt : srv[<<c, k>>] = "committing" =>
          writes[<<c, k>>] \in Promise!Applicable(c)
    /\ \A k \in Attempt : writes[<<c, k>>] \subseteq Work[c]

WorkInvariant == \A c \in Caller \ SelfConcluding : WorkDone(c)
=============================================================================
