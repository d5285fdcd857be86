--------------------------- MODULE EntTransactor ---------------------------
(***************************************************************************)
(* stdent.Transact1 over stdent.Driver and database/sql: concurrent calls  *)
(* whose handlers may call Transact1 again and then share the transaction  *)
(* found in their context, retries of serialization failures only, the     *)
(* transaction timeout set from the context's deadline, and database/sql   *)
(* rolling a transaction back behind the handler's back when its context   *)
(* ends.                                                                   *)
(***************************************************************************)
EXTENDS Integers, FiniteSets

CONSTANTS
    Caller,             \* calls of Transact1
    Row,
    Work,               \* Work[c]: the rows c's handler increments
    Owner,              \* Owner[c]: the outermost call c is made from, or c
    Deadline,           \* Deadline[c]: when the context of c expires, 0: never
    TimeoutExtension,   \* Driver.timeoutExtension
    MaxRetries,         \* options.serializationFailureMaxRetries
    SelfConcluding,     \* calls whose handler may commit by itself
    Horizon,            \* bound: the last reading of the clock
    MaxFaults           \* bound: how many things may go wrong in a behaviour

ASSUME EntTransactorAssumption ==
    /\ Work \in [Caller -> SUBSET Row]
    /\ Owner \in [Caller -> Caller]
    /\ \A c \in Caller : Owner[Owner[c]] = Owner[c]
    /\ Deadline \in [Caller -> Nat]
    /\ TimeoutExtension \in Nat \ {0}
    /\ MaxRetries \in Nat
    /\ SelfConcluding \subseteq Caller
    /\ Horizon \in Nat
    /\ MaxFaults \in Nat

VARIABLES
    srv, writes, snap, value,   \* the database, see Postgres
    sqltx,      \* sqltx[t]: what database/sql makes of transaction t
    limit,      \* limit[t]: the transaction_timeout computed for t, 0: none
    expires,    \* expires[t]: when the server terminates t, 0: never
    pc,         \* pc[c]: where call c is in Transact1
    attempt,    \* attempt[c]: exec.Attempts(), 0 before the first
    failure,    \* failure[c]: what the attempt under way is ending with
    reply,      \* reply[c]: how the call returned
    canceled,   \* canceled[c]: the context of c was cancelled
    clock, faults

dbvars == <<srv, writes, snap, value>>
txvars == <<sqltx, limit, expires>>
callvars == <<pc, attempt, failure, reply>>
vars == <<dbvars, txvars, callvars, canceled, clock, faults>>

Attempt == 1 .. MaxRetries + 1
TxId == Caller \X Attempt

INSTANCE Postgres

(* Mutant: Transact1 does not look for a transaction in its context.       *)
TxNeverInContext(c) == FALSE

(* Whether the context of call c carries a transaction up the call chain.  *)
TxInContext(c) == Owner[c] # c

Root(c) == IF TxInContext(c) THEN Owner[c] ELSE c
Tx(c) == <<Root(c), attempt[Root(c)]>>

Place == {"idle", "begin", "setup", "arm", "handler", "stmtError", "rollback",
          "commit", "defer", "judge", "returned", "unwound"}
Failure == {"nil", "retryable", "fatal", "commit", "panic", "goexit"}
Outcome == {"none", "ok", "error", "commitError", "canceled", "panicked", "exited"}

(* A "broken" transaction's connection is lost, unbeknown to database/sql. *)
SqlTx == {"none", "open", "broken", "done"}

TypeOK ==
    /\ DbTypeOK
    /\ sqltx \in [TxId -> SqlTx]
    /\ limit \in [TxId -> Int]
    /\ expires \in [TxId -> Int]
    /\ pc \in [Caller -> Place]
    /\ attempt \in [Caller -> 0 .. MaxRetries + 1]
    /\ failure \in [Caller -> Failure]
    /\ reply \in [Caller -> Outcome]
    /\ canceled \in [Caller -> BOOLEAN]
    /\ clock \in 0 .. Horizon
    /\ faults \in 0 .. MaxFaults

Init ==
    /\ DbInit
    /\ sqltx = [t \in TxId |-> "none"]
    /\ limit = [t \in TxId |-> 0]
    /\ expires = [t \in TxId |-> 0]
    /\ pc = [c \in Caller |-> "idle"]
    /\ attempt = [c \in Caller |-> 0]
    /\ failure = [c \in Caller |-> "nil"]
    /\ reply = [c \in Caller |-> "none"]
    /\ canceled = [c \in Caller |-> FALSE]
    /\ clock = 0
    /\ faults = 0

Gone(c) == pc[c] \in {"returned", "unwound"}
Nested(c) == {n \in Caller \ {c} : Owner[n] = c}

(* The contexts of nested calls derive from that of the outermost one.     *)
Ended(c) ==
    LET o == Owner[c]
    IN  canceled[o] \/ (Deadline[o] # 0 /\ clock >= Deadline[o])

SetSqlTx(t, s) ==
    /\ sqltx' = [sqltx EXCEPT ![t] = s]
    /\ UNCHANGED <<limit, expires>>

Carry(c, f, place) ==
    /\ pc' = [pc EXCEPT ![c] = place]
    /\ failure' = [failure EXCEPT ![c] = f]
    /\ UNCHANGED <<attempt, reply>>

Return(c, how, place) ==
    /\ pc' = [pc EXCEPT ![c] = place]
    /\ reply' = [reply EXCEPT ![c] = how]
    /\ failure' = [failure EXCEPT ![c] = "nil"]
    /\ UNCHANGED attempt

(* A retried handler makes its nested calls anew.                          *)
NewAttempt(c) ==
    /\ pc' = [d \in Caller |-> IF d = c THEN "begin"
                               ELSE IF Root(d) = c THEN "idle" ELSE pc[d]]
    /\ reply' = [d \in Caller |-> IF Root(d) = c THEN "none" ELSE reply[d]]
    /\ attempt' = [attempt EXCEPT ![c] = @ + 1]
    /\ failure' = [failure EXCEPT ![c] = "nil"]
-----------------------------------------------------------------------------
(* A handler that calls Transact1 itself waits for it to return.           *)
Busy(c) == \E n \in Nested(c) : pc[n] # "idle" /\ ~Gone(n)
InHandler(c) == pc[c] \in {"handler", "stmtError"} /\ ~Busy(c)
Reachable(c) == Owner[c] # c => pc[Owner[c]] = "handler" /\ ~Busy(Owner[c])

StartNested(c) ==
    /\ pc[c] = "idle"
    /\ Reachable(c)
    /\ TxInContext(c)
    /\ Carry(c, "nil", "handler")
    /\ UNCHANGED <<txvars, dbvars>>

Start(c) ==
    /\ pc[c] = "idle"
    /\ Reachable(c)
    /\ ~TxInContext(c)
    /\ NewAttempt(c)
    /\ UNCHANGED <<txvars, dbvars>>

Begin(c) ==
    /\ pc[c] = "begin"
    /\ ~Ended(c)
    /\ SetSqlTx(Tx(c), "open")
    /\ SrvSet(Tx(c), "begun")
    /\ Carry(c, "nil", "setup")

(* Also when the isolation level is none the driver allows.                *)
BeginFails(c) ==
    /\ pc[c] = "begin"
    /\ Carry(c, "fatal", "judge")
    /\ UNCHANGED <<txvars, dbvars>>

Usable(c) == sqltx[Tx(c)] = "open" /\ ~Ended(c) /\ srv[Tx(c)] # "ended"

(* Tx.Rollback: answered by the server; not deliverable, which destroys    *)
(* the connection; or ErrTxDone.                                           *)
RollbackTx(c) ==
    \/ /\ Usable(c)
       /\ SetSqlTx(Tx(c), "done")
       /\ SrvEnd(Tx(c))
    \/ /\ sqltx[Tx(c)] # "done" /\ ~Usable(c)
       /\ SetSqlTx(Tx(c), "done")
       /\ UNCHANGED dbvars
    \/ /\ sqltx[Tx(c)] = "done"
       /\ UNCHANGED <<txvars, dbvars>>

(* Mutant: the extension is forgotten.                                     *)
TransactionTimeoutBare(c) ==
    IF Deadline[c] = 0 THEN 0 ELSE Deadline[c] - clock

TransactionTimeout(c) ==
    IF Deadline[c] = 0 THEN 0 ELSE Deadline[c] - clock + TimeoutExtension

(* The begin hook has run and the statement has been built ...             *)
BuildSetup(c) ==
    /\ pc[c] = "setup"
    /\ Carry(c, "nil", "arm")
    /\ limit' = [limit EXCEPT ![Tx(c)] = TransactionTimeout(c)]
    /\ UNCHANGED <<sqltx, expires, dbvars>>

(* ... and is executed, now or later.  A zero disables the timeout, and    *)
(* the server rejects a negative one.                                      *)
Setup(c) ==
    /\ pc[c] = "arm"
    /\ Usable(c)
    /\ limit[Tx(c)] >= 0
    /\ Carry(c, "nil", "handler")
    /\ expires' = [expires EXCEPT ![Tx(c)] =
                      IF limit[Tx(c)] = 0 THEN 0 ELSE clock + limit[Tx(c)]]
    /\ limit' = [limit EXCEPT ![Tx(c)] = 0]
    /\ UNCHANGED <<sqltx, dbvars>>

(* Mutant: BeginTx forgets to roll back when setupTx fails.                *)
SetupFailsLeavingTx(c) ==
    /\ pc[c] \in {"setup", "arm"}
    /\ \E f \in {"retryable", "fatal"} : Carry(c, f, "judge")
    /\ UNCHANGED <<txvars, dbvars>>

SetupFails(c) ==
    /\ pc[c] \in {"setup", "arm"}
    /\ \E f \in {"retryable", "fatal"} : Carry(c, f, "judge")
    /\ RollbackTx(c)

SetupPanics(c) ==
    /\ pc[c] = "setup"
    /\ Return(c, "panicked", "unwound")
    /\ UNCHANGED <<txvars, dbvars>>
-----------------------------------------------------------------------------
Querying(c, s) == pc[c] = "handler" /\ ~Busy(c) /\ Usable(c) /\ srv[Tx(c)] = s

Read(c) ==
    /\ Querying(c, "begun")
    /\ SrvRead(Tx(c))
    /\ UNCHANGED <<txvars, callvars>>

Pending(c) == Work[c] \ writes[Tx(c)]

(* Mutant: IsolationLevel(sql.LevelReadCommitted) as the default.          *)
DefaultsToReadCommitted == "read-committed"

IsolationLevel == "repeatable-read"

Conflicts(t, r) ==
    IsolationLevel # "read-committed" /\ value[r] # snap[t][r]

Update(c) ==
    /\ Querying(c, "open")
    /\ \E r \in Pending(c) :
        /\ ~Locked(Tx(c), r)
        /\ ~Conflicts(Tx(c), r)
        /\ SrvUpdate(Tx(c), r)
    /\ UNCHANGED <<txvars, callvars>>

StatementFails(c, f) ==
    /\ SrvSet(Tx(c), "aborted")
    /\ Carry(c, f, "stmtError")
    /\ UNCHANGED txvars

SerializationFailure(c) ==
    /\ Querying(c, "open")
    /\ \E r \in Pending(c) : ~Locked(Tx(c), r) /\ Conflicts(Tx(c), r)
    /\ StatementFails(c, "retryable")

WaitsWithin(d, S) ==
    /\ Pending(d) # {}
    /\ \A r \in Pending(d) : \E e \in S \ {d} : Holds(Tx(e), r)

(* 40P01 is none of the default codes: a victim of a deadlock fails.       *)
Deadlock(c) ==
    \E S \in SUBSET Caller :
        /\ c \in S
        /\ \A d \in S : Querying(d, "open")
        /\ \A d \in S : WaitsWithin(d, S)
        /\ StatementFails(c, "fatal")

StatementRejected(c) ==
    /\ Querying(c, "open") \/ Querying(c, "begun")
    /\ StatementFails(c, "fatal")

(* A statement in a transaction that failed before, in a nested call.      *)
StatementInAborted(c) ==
    /\ Querying(c, "aborted")
    /\ StatementFails(c, "fatal")

(* WTx.do refuses a costly plan: the server has seen nothing but an        *)
(* EXPLAIN and the transaction can go on.                                  *)
PlanTooCostly(c) ==
    /\ Querying(c, "open")
    /\ Carry(c, "fatal", "stmtError")
    /\ UNCHANGED <<txvars, dbvars>>

StatementLost(c) ==
    /\ pc[c] = "handler" /\ ~Busy(c) /\ ~Usable(c)
    /\ IF sqltx[Tx(c)] = "open" THEN SetSqlTx(Tx(c), "broken") ELSE UNCHANGED txvars
    /\ Carry(c, "fatal", "stmtError")
    /\ UNCHANGED dbvars
-----------------------------------------------------------------------------
(* How fnc returns.  That of a nested call returns to the handler that     *)
(* called it, which has its error in hand or is unwound by its panic.      *)
HandBack(c, f) ==
    /\ pc' = [pc EXCEPT ![c] = "returned",
                        ![Root(c)] = IF f = "nil" THEN "handler" ELSE
                                     IF f = "goexit" THEN "defer" ELSE
                                     IF f = "panic" THEN "rollback" ELSE "stmtError"]
    /\ reply' = [reply EXCEPT ![c] = IF f = "nil" THEN "ok" ELSE
                                     IF f = "goexit" THEN "exited" ELSE
                                     IF f = "panic" THEN "panicked" ELSE "error"]
    /\ failure' = [failure EXCEPT ![c] = "nil", ![Root(c)] = f]
    /\ UNCHANGED attempt

FncReturns(c, f, place) ==
    /\ IF TxInContext(c) THEN HandBack(c, f) ELSE Carry(c, f, place)
    /\ UNCHANGED <<txvars, dbvars>>

HandlerSucceeds(c) ==
    /\ pc[c] = "handler" /\ ~Busy(c)
    /\ Work[c] \subseteq writes[Tx(c)]
    /\ FncReturns(c, "nil", "commit")

HandlerSwallows(c) == pc[c] = "stmtError" /\ ~Busy(c) /\ FncReturns(c, "nil", "commit")

HandlerPropagates(c) ==
    pc[c] = "stmtError" /\ ~Busy(c) /\ FncReturns(c, failure[c], "rollback")

HandlerFails(c) == InHandler(c) /\ FncReturns(c, "fatal", "rollback")
HandlerPanics(c) == InHandler(c) /\ FncReturns(c, "panic", "rollback")
HandlerExits(c) == InHandler(c) /\ FncReturns(c, "goexit", "defer")

(* fnc commits the transaction by itself, and may still return an error.   *)
HandlerConcludes(c) ==
    /\ c \in SelfConcluding
    /\ ~TxInContext(c)
    /\ Querying(c, "open")
    /\ Work[c] \subseteq writes[Tx(c)]
    /\ SetSqlTx(Tx(c), "done")
    /\ SrvCommit(Tx(c))
    /\ Carry(c, "nil", "commit") \/ Carry(c, "fatal", "rollback")

(* The rollback after an error and in the recovered panic's.               *)
Rollback(c) ==
    /\ pc[c] = "rollback"
    /\ Carry(c, failure[c], "defer")
    /\ RollbackTx(c)

DeferredRollback(c) ==
    /\ pc[c] = "defer"
    /\ Carry(c, failure[c], "judge")
    /\ RollbackTx(c)
-----------------------------------------------------------------------------
(* sql.ErrTxDone is no error: the handler has concluded the transaction,   *)
(* or database/sql has, because the context is over.                       *)
CommitTxDone(c) ==
    /\ pc[c] = "commit"
    /\ sqltx[Tx(c)] = "done"
    /\ Carry(c, "nil", "defer")
    /\ UNCHANGED <<txvars, dbvars>>

(* database/sql looks at the context first.                                *)
CommitTooLate(c) ==
    /\ pc[c] = "commit"
    /\ sqltx[Tx(c)] # "done" /\ Ended(c)
    /\ Carry(c, "commit", "defer")
    /\ UNCHANGED <<txvars, dbvars>>

Committing(c, s) == pc[c] = "commit" /\ Usable(c) /\ srv[Tx(c)] \in s

Commit(c) ==
    /\ Committing(c, {"begun", "open"})
    /\ SetSqlTx(Tx(c), "done")
    /\ SrvCommit(Tx(c))
    /\ Carry(c, "nil", "defer")

(* A transaction that had failed is rolled back instead, which pgx reports.*)
CommitRolledBack(c) ==
    /\ Committing(c, {"aborted"})
    /\ SetSqlTx(Tx(c), "done")
    /\ SrvEnd(Tx(c))
    /\ Carry(c, "commit", "defer")

CommitRefused(c) ==
    /\ Committing(c, {"open"})
    /\ SetSqlTx(Tx(c), "done")
    /\ SrvEnd(Tx(c))
    /\ Carry(c, "retryable", "defer")

CommitUnsent(c) ==
    /\ pc[c] = "commit"
    /\ sqltx[Tx(c)] # "done" /\ ~Usable(c) /\ ~Ended(c)
    /\ SetSqlTx(Tx(c), "done")
    /\ Carry(c, "commit", "defer")
    /\ UNCHANGED dbvars

CommitUnanswered(c) ==
    /\ Committing(c, {"begun", "open"})
    /\ SetSqlTx(Tx(c), "done")
    /\ SrvSet(Tx(c), "committing")
    /\ Carry(c, "commit", "defer")
-----------------------------------------------------------------------------
Retries(c) == failure[c] = "retryable" /\ attempt[c] <= MaxRetries

(* How Transact1 ends by the outcome of the last attempt alone.            *)
Recorded(c) ==
    CASE failure[c] = "nil" -> "ok"
      [] failure[c] = "commit" -> "commitError"
      [] failure[c] = "panic" -> "panicked"
      [] failure[c] = "goexit" -> "exited"
      [] OTHER -> "error"

(* What the executor answers.  It records an attempt's outcome only while  *)
(* the context it was given lives, and answers with its error otherwise.   *)
Settled(c) ==
    IF Ended(c) /\ failure[c] \notin {"panic", "goexit"} THEN "canceled" ELSE Recorded(c)

Judge(c) ==
    /\ pc[c] = "judge"
    /\ \/ Retries(c) /\ ~Ended(c) /\ NewAttempt(c)
       \/ ~(Retries(c) /\ ~Ended(c)) /\ Return(c, Settled(c), "returned")
    /\ UNCHANGED <<txvars, dbvars>>
-----------------------------------------------------------------------------
(* The goroutine of database/sql that waits for the context to end: its    *)
(* ROLLBACK is not sent with that context, the connection is closed.       *)
AwaitDone(t) ==
    /\ sqltx[t] \in {"open", "broken"}
    /\ Ended(t[1])
    /\ SetSqlTx(t, "done")
    /\ UNCHANGED <<dbvars, callvars, canceled, clock, faults>>

Reap(t) ==
    /\ sqltx[t] \in {"broken", "done"}
    /\ SrvReap(t)
    /\ UNCHANGED <<txvars, callvars, canceled, clock, faults>>

(* The server's transaction_timeout terminates the session.                *)
ServerTimeout(t) ==
    /\ expires[t] # 0 /\ clock >= expires[t]
    /\ srv[t] \in {"begun", "open", "aborted"}
    /\ SrvEnd(t)
    /\ expires' = [expires EXCEPT ![t] = 0]
    /\ UNCHANGED <<sqltx, limit, callvars, canceled, clock, faults>>

Tick ==
    /\ clock < Horizon
    /\ clock' = clock + 1
    /\ UNCHANGED <<dbvars, txvars, callvars, canceled, faults>>

Cancel(c) ==
    /\ Owner[c] = c
    /\ pc[c] # "idle" /\ pc[c] # "returned"
    /\ ~canceled[c]
    /\ canceled' = [canceled EXCEPT ![c] = TRUE]
    /\ UNCHANGED <<dbvars, txvars, callvars>>

ConnectionBreaks(t) ==
    /\ sqltx[t] = "open"
    /\ SetSqlTx(t, "broken")
    /\ UNCHANGED <<dbvars, callvars>>

(* What a call does when nothing new goes wrong ...                        *)
Advance(c) ==
    \/ Begin(c) \/ BuildSetup(c) \/ Setup(c)
    \/ Read(c) \/ Update(c) \/ SerializationFailure(c) \/ Deadlock(c)
    \/ StatementInAborted(c)
    \/ HandlerSucceeds(c) \/ HandlerPropagates(c)
    \/ Rollback(c) \/ DeferredRollback(c)
    \/ Commit(c) \/ CommitRolledBack(c) \/ CommitTxDone(c)
    \/ Judge(c)
    \* at the next use of a context that is over or a connection that is lost
    \/ Ended(c) /\ BeginFails(c)
    \/ pc[c] \in {"setup", "arm"} /\ ~Usable(c) /\ SetupFails(c)
    \/ StatementLost(c) \/ CommitUnsent(c) \/ CommitTooLate(c)

(* ... and what can go wrong.                                              *)
Fault(c) ==
    \/ BeginFails(c) \/ SetupFails(c) \/ SetupPanics(c)
    \/ StatementRejected(c) \/ PlanTooCostly(c)
    \/ HandlerSwallows(c) \/ HandlerFails(c) \/ HandlerPanics(c)
    \/ HandlerExits(c) \/ HandlerConcludes(c)
    \/ CommitRefused(c) \/ CommitUnanswered(c)

Step(c) ==
    /\ Start(c) \/ StartNested(c) \/ Advance(c)
    /\ UNCHANGED <<canceled, clock, faults>>

FaultyStep ==
    /\ faults < MaxFaults
    /\ faults' = faults + 1
    /\ \/ \E c \in Caller : Fault(c) /\ UNCHANGED canceled
       \/ \E c \in Caller : Cancel(c)
       \/ \E t \in TxId : ConnectionBreaks(t) /\ UNCHANGED canceled
    /\ UNCHANGED clock

AllReturned ==
    /\ \A c \in Caller : pc[c] = "idle" \/ Gone(c)
    /\ UNCHANGED vars

Next ==
    \/ \E c \in Caller : Step(c)
    \/ FaultyStep
    \/ \E t \in TxId : AwaitDone(t) \/ Reap(t) \/ ServerTimeout(t)
    \/ Tick
    \/ AllReturned

Spec == Init /\ [][Next]_vars
-----------------------------------------------------------------------------
Roots == {c \in Caller : Owner[c] = c}
Committed(c) == {k \in Attempt : srv[<<c, k>>] = "committed"}
MayCommit(c) == {k \in Attempt : srv[<<c, k>>] \in {"committed", "committing"}}

(* "ok" means that the work is committed, also where ErrTxDone passed for  *)
(* success (transact.go:129) and after up to MaxRetries retries (:76); an  *)
(* error that is no commit error, a panic or a Goexit means that it never  *)
(* will be, deadlocks included.  Handlers that commit by themselves give   *)
(* up the second half.                                                     *)
ReplyIsTrue ==
    \A c \in Roots :
        /\ Cardinality(MayCommit(c)) <= 1
        /\ reply[c] = "ok" => Committed(c) # {}
        /\ c \notin SelfConcluding /\ reply[c] \in {"error", "panicked", "exited"} =>
              MayCommit(c) = {}

(* A nested call stands or falls with the call whose transaction it found  *)
(* in its context (transact.go:54): nothing of it is committed once the    *)
(* outermost call has failed, whatever the nested one had returned, and    *)
(* what it wrote and reported is there once the outermost call succeeded.  *)
NestedSharesFate ==
    \A c \in Roots : \A n \in Nested(c) :
        /\ c \notin SelfConcluding /\ reply[c] \in {"error", "panicked", "exited"} =>
              MayCommit(c) \cup MayCommit(n) = {}
        /\ reply[c] = "ok" /\ reply[n] = "ok" => srv[Tx(n)] = "committed"

(* Every committed transaction counts in the rows it wrote.                *)
NoLostUpdate ==
    \A r \in Row :
        value[r] = Cardinality({t \in TxId : srv[t] = "committed" /\ r \in writes[t]})

(* database/sql holds a connection only for the attempt a call is in, also *)
(* through errors, panics and Goexit, unless a hook has panicked.          *)
NoTxOutlivesItsCall ==
    \A t \in TxId : sqltx[t] \in {"open", "broken"} =>
        /\ t = Tx(t[1])
        /\ pc[t[1]] \notin {"idle", "begin", "judge", "returned"}

(* The server terminates a transaction the client still has open only when *)
(* the deadline is past by the whole extension (driver.go:167), although   *)
(* the timeout is computed before it is set: the client shuts down first.  *)
ServerOutwaitsClient ==
    \A t \in TxId : sqltx[t] = "open" /\ srv[t] = "ended" =>
        clock >= Deadline[t[1]] + TimeoutExtension
-----------------------------------------------------------------------------
(* Why a reply is true: the inductive invariant behind all of these.       *)
(* Nested calls run one at a time, within the handler of the outermost     *)
(* call, and have no attempts and no transactions of their own.            *)
Running(n) == pc[n] \in {"handler", "stmtError"}

NestedInside(n) ==
    /\ attempt[n] = 0
    /\ pc[n] \in {"idle", "handler", "stmtError", "returned"}
    /\ Running(n) => /\ pc[Owner[n]] = "handler"
                     /\ \A m \in Nested(Owner[n]) \ {n} : ~Running(m)

FailureInHand(c) == pc[c] \in {"stmtError", "rollback"} => failure[c] # "nil"

(* Of the attempts of a call, those to come have done nothing yet and      *)
(* those that are over are so for good.                                    *)
Untouched(c) ==
    \A k \in Attempt :
        k > attempt[c] \/ (k = attempt[c] /\ pc[c] = "begin") =>
            srv[<<c, k>>] = "absent" /\ sqltx[<<c, k>>] = "none"

OverForGood(c) ==
    \A k \in Attempt :
        k < attempt[c] => /\ sqltx[<<c, k>>] \notin {"open", "broken"}
                          /\ srv[<<c, k>>] \notin {"committed", "committing"}

(* What a call that is at p with failure f and reply r in hand has to do   *)
(* with its transaction, in state s on the server and q in database/sql:   *)
(* that is closed by a commit, or because the context is over; and nothing *)
(* the call has in hand or has replied denies a commit or makes one up.    *)
Fits(p, f, r, s, q, over, concluding) ==
    /\ q \in {"open", "broken"} => p \notin {"idle", "begin", "judge", "returned"}
    /\ q = "done" /\ p \in {"setup", "arm", "handler", "stmtError"} => over
    /\ q = "done" /\ p = "commit" => over \/ s = "committed"
    /\ s \in {"committed", "committing"} =>
          /\ q = "done"
          /\ \/ p \in {"defer", "judge"} /\ f \in {"nil", "commit"}
             \/ p = "returned" /\ r \in {"ok", "commitError", "canceled"}
             \/ /\ concluding /\ s = "committed"
                /\ \/ p = "commit"
                   \/ p = "returned" /\ r = "error"
                   \/ p \in {"rollback", "defer", "judge"} /\ f = "fatal"
    /\ p \in {"defer", "judge"} /\ f = "nil" => over \/ s = "committed"
    /\ r = "ok" => s = "committed"

RootInvariant(c) ==
    /\ attempt[c] = 0 <=> pc[c] = "idle"
    /\ ~Gone(c) => reply[c] = "none"
    /\ OverForGood(c)
    /\ attempt[c] # 0 =>
          Fits(pc[c], failure[c], reply[c], srv[Tx(c)], sqltx[Tx(c)],
               Ended(c), c \in SelfConcluding)

(* The server's timer of a transaction never runs out before the deadline  *)
(* plus the extension, however late the statement that sets it comes.      *)
TimerAllows(t) ==
    LET earliest == Deadline[t[1]] + TimeoutExtension
    IN  /\ limit[t] # 0 => clock + limit[t] >= earliest
        /\ expires[t] # 0 => expires[t] >= earliest
        /\ sqltx[t] = "open" /\ srv[t] = "ended" => clock >= earliest

CommitInvariant ==
    /\ \A c \in Caller : FailureInHand(c) /\ Untouched(c)
    /\ \A n \in Caller \ Roots : NestedInside(n)
    /\ \A c \in Roots : RootInvariant(c)
    /\ \A t \in TxId : TimerAllows(t)
=============================================================================
