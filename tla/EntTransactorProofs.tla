------------------------ MODULE EntTransactorProofs ------------------------
(***************************************************************************)
(* Proofs about EntTransactor, for any calls, nesting, deadlines, retries, *)
(* rows and faults.  CommitInvariant is inductive together with TypeOK.    *)
(*                                                                         *)
(* A step of a call, nested or not, concerns the outermost call o of its   *)
(* family and o's current transaction only: Frame(o).  What the steps of   *)
(* the handlers have in common is in StatementPreserves and                *)
(* ReturnPreserves; those of the outermost call itself go through          *)
(* RootPreserves.                                                          *)
(***************************************************************************)
EXTENDS EntTransactor, FiniteSetTheorems, TLAPS

USE EntTransactorAssumption

(* Every step is one of some session of the database, so that what         *)
(* PostgresProofs says of sessions holds here.                             *)
DB == INSTANCE PostgresProofs

(* What PostgresProofs proves of a session's step, here.                   *)
LEMMA DbSession ==
    ASSUME DbTypeOK, DbInvariant, NEW t \in TxId, SessionStep(t)
    PROVE  DbInvariant'
BY DB!SessionPreserves
   DEF DbTypeOK, DbInvariant, SessionStep, ServerState, CommittedOn, Locked, Holds,
       SrvSet, SrvEnd, SrvRead, SrvUpdate, SrvCommit, GoesOn, Hangs, Commits,
       Cardinality, IsFiniteSet, DB!DbTypeOK, DB!DbInvariant, DB!SessionStep,
       DB!ServerState, DB!CommittedOn, DB!Locked, DB!Holds, DB!SrvSet, DB!SrvEnd,
       DB!SrvRead, DB!SrvUpdate, DB!SrvCommit, DB!GoesOn, DB!Hangs, DB!Commits,
       DB!Cardinality, DB!IsFiniteSet

(* It keeps the types and concerns that session's transaction only.        *)
LEMMA DbTyped ==
    ASSUME DbTypeOK, NEW t \in TxId, SessionStep(t)
    PROVE  DbTypeOK' /\ \A u \in TxId \ {t} :
                srv'[u] = srv[u] /\ writes'[u] = writes[u] /\ snap'[u] = snap[u]
BY DB!TypedSession
   DEF DbTypeOK, SessionStep, ServerState, Locked, Holds, SrvSet, SrvEnd, SrvRead,
       SrvUpdate, SrvCommit, GoesOn, Hangs, Commits, DB!DbTypeOK, DB!SessionStep,
       DB!ServerState, DB!Locked, DB!Holds, DB!SrvSet, DB!SrvEnd, DB!SrvRead,
       DB!SrvUpdate, DB!SrvCommit, DB!GoesOn, DB!Hangs, DB!Commits

(* The database starts out as it should.                                   *)
LEMMA DbBegins == DbInit => DbTypeOK /\ DbInvariant
BY DB!InitDbInvariant
   DEF DbInit, DbInvariant, DbTypeOK, ServerState, CommittedOn, Locked, Holds,
       Cardinality, IsFiniteSet, DB!DbInit, DB!DbInvariant, DB!DbTypeOK,
       DB!ServerState, DB!CommittedOn, DB!Locked, DB!Holds, DB!Cardinality,
       DB!IsFiniteSet
-----------------------------------------------------------------------------
(* A call, its outermost call and the transaction the two share.           *)
LEMMA Families ==
    ASSUME NEW c \in Caller
    PROVE  /\ Root(c) = Owner[c] /\ Root(c) \in Roots
           /\ c \in Roots <=> ~TxInContext(c)
           /\ c \in Roots => Root(c) = c
           /\ Tx(Root(c)) = Tx(c)
           /\ c \notin Roots => c \in Nested(Root(c))
           /\ Ended(Root(c)) = Ended(c)
BY DEF Root, Roots, TxInContext, Tx, Nested, Ended

(* The outermost call of one whose handler runs is itself in its handler.  *)
LEMMA CurrentTx ==
    ASSUME TypeOK, CommitInvariant, NEW c \in Caller,
           pc[c] # "idle", pc[c] \in {"handler", "stmtError"} \/ c \in Roots
    PROVE  /\ attempt[Root(c)] \in Attempt
           /\ Tx(c) \in TxId /\ Tx(c) = <<Root(c), attempt[Root(c)]>>
           /\ c \notin Roots => pc[Root(c)] = "handler"
<1>1. c \notin Roots => pc[Root(c)] = "handler"
  BY Families DEF CommitInvariant, NestedInside, Running
<1>2. attempt[Root(c)] # 0 /\ Root(c) \in Caller
  BY <1>1, Families DEF CommitInvariant, RootInvariant, Roots
<1>3. attempt[Root(c)] \in Attempt
  BY <1>2 DEF TypeOK, Attempt
<1> QED
  BY <1>1, <1>2, <1>3 DEF Tx, TxId

(* Nested calls are only ever where their handlers are.                    *)
LEMMA NestedPlaces ==
    ASSUME CommitInvariant, NEW c \in Caller,
           pc[c] \notin {"idle", "handler", "stmtError", "returned"}
    PROVE  c \in Roots
BY DEF CommitInvariant, NestedInside

(* The state of the current transaction fits what its call is doing.       *)
LEMMA CurrentFits ==
    ASSUME CommitInvariant, NEW o \in Roots, attempt[o] # 0
    PROVE  /\ Fits(pc[o], failure[o], reply[o], srv[Tx(o)], sqltx[Tx(o)],
                   Ended(o), o \in SelfConcluding)
           /\ pc[o] # "idle"
           /\ ~Gone(o) => reply[o] = "none"
BY DEF CommitInvariant, RootInvariant

(* What a call does to the database is a step of the session of its        *)
(* current transaction.                                                    *)
OwnSession(c) == UNCHANGED dbvars \/ (Tx(c) \in TxId /\ SessionStep(Tx(c)))

(* Tx.Rollback ends the transaction, says nothing, or finds it done.       *)
LEMMA RollbackSession ==
    ASSUME TypeOK, CommitInvariant, NEW o \in Roots, pc[o] # "idle", RollbackTx(o)
    PROVE  OwnSession(o)
<1>1. CASE Usable(o) /\ SrvEnd(Tx(o))
  <2>1. attempt[o] # 0 /\ Root(o) = o /\ Tx(o) \in TxId
    BY Families, CurrentTx DEF Roots, Attempt
  <2>2. srv[Tx(o)] # "committed"
    BY <1>1, <2>1, CurrentFits DEF Fits, Usable
  <2> QED
    BY <1>1, <2>1, <2>2 DEF OwnSession, SessionStep, GoesOn
<1> QED
  BY <1>1 DEF RollbackTx, OwnSession

(* All that a call does, its handler's statements included.                *)
LEMMA CallSession ==
    ASSUME TypeOK, CommitInvariant, NEW c \in Caller,
           Start(c) \/ StartNested(c) \/ Advance(c) \/ Fault(c)
    PROVE  OwnSession(c)
<1>1. CASE \/ Start(c) \/ StartNested(c) \/ BeginFails(c) \/ BuildSetup(c) \/ Setup(c)
           \/ SetupPanics(c) \/ StatementLost(c) \/ PlanTooCostly(c)
           \/ HandlerSucceeds(c) \/ HandlerSwallows(c) \/ HandlerPropagates(c)
           \/ HandlerFails(c) \/ HandlerPanics(c) \/ HandlerExits(c)
           \/ CommitTxDone(c) \/ CommitTooLate(c) \/ CommitUnsent(c) \/ Judge(c)
  BY <1>1 DEF OwnSession, Start, StartNested, BeginFails, BuildSetup, Setup, SetupPanics,
         StatementLost, PlanTooCostly, HandlerSucceeds, HandlerSwallows,
         HandlerPropagates, HandlerFails, HandlerPanics, HandlerExits, FncReturns,
         CommitTxDone, CommitTooLate, CommitUnsent, Judge
<1>2. CASE Begin(c)
  <2>1. pc[c] = "begin" /\ c \in Roots /\ SrvSet(Tx(c), "begun")
    BY <1>2, NestedPlaces DEF Begin
  <2>2. Tx(c) \in TxId /\ Tx(c) = <<c, attempt[c]>> /\ attempt[c] \in Attempt
    BY <2>1, CurrentTx, Families
  <2>3. srv[Tx(c)] = "absent"
    BY <2>1, <2>2 DEF CommitInvariant, Untouched
  <2> QED
    BY <2>1, <2>2, <2>3 DEF OwnSession, SessionStep, GoesOn
<1>3. CASE SetupFails(c) \/ Rollback(c) \/ DeferredRollback(c)
  <2>1. pc[c] \in {"setup", "arm", "rollback", "defer"} /\ RollbackTx(c)
    BY <1>3 DEF SetupFails, Rollback, DeferredRollback
  <2> QED
    BY <2>1, NestedPlaces, RollbackSession
<1>4. CASE Read(c) \/ Update(c)
  <2>1. Tx(c) \in TxId
    BY <1>4, CurrentTx DEF Read, Update, Querying
  <2>2. CASE Read(c)
    BY <2>1, <2>2 DEF Read, Querying, OwnSession, SessionStep, GoesOn
  <2>3. CASE Update(c)
    <3>1. PICK r \in Pending(c) :
            ~Locked(Tx(c), r) /\ ~Conflicts(Tx(c), r) /\ SrvUpdate(Tx(c), r)
      BY <2>3 DEF Update
    <3>2. r \in Row
      BY <3>1, EntTransactorAssumption DEF Pending
    <3>3. value[r] = snap[Tx(c)][r]
      BY <3>1 DEF Conflicts, IsolationLevel
    <3> QED
      BY <2>1, <2>3, <3>1, <3>2, <3>3 DEF Update, Querying, OwnSession, SessionStep, GoesOn
  <2> QED
    BY <1>4, <2>2, <2>3
<1>5. CASE \/ SerializationFailure(c) \/ Deadlock(c) \/ StatementRejected(c)
           \/ StatementInAborted(c)
  <2>1. /\ SrvSet(Tx(c), "aborted") /\ srv[Tx(c)] \in {"begun", "open", "aborted"}
        /\ pc[c] = "handler"
    BY <1>5 DEF SerializationFailure, Deadlock, StatementRejected, StatementInAborted,
           StatementFails, Querying
  <2> QED
    BY <2>1, CurrentTx DEF OwnSession, SessionStep, GoesOn
<1>6. CASE HandlerConcludes(c)
  <2>1. srv[Tx(c)] = "open" /\ pc[c] = "handler" /\ SrvCommit(Tx(c))
    BY <1>6 DEF HandlerConcludes, Querying
  <2> QED
    BY <2>1, CurrentTx DEF OwnSession, SessionStep, Commits
<1>7. CASE Commit(c) \/ CommitRolledBack(c) \/ CommitRefused(c) \/ CommitUnanswered(c)
  <2>1. /\ pc[c] = "commit"
        /\ \/ srv[Tx(c)] \in {"begun", "open"} /\ SrvCommit(Tx(c))
           \/ srv[Tx(c)] # "committed" /\ SrvEnd(Tx(c))
           \/ srv[Tx(c)] \in {"begun", "open"} /\ SrvSet(Tx(c), "committing")
    BY <1>7 DEF Commit, CommitRolledBack, CommitRefused, CommitUnanswered, Committing
  <2> QED
    BY <2>1, CurrentTx, NestedPlaces DEF OwnSession, SessionStep, GoesOn, Commits, Hangs
<1> QED
  BY <1>1, <1>2, <1>3, <1>4, <1>5, <1>6, <1>7 DEF Advance, Fault
-----------------------------------------------------------------------------
(* TypeOK in three parts: the database has its own.                        *)
CallTypeOK ==
    /\ pc \in [Caller -> Place]
    /\ attempt \in [Caller -> 0 .. MaxRetries + 1]
    /\ failure \in [Caller -> Failure]
    /\ reply \in [Caller -> Outcome]

TxTypeOK ==
    /\ sqltx \in [TxId -> SqlTx]
    /\ limit \in [TxId -> Int]
    /\ expires \in [TxId -> Int]

(* What a step does to the call variables, by the helper that does it.     *)
LEMMA CarryStep ==
    ASSUME CallTypeOK, NEW c \in Caller, NEW f \in Failure, NEW p \in Place,
           Carry(c, f, p)
    PROVE  /\ CallTypeOK'
           /\ pc'[c] = p /\ failure'[c] = f
           /\ attempt' = attempt /\ reply' = reply
           /\ \A d \in Caller \ {c} : pc'[d] = pc[d] /\ failure'[d] = failure[d]
BY DEF CallTypeOK, Carry

(* Returning gives the reply and clears the failure.                       *)
LEMMA ReturnStep ==
    ASSUME CallTypeOK, NEW c \in Caller, NEW how \in Outcome, NEW p \in Place,
           Return(c, how, p)
    PROVE  /\ CallTypeOK'
           /\ pc'[c] = p /\ failure'[c] = "nil" /\ reply'[c] = how
           /\ attempt' = attempt
           /\ \A d \in Caller \ {c} :
                pc'[d] = pc[d] /\ failure'[d] = failure[d] /\ reply'[d] = reply[d]
BY DEF CallTypeOK, Return, Failure

(* A new attempt resets the nested calls as well.                          *)
LEMMA NewAttemptStep ==
    ASSUME CallTypeOK, NEW c \in Roots, attempt[c] <= MaxRetries, NewAttempt(c)
    PROVE  /\ CallTypeOK'
           /\ pc'[c] = "begin" /\ failure'[c] = "nil" /\ reply'[c] = "none"
           /\ attempt'[c] = attempt[c] + 1
           /\ \A d \in Caller \ {c} :
                failure'[d] = failure[d] /\ attempt'[d] = attempt[d]
           /\ \A d \in Nested(c) : pc'[d] = "idle"
           /\ \A d \in Caller : Root(d) # c => pc'[d] = pc[d] /\ reply'[d] = reply[d]
<1>1. pc' \in [Caller -> Place] /\ reply' \in [Caller -> Outcome]
  BY DEF CallTypeOK, NewAttempt, Place, Outcome
<1>2. attempt' \in [Caller -> 0 .. MaxRetries + 1]
  <2>1. c \in Caller /\ attempt[c] \in 0 .. MaxRetries + 1
    BY DEF CallTypeOK, Roots
  <2>2. attempt[c] + 1 \in 0 .. MaxRetries + 1
    BY <2>1
  <2> QED
    BY <2>1, <2>2 DEF CallTypeOK, NewAttempt
<1>3. failure' \in [Caller -> Failure]
  BY DEF CallTypeOK, NewAttempt, Failure
<1>4. CallTypeOK'
  BY <1>1, <1>2, <1>3 DEF CallTypeOK
<1> QED
  BY <1>4, Families DEF CallTypeOK, NewAttempt, Nested, Roots

(* A nested call returns to the handler that made it.                      *)
HandedBack(f) ==
    IF f = "nil" THEN "handler" ELSE IF f = "goexit" THEN "defer"
    ELSE IF f = "panic" THEN "rollback" ELSE "stmtError"

(* What HandBack does to the two calls involved.                           *)
LEMMA HandBackStep ==
    ASSUME CallTypeOK, NEW c \in Caller \ Roots, NEW f \in Failure, HandBack(c, f)
    PROVE  /\ CallTypeOK'
           /\ pc'[c] = "returned" /\ pc'[Root(c)] = HandedBack(f)
           /\ failure'[Root(c)] = f
           /\ attempt' = attempt /\ reply'[Root(c)] = reply[Root(c)]
           /\ \A d \in Caller \ {c, Root(c)} :
                pc'[d] = pc[d] /\ failure'[d] = failure[d] /\ reply'[d] = reply[d]
<1>1. c # Root(c) /\ Root(c) \in Caller
  BY Families DEF Roots
<1>2. /\ pc' = [pc EXCEPT ![c] = "returned", ![Root(c)] = HandedBack(f)]
      /\ failure' = [failure EXCEPT ![c] = "nil", ![Root(c)] = f]
  BY DEF HandBack, HandedBack
<1>3. HandedBack(f) \in Place
  BY DEF HandedBack, Place
<1>4. reply' \in [Caller -> Outcome] /\ \A d \in Caller \ {c} : reply'[d] = reply[d]
  BY DEF HandBack, CallTypeOK, Outcome
<1> QED
  BY <1>1, <1>2, <1>3, <1>4 DEF CallTypeOK, HandBack, Place, Failure

(* ... and to database/sql's side of one transaction.                      *)
LEMMA SetSqlTxStep ==
    ASSUME TxTypeOK, NEW t \in TxId, NEW s \in SqlTx, SetSqlTx(t, s)
    PROVE  /\ TxTypeOK'
           /\ sqltx'[t] = s
           /\ \A u \in TxId \ {t} : sqltx'[u] = sqltx[u]
           /\ limit' = limit /\ expires' = expires
BY DEF TxTypeOK, SetSqlTx

(* A step of the family of o leaves everything else alone: the other calls *)
(* and all transactions but the current one of o.                          *)
TxFrame(o) ==
    /\ attempt' = attempt
    /\ \A t \in TxId \ {Tx(o)} : /\ srv'[t] = srv[t] /\ sqltx'[t] = sqltx[t]
                                 /\ limit'[t] = limit[t] /\ expires'[t] = expires[t]
    /\ canceled' = canceled /\ clock' = clock

Frame(o) ==
    /\ TxFrame(o)
    /\ \A d \in Caller : Root(d) # o =>
          pc'[d] = pc[d] /\ failure'[d] = failure[d] /\ reply'[d] = reply[d]

(* A timer that nothing has touched keeps allowing enough.                 *)
LEMMA TimerStays ==
    ASSUME NEW t \in TxId, TimerAllows(t), clock' = clock,
           limit'[t] = limit[t], expires'[t] = expires[t],
           sqltx'[t] = "open" /\ srv'[t] = "ended" => sqltx[t] = "open" /\ srv[t] = "ended"
    PROVE  TimerAllows(t)'
BY DEF TimerAllows

(* What has to be shown of the family of o for the whole invariant.        *)
LEMMA FamilyPreserves ==
    ASSUME TypeOK, TypeOK', CommitInvariant, NEW o \in Roots, Frame(o),
           pc[o] # "idle", pc'[o] \notin {"idle", "begin"},
           Gone(o)' \/ reply'[o] = "none",
           Fits(pc'[o], failure'[o], reply'[o], srv'[Tx(o)], sqltx'[Tx(o)],
                Ended(o), o \in SelfConcluding),
           TimerAllows(Tx(o))',
           \A c \in Caller : Root(c) = o => FailureInHand(c)',
           \A n \in Nested(o) : NestedInside(n)'
    PROVE  CommitInvariant'
<1>1. /\ attempt[o] \in Attempt /\ Tx(o) = <<o, attempt[o]>> /\ Tx(o) \in TxId
      /\ \A c \in Caller : Tx(c)' = Tx(c) /\ Ended(c)' = Ended(c)
  BY CurrentTx, Families DEF Frame, TxFrame, Tx, Ended, Roots
<1>2. \A c \in Caller \ {o}, k \in Attempt :
        srv'[<<c, k>>] = srv[<<c, k>>] /\ sqltx'[<<c, k>>] = sqltx[<<c, k>>]
  BY <1>1 DEF Frame, TxFrame, TxId
<1>3. \A k \in Attempt \ {attempt[o]} :
        srv'[<<o, k>>] = srv[<<o, k>>] /\ sqltx'[<<o, k>>] = sqltx[<<o, k>>]
  BY <1>1 DEF Frame, TxFrame, TxId, Roots
<1>4. \A c \in Caller : FailureInHand(c)'
  BY Families DEF Frame, CommitInvariant, FailureInHand
<1>5. ASSUME NEW c \in Caller
      PROVE  Untouched(c)'
  <2>1. Untouched(c) /\ attempt'[c] = attempt[c] /\ attempt[c] \in Nat
    BY DEF CommitInvariant, Frame, TxFrame, TypeOK
  <2>2. CASE c = o
    BY <1>3, <2>1, <2>2 DEF Untouched
  <2>3. CASE c # o
    <3>1. pc'[c] = "begin" => pc[c] = "begin"
      BY <2>3, Families DEF Frame, NestedInside
    <3> QED
      BY <1>2, <2>1, <2>3, <3>1 DEF Untouched
  <2> QED
    BY <2>2, <2>3
<1>6. ASSUME NEW n \in Caller \ Roots
      PROVE  NestedInside(n)'
  <2>1. CASE Root(n) = o
    BY <2>1, Families
  <2>2. CASE Root(n) # o
    <3>1. \A m \in Nested(Owner[n]) \cup {n} : pc'[m] = pc[m]
      BY <2>2, Families DEF Frame, Nested
    <3>2. pc'[Owner[n]] = pc[Owner[n]] /\ attempt'[n] = attempt[n] /\ Owner[n] \in Caller
      BY <2>2, Families DEF Frame, TxFrame, Roots
    <3> QED
      BY <3>1, <3>2 DEF CommitInvariant, NestedInside, Running
  <2> QED
    BY <2>1, <2>2
<1>7. ASSUME NEW r \in Roots
      PROVE  RootInvariant(r)'
  <2>1. RootInvariant(r) /\ attempt'[r] = attempt[r] /\ attempt[r] \in Nat
    BY DEF CommitInvariant, Frame, TxFrame, TypeOK, Roots
  <2>2. CASE r = o
    <3>1. OverForGood(r)'
      BY <1>3, <2>1, <2>2 DEF RootInvariant, OverForGood
    <3> QED
      BY <1>1, <2>1, <2>2, <3>1 DEF RootInvariant, Roots
  <2>3. CASE r # o
    <3>1. pc'[r] = pc[r] /\ failure'[r] = failure[r] /\ reply'[r] = reply[r] /\ r \in Caller
      BY <2>3, Families DEF Frame, Roots
    <3>2. OverForGood(r)'
      BY <1>2, <2>1, <2>3, <3>1 DEF RootInvariant, OverForGood
    <3>3. attempt[r] # 0 => srv'[Tx(r)] = srv[Tx(r)] /\ sqltx'[Tx(r)] = sqltx[Tx(r)]
      BY <1>2, <2>1, <2>3, <3>1, CurrentTx, Families DEF RootInvariant
    <3> QED
      BY <1>1, <2>1, <3>1, <3>2, <3>3 DEF RootInvariant, Gone
  <2> QED
    BY <2>2, <2>3
<1>8. ASSUME NEW t \in TxId
      PROVE  TimerAllows(t)'
  <2>1. CASE t = Tx(o)
    <3>1. Tx(o)' = t
      BY <1>1, <2>1 DEF Roots
    <3> QED
      BY <3>1
  <2>2. CASE t # Tx(o)
    BY <2>2, TimerStays DEF CommitInvariant, Frame, TxFrame
  <2> QED
    BY <2>1, <2>2
<1> QED
  BY <1>4, <1>5, <1>6, <1>7, <1>8 DEF CommitInvariant, Roots
-----------------------------------------------------------------------------
(* The types, for the steps of a call ...                                  *)
LEMMA FncReturnsTyped ==
    ASSUME CallTypeOK, NEW c \in Caller, NEW f \in Failure, NEW p \in Place,
           FncReturns(c, f, p)
    PROVE  CallTypeOK' /\ UNCHANGED txvars
<1>1. CASE c \in Roots
  BY <1>1, CarryStep, Families DEF FncReturns
<1>2. CASE c \notin Roots
  BY <1>2, HandBackStep, Families DEF FncReturns
<1> QED
  BY <1>1, <1>2

(* Rolling back keeps database/sql's types.                                *)
LEMMA RollbackTyped ==
    ASSUME TxTypeOK, NEW o \in Caller, Tx(o) \in TxId, RollbackTx(o)
    PROVE  TxTypeOK'
BY SetSqlTxStep DEF RollbackTx, TxTypeOK, SqlTx, txvars

(* Updating one transaction's timer keeps it an integer.                   *)
LEMMA IntUpdate ==
    ASSUME NEW f \in [TxId -> Int], NEW t, NEW x \in Int
    PROVE  [f EXCEPT ![t] = x] \in [TxId -> Int]
OBVIOUS

(* The steps of a call keep all types.                                     *)
LEMMA CallTyped ==
    ASSUME TypeOK, CommitInvariant, NEW c \in Caller,
           Start(c) \/ StartNested(c) \/ Advance(c) \/ Fault(c)
    PROVE  CallTypeOK' /\ TxTypeOK' /\ DbTypeOK'
<1> USE DEF Place, Failure
<1>1. CallTypeOK /\ TxTypeOK /\ DbTypeOK /\ failure[c] \in Failure
  BY DEF TypeOK, CallTypeOK, TxTypeOK
<1>2. DbTypeOK'
  BY <1>1, CallSession, DbTyped DEF OwnSession, dbvars, DbTypeOK
<1>3. UNCHANGED txvars => TxTypeOK'
  BY <1>1 DEF txvars, TxTypeOK
<1>4. \A s \in SqlTx : Tx(c) \in TxId /\ SetSqlTx(Tx(c), s) => TxTypeOK'
  BY <1>1, SetSqlTxStep
<1>5. CASE Start(c)
  <2>1. c \in Roots /\ attempt[c] <= MaxRetries
    BY <1>5, Families DEF Start, CommitInvariant, RootInvariant
  <2> QED
    BY <1>1, <1>2, <1>3, <1>5, <2>1, NewAttemptStep DEF Start
<1>6. CASE StartNested(c) \/ BeginFails(c) \/ PlanTooCostly(c) \/ CommitTxDone(c)
           \/ CommitTooLate(c)
  BY <1>1, <1>2, <1>3, <1>6, CarryStep DEF StartNested, BeginFails, PlanTooCostly,
       CommitTxDone, CommitTooLate
<1>7. CASE Begin(c)
  BY <1>1, <1>2, <1>4, <1>7, CarryStep, NestedPlaces, CurrentTx DEF Begin, SqlTx
<1>8. CASE BuildSetup(c)
  <2>1. TransactionTimeout(c) \in Int
    BY DEF TransactionTimeout, TypeOK
  <2>2. TxTypeOK'
    BY <1>1, <1>8, <2>1 DEF BuildSetup, TxTypeOK
  <2> QED
    BY <1>1, <1>2, <1>8, <2>2, CarryStep DEF BuildSetup
<1>9. CASE Setup(c)
  <2>1. Tx(c) \in TxId
    BY <1>9, NestedPlaces, CurrentTx DEF Setup
  <2>2. clock + limit[Tx(c)] \in Int
    BY <1>1, <2>1 DEF TypeOK
  <2> DEFINE e == IF limit[Tx(c)] = 0 THEN 0 ELSE clock + limit[Tx(c)]
  <2>3. e \in Int /\ expires' = [expires EXCEPT ![Tx(c)] = e]
    BY <1>9, <2>2 DEF Setup
  <2>4. sqltx' = sqltx /\ limit' = [limit EXCEPT ![Tx(c)] = 0]
    BY <1>9 DEF Setup
  <2> HIDE DEF e
  <2>5. limit \in [TxId -> Int] /\ expires \in [TxId -> Int]
    BY <1>1 DEF TxTypeOK
  <2>6. expires' \in [TxId -> Int] /\ limit' \in [TxId -> Int]
    BY <2>3, <2>4, <2>5, IntUpdate
  <2>7. TxTypeOK'
    BY <1>1, <2>4, <2>6 DEF TxTypeOK
  <2> QED
    BY <1>1, <1>2, <1>9, <2>7, CarryStep DEF Setup
<1>10. CASE SetupFails(c) \/ Rollback(c) \/ DeferredRollback(c)
  <2>1. Tx(c) \in TxId
    BY <1>10, NestedPlaces, CurrentTx DEF SetupFails, Rollback, DeferredRollback
  <2> QED
    BY <1>1, <1>2, <1>10, <2>1, CarryStep, RollbackTyped
       DEF SetupFails, Rollback, DeferredRollback
<1>11. CASE SetupPanics(c)
  BY <1>1, <1>2, <1>3, <1>11, ReturnStep DEF SetupPanics, Outcome
<1>12. CASE Read(c) \/ Update(c)
  BY <1>1, <1>2, <1>3, <1>12 DEF Read, Update, callvars, CallTypeOK
<1>13. CASE \/ SerializationFailure(c) \/ Deadlock(c) \/ StatementRejected(c)
            \/ StatementInAborted(c)
  BY <1>1, <1>2, <1>3, <1>13, CarryStep DEF SerializationFailure, Deadlock,
       StatementRejected, StatementInAborted, StatementFails
<1>14. CASE StatementLost(c)
  BY <1>1, <1>2, <1>3, <1>4, <1>14, CarryStep, CurrentTx DEF StatementLost, SqlTx
<1>15. CASE \/ HandlerSucceeds(c) \/ HandlerSwallows(c) \/ HandlerPropagates(c)
            \/ HandlerFails(c) \/ HandlerPanics(c) \/ HandlerExits(c)
  BY <1>1, <1>2, <1>3, <1>15, FncReturnsTyped DEF HandlerSucceeds, HandlerSwallows,
       HandlerPropagates, HandlerFails, HandlerPanics, HandlerExits
<1>16. CASE HandlerConcludes(c)
  BY <1>1, <1>2, <1>4, <1>16, CarryStep, CurrentTx DEF HandlerConcludes, Querying, SqlTx
<1>17. CASE \/ Commit(c) \/ CommitRolledBack(c) \/ CommitRefused(c)
            \/ CommitUnsent(c) \/ CommitUnanswered(c)
  <2>1. Tx(c) \in TxId
    BY <1>17, NestedPlaces, CurrentTx DEF Commit, CommitRolledBack, CommitRefused,
         CommitUnsent, CommitUnanswered, Committing
  <2> QED
    BY <1>1, <1>2, <1>4, <1>17, <2>1, CarryStep DEF Commit, CommitRolledBack,
         CommitRefused, CommitUnsent, CommitUnanswered, SqlTx
<1>18. CASE Judge(c)
  <2>1. c \in Roots
    BY <1>18, NestedPlaces DEF Judge
  <2>2. Settled(c) \in Outcome
    BY <1>1 DEF Settled, Recorded, Outcome
  <2> QED
    BY <1>1, <1>2, <1>3, <1>18, <2>1, <2>2, NewAttemptStep, ReturnStep DEF Judge, Retries
<1> QED
  BY <1>5, <1>6, <1>7, <1>8, <1>9, <1>10, <1>11, <1>12, <1>13, <1>14, <1>15, <1>16,
     <1>17, <1>18 DEF Advance, Fault

(* ... and for all others.                                                 *)
LEMMA TypeStep ==
    ASSUME TypeOK, CommitInvariant, [Next]_vars
    PROVE  TypeOK'
<1> SUFFICES ASSUME TRUE
             PROVE  /\ CallTypeOK' /\ TxTypeOK' /\ DbTypeOK'
                    /\ canceled' \in [Caller -> BOOLEAN]
                    /\ clock' \in 0 .. Horizon
                    /\ faults' \in 0 .. MaxFaults
  BY DEF TypeOK, CallTypeOK, TxTypeOK
<1>1. CallTypeOK /\ TxTypeOK /\ DbTypeOK
  BY DEF TypeOK, CallTypeOK, TxTypeOK
<1>2. ASSUME NEW c \in Caller,
             Start(c) \/ StartNested(c) \/ Advance(c) \/ Fault(c)
      PROVE  CallTypeOK' /\ TxTypeOK' /\ DbTypeOK'
  BY <1>2, CallTyped
<1>3. ASSUME NEW c \in Caller, Step(c)
      PROVE  UNCHANGED <<canceled, clock, faults>> /\ CallTypeOK' /\ TxTypeOK' /\ DbTypeOK'
  BY <1>2, <1>3 DEF Step
<1>4. CASE FaultyStep
  <2>1. faults' \in 0 .. MaxFaults /\ clock' = clock
    BY <1>4 DEF FaultyStep, TypeOK
  <2>2. ASSUME NEW c \in Caller, Cancel(c)
        PROVE  CallTypeOK' /\ TxTypeOK' /\ DbTypeOK' /\ canceled' \in [Caller -> BOOLEAN]
    BY <1>1, <2>2 DEF Cancel, callvars, txvars, dbvars, CallTypeOK, TxTypeOK, DbTypeOK,
         TypeOK
  <2>3. ASSUME NEW t \in TxId, ConnectionBreaks(t)
        PROVE  CallTypeOK' /\ TxTypeOK' /\ DbTypeOK'
    BY <1>1, <2>3, SetSqlTxStep DEF ConnectionBreaks, callvars, dbvars, CallTypeOK,
         DbTypeOK, SqlTx
  <2> QED
    BY <1>2, <1>4, <2>1, <2>2, <2>3 DEF FaultyStep, TypeOK
<1>5. ASSUME NEW t \in TxId, AwaitDone(t)
      PROVE  CallTypeOK' /\ TxTypeOK' /\ DbTypeOK' /\ UNCHANGED <<canceled, clock, faults>>
  BY <1>1, <1>5, SetSqlTxStep DEF AwaitDone, callvars, dbvars, CallTypeOK, DbTypeOK, SqlTx
<1>6. ASSUME NEW t \in TxId, Reap(t) \/ ServerTimeout(t)
      PROVE  CallTypeOK' /\ TxTypeOK' /\ DbTypeOK' /\ UNCHANGED <<canceled, clock, faults>>
  <2>1. SessionStep(t)
    BY <1>6 DEF Reap, SrvReap, ServerTimeout, SessionStep, GoesOn, Commits
  <2>2. TxTypeOK'
    BY <1>1, <1>6 DEF Reap, ServerTimeout, txvars, TxTypeOK
  <2> QED
    BY <1>1, <1>6, <2>1, <2>2, DbTyped DEF Reap, ServerTimeout, callvars, CallTypeOK
<1>7. CASE Tick
  BY <1>1, <1>7 DEF Tick, dbvars, txvars, callvars, CallTypeOK, TxTypeOK, DbTypeOK, TypeOK
<1>8. CASE UNCHANGED vars
  BY <1>1, <1>8 DEF vars, dbvars, txvars, callvars, CallTypeOK, TxTypeOK, DbTypeOK, TypeOK
<1> QED
  BY <1>3, <1>4, <1>5, <1>6, <1>7, <1>8 DEF Next, AllReturned, TypeOK
-----------------------------------------------------------------------------
(* No step of a call touches a transaction that is not the current one of  *)
(* its family.                                                             *)
LEMMA OthersUntouched ==
    ASSUME TypeOK, CommitInvariant, NEW c \in Caller,
           Start(c) \/ StartNested(c) \/ Advance(c) \/ Fault(c),
           UNCHANGED <<attempt, canceled, clock>>
    PROVE  TxFrame(Root(c))
<1>1. \A t \in TxId \ {Tx(c)} : srv'[t] = srv[t]
  BY CallSession, DbTyped DEF OwnSession, TypeOK, dbvars
<1>2. \/ UNCHANGED txvars
      \/ \E s \in SqlTx : SetSqlTx(Tx(c), s)
      \/ BuildSetup(c) \/ Setup(c)
  <2>1. CASE \/ Start(c) \/ StartNested(c) \/ BeginFails(c) \/ SetupPanics(c)
             \/ Read(c) \/ Update(c)
             \/ SerializationFailure(c) \/ Deadlock(c) \/ StatementRejected(c)
             \/ StatementInAborted(c) \/ PlanTooCostly(c)
             \/ HandlerSucceeds(c) \/ HandlerSwallows(c) \/ HandlerPropagates(c)
             \/ HandlerFails(c) \/ HandlerPanics(c) \/ HandlerExits(c)
             \/ CommitTxDone(c) \/ CommitTooLate(c) \/ Judge(c)
    BY <2>1 DEF Start, StartNested, BeginFails, SetupPanics, Read, Update,
         SerializationFailure, Deadlock, StatementRejected, StatementInAborted,
         StatementFails, PlanTooCostly, HandlerSucceeds, HandlerSwallows,
         HandlerPropagates, HandlerFails, HandlerPanics, HandlerExits, FncReturns,
         CommitTxDone, CommitTooLate, Judge
  <2>2. CASE \/ Begin(c) \/ StatementLost(c) \/ HandlerConcludes(c) \/ Commit(c)
             \/ CommitRolledBack(c) \/ CommitRefused(c) \/ CommitUnsent(c)
             \/ CommitUnanswered(c)
    BY <2>2 DEF Begin, StatementLost, HandlerConcludes, Commit, CommitRolledBack,
         CommitRefused, CommitUnsent, CommitUnanswered, SqlTx
  <2>3. CASE SetupFails(c) \/ Rollback(c) \/ DeferredRollback(c)
    BY <2>3 DEF SetupFails, Rollback, DeferredRollback, RollbackTx, SqlTx
  <2> QED
    BY <2>1, <2>2, <2>3 DEF Advance, Fault
<1>3. \A t \in TxId \ {Tx(c)} :
        sqltx'[t] = sqltx[t] /\ limit'[t] = limit[t] /\ expires'[t] = expires[t]
  <2>1. CASE UNCHANGED txvars
    BY <2>1 DEF txvars
  <2>2. ASSUME NEW s \in SqlTx, SetSqlTx(Tx(c), s)
        PROVE  \A t \in TxId \ {Tx(c)} :
                 sqltx'[t] = sqltx[t] /\ limit'[t] = limit[t] /\ expires'[t] = expires[t]
    BY <2>2 DEF SetSqlTx, TypeOK
  <2>3. CASE BuildSetup(c)
    BY <2>3 DEF BuildSetup, TypeOK
  <2>4. CASE Setup(c)
    BY <2>4 DEF Setup, TypeOK
  <2> QED
    BY <1>2, <2>1, <2>2, <2>3, <2>4
<1> QED
  BY <1>1, <1>3, Families DEF TxFrame

(* Steps of an outermost call while none of its nested calls runs, or that *)
(* stay in its handler.                                                    *)
LEMMA RootPreserves ==
    ASSUME TypeOK, TypeOK', CommitInvariant, NEW o \in Roots, TxFrame(o),
           pc[o] # "idle", pc'[o] \notin {"idle", "begin"},
           \A d \in Caller \ {o} :
              pc'[d] = pc[d] /\ failure'[d] = failure[d] /\ reply'[d] = reply[d],
           pc[o] # "handler" \/ ~Busy(o) \/ pc'[o] = "handler",
           Gone(o)' \/ reply'[o] = "none",
           FailureInHand(o)',
           Fits(pc'[o], failure'[o], reply'[o], srv'[Tx(o)], sqltx'[Tx(o)],
                Ended(o), o \in SelfConcluding),
           TimerAllows(Tx(o))'
    PROVE  CommitInvariant'
<1>1. Frame(o)
  BY Families DEF Frame
<1>2. ASSUME NEW n \in Nested(o)
      PROVE  NestedInside(n)'
  <2>1. n \in Caller \ Roots /\ n # o /\ Owner[n] = o /\ o \notin Nested(o)
    BY DEF Nested, Roots
  <2>2. NestedInside(n) /\ attempt'[n] = attempt[n] /\ \A m \in Nested(o) : pc'[m] = pc[m]
    BY <2>1 DEF CommitInvariant, TxFrame, Nested
  <2>3. Running(n) => pc'[o] = "handler"
    BY <2>1, <2>2 DEF NestedInside, Busy, Running, Gone
  <2> QED
    BY <2>1, <2>2, <2>3 DEF NestedInside, Running
<1>3. \A c \in Caller : FailureInHand(c)'
  BY DEF CommitInvariant, FailureInHand
<1> QED
  BY <1>1, <1>2, <1>3, FamilyPreserves

(* An outermost call that goes on to place p with failure f.               *)
LEMMA RootCarries ==
    ASSUME TypeOK, TypeOK', CommitInvariant, NEW o \in Roots, TxFrame(o),
           pc[o] # "idle", ~Gone(o), pc[o] # "handler" \/ ~Busy(o),
           NEW f \in Failure, NEW p \in Place \ {"idle", "begin", "returned", "unwound"},
           Carry(o, f, p),
           p \in {"stmtError", "rollback"} => f # "nil",
           Fits(p, f, "none", srv'[Tx(o)], sqltx'[Tx(o)], Ended(o), o \in SelfConcluding),
           TimerAllows(Tx(o))'
    PROVE  CommitInvariant'
<1>1. o \in Caller /\ CallTypeOK /\ attempt[o] # 0
  BY DEF Roots, TypeOK, CallTypeOK, CommitInvariant, RootInvariant
<1>2. /\ pc'[o] = p /\ failure'[o] = f /\ reply' = reply
      /\ \A d \in Caller \ {o} : pc'[d] = pc[d] /\ failure'[d] = failure[d]
  BY <1>1, CarryStep
<1>3. reply[o] = "none"
  BY <1>1, CurrentFits
<1> QED
  BY <1>2, <1>3, RootPreserves DEF FailureInHand

(* An outermost call that returns or unwinds.                              *)
LEMMA RootReturns ==
    ASSUME TypeOK, TypeOK', CommitInvariant, NEW o \in Roots, TxFrame(o),
           pc[o] \notin {"idle", "handler"},
           NEW how \in Outcome, NEW p \in {"returned", "unwound"}, Return(o, how, p),
           Fits(p, "nil", how, srv'[Tx(o)], sqltx'[Tx(o)], Ended(o), o \in SelfConcluding),
           TimerAllows(Tx(o))'
    PROVE  CommitInvariant'
<1>1. o \in Caller /\ CallTypeOK
  BY DEF Roots, TypeOK, CallTypeOK
<1>2. /\ pc'[o] = p /\ failure'[o] = "nil" /\ reply'[o] = how
      /\ \A d \in Caller \ {o} :
           pc'[d] = pc[d] /\ failure'[d] = failure[d] /\ reply'[d] = reply[d]
  BY <1>1, ReturnStep DEF Place
<1> QED
  BY <1>2, RootPreserves DEF FailureInHand, Gone
-----------------------------------------------------------------------------
(* What there is to know of a call before it takes a step within an        *)
(* attempt.                                                                *)
LEMMA RootFacts ==
    ASSUME TypeOK, CommitInvariant, NEW o \in Roots, pc[o] # "idle"
    PROVE  /\ o \in Caller /\ Tx(o) \in TxId /\ attempt[o] # 0
           /\ Fits(pc[o], failure[o], reply[o], srv[Tx(o)], sqltx[Tx(o)],
                   Ended(o), o \in SelfConcluding)
           /\ TimerAllows(Tx(o)) /\ FailureInHand(o) /\ failure[o] \in Failure
           /\ TxTypeOK /\ DbTypeOK
BY CurrentTx, CurrentFits DEF CommitInvariant, RootInvariant, Roots, TypeOK, TxTypeOK

(* Within an attempt, a call's transaction is the same.                    *)
LEMMA SameTx ==
    ASSUME NEW c \in Caller, TxFrame(Root(c))
    PROVE  Tx(c)' = Tx(c)
BY DEF TxFrame, Tx

(* The steps of a call between its attempts and its handler.               *)
LEMMA BeginPreserves ==
    ASSUME TypeOK, TypeOK', CommitInvariant, NEW o \in Roots, TxFrame(o),
           Begin(o) \/ BeginFails(o)
    PROVE  CommitInvariant'
<1>1. pc[o] = "begin"
  BY DEF Begin, BeginFails
<1>2. o \in Caller /\ Tx(o) \in TxId /\ TimerAllows(Tx(o)) /\ TxTypeOK /\ DbTypeOK
  BY <1>1, RootFacts
<1>3. srv[Tx(o)] = "absent" /\ sqltx[Tx(o)] = "none"
  <2>1. attempt[o] \in Attempt /\ Tx(o) = <<o, attempt[o]>>
    BY <1>1, <1>2, CurrentTx, Families
  <2>2. Untouched(o)
    BY <1>2 DEF CommitInvariant
  <2> QED
    BY <1>1, <2>1, <2>2 DEF Untouched
<1>4. CASE Begin(o)
  <2>1. srv'[Tx(o)] = "begun" /\ sqltx'[Tx(o)] = "open" /\ limit' = limit /\ expires' = expires
    BY <1>2, <1>4, SetSqlTxStep DEF Begin, SqlTx, SrvSet, DbTypeOK
  <2>2. TimerAllows(Tx(o))'
    BY <1>2, <2>1, TimerStays, SameTx, Families DEF TxFrame
  <2> QED
    BY <1>1, <1>4, <2>1, <2>2, RootCarries DEF Begin, Fits, Place, Failure, Gone
<1>5. CASE BeginFails(o)
  <2>1. srv' = srv /\ sqltx' = sqltx /\ limit' = limit /\ expires' = expires
    BY <1>5 DEF BeginFails, txvars, dbvars
  <2>2. TimerAllows(Tx(o))'
    BY <1>2, <2>1, TimerStays, SameTx, Families DEF TxFrame
  <2> QED
    BY <1>1, <1>3, <1>5, <2>1, <2>2, RootCarries DEF BeginFails, Fits, Place, Failure, Gone
<1> QED
  BY <1>4, <1>5

(* The timeout the statement sets is counted from when it was built, so    *)
(* that it allows too much rather than too little.                         *)
LEMMA SetupPreserves ==
    ASSUME TypeOK, TypeOK', CommitInvariant, NEW o \in Roots, TxFrame(o),
           BuildSetup(o) \/ Setup(o)
    PROVE  CommitInvariant'
<1>1. pc[o] \in {"setup", "arm"}
  BY DEF BuildSetup, Setup
<1>2. /\ o \in Caller /\ Tx(o) \in TxId /\ TimerAllows(Tx(o)) /\ TxTypeOK
      /\ Fits(pc[o], failure[o], reply[o], srv[Tx(o)], sqltx[Tx(o)],
              Ended(o), o \in SelfConcluding)
      /\ Tx(o)[1] = o
  BY <1>1, RootFacts, CurrentTx, Families
<1>3. srv' = srv /\ sqltx' = sqltx /\ clock' = clock /\ Tx(o)' = Tx(o)
  BY <1>2, SameTx, Families DEF BuildSetup, Setup, dbvars, TxFrame
<1>4. Deadline[o] \in Nat /\ clock \in Nat /\ limit[Tx(o)] \in Int /\ expires[Tx(o)] \in Int
      /\ TimeoutExtension \in Nat
  BY <1>2 DEF TypeOK, TxTypeOK
<1>5. CASE BuildSetup(o)
  <2>1. limit'[Tx(o)] = TransactionTimeout(o) /\ expires' = expires
    BY <1>2, <1>5 DEF BuildSetup, TxTypeOK
  <2>2. TimerAllows(Tx(o))'
    BY <1>2, <1>3, <1>4, <2>1 DEF TimerAllows, TransactionTimeout
  <2> QED
    BY <1>1, <1>2, <1>3, <1>5, <2>2, RootCarries DEF BuildSetup, Fits, Place, Failure, Gone
<1>6. CASE Setup(o)
  <2>1. /\ limit'[Tx(o)] = 0
        /\ expires'[Tx(o)] = IF limit[Tx(o)] = 0 THEN 0 ELSE clock + limit[Tx(o)]
    BY <1>2, <1>6 DEF Setup, TxTypeOK
  <2>2. TimerAllows(Tx(o))'
    BY <1>2, <1>3, <1>4, <2>1 DEF TimerAllows
  <2> QED
    BY <1>1, <1>2, <1>3, <1>6, <2>2, RootCarries DEF Setup, Fits, Place, Failure, Gone
<1> QED
  BY <1>5, <1>6

(* A rollback leaves a transaction that database/sql is done with, and     *)
(* ended it on the server only through a connection that was open.         *)
LEMMA RollbackTxStep ==
    ASSUME TxTypeOK, DbTypeOK, NEW o \in Caller, Tx(o) \in TxId, RollbackTx(o)
    PROVE  /\ sqltx'[Tx(o)] = "done" /\ limit' = limit /\ expires' = expires
           /\ \/ srv'[Tx(o)] = srv[Tx(o)]
              \/ srv'[Tx(o)] = "ended" /\ sqltx[Tx(o)] = "open"
BY SetSqlTxStep DEF RollbackTx, SqlTx, SrvEnd, DbTypeOK, dbvars, txvars, Usable

(* Every rollback a call makes, after its setup or its handler.            *)
LEMMA RollbackPreserves ==
    ASSUME TypeOK, TypeOK', CommitInvariant, NEW o \in Roots, TxFrame(o),
           SetupFails(o) \/ Rollback(o) \/ DeferredRollback(o)
    PROVE  CommitInvariant'
<1>1. pc[o] \in {"setup", "arm", "rollback", "defer"} /\ RollbackTx(o)
  BY DEF SetupFails, Rollback, DeferredRollback
<1>2. /\ o \in Caller /\ Tx(o) \in TxId /\ TimerAllows(Tx(o)) /\ TxTypeOK /\ DbTypeOK
      /\ Fits(pc[o], failure[o], reply[o], srv[Tx(o)], sqltx[Tx(o)],
              Ended(o), o \in SelfConcluding)
      /\ FailureInHand(o) /\ failure[o] \in Failure
  BY <1>1, RootFacts
<1>3. /\ sqltx'[Tx(o)] = "done"
      /\ srv'[Tx(o)] = srv[Tx(o)] \/ (srv'[Tx(o)] = "ended" /\ sqltx[Tx(o)] = "open")
  BY <1>1, <1>2, RollbackTxStep
<1>4. TimerAllows(Tx(o))'
  BY <1>1, <1>2, RollbackTxStep, TimerStays, SameTx, Families DEF TxFrame
<1>5. CASE SetupFails(o)
  BY <1>1, <1>2, <1>3, <1>4, <1>5, RootCarries DEF SetupFails, Fits, Place, Failure, Gone
<1>6. CASE Rollback(o)
  BY <1>1, <1>2, <1>3, <1>4, <1>6, RootCarries DEF Rollback, Fits, Place, Gone, FailureInHand
<1>7. CASE DeferredRollback(o)
  BY <1>1, <1>2, <1>3, <1>4, <1>7, RootCarries DEF DeferredRollback, Fits, Place, Gone
<1> QED
  BY <1>5, <1>6, <1>7

(* Tx.Commit, with each of its answers.                                    *)
LEMMA CommitPreserves ==
    ASSUME TypeOK, TypeOK', CommitInvariant, NEW o \in Roots, TxFrame(o),
           \/ Commit(o) \/ CommitRolledBack(o) \/ CommitRefused(o) \/ CommitTxDone(o)
           \/ CommitTooLate(o) \/ CommitUnsent(o) \/ CommitUnanswered(o)
    PROVE  CommitInvariant'
<1>1. pc[o] = "commit" /\ ~Gone(o)
  BY DEF Commit, CommitRolledBack, CommitRefused, CommitTxDone, CommitTooLate, CommitUnsent,
       CommitUnanswered, Committing, Gone
<1>2. /\ o \in Caller /\ Tx(o) \in TxId /\ TimerAllows(Tx(o)) /\ TxTypeOK /\ DbTypeOK
      /\ Fits(pc[o], failure[o], reply[o], srv[Tx(o)], sqltx[Tx(o)],
              Ended(o), o \in SelfConcluding)
  BY <1>1, RootFacts
<1>3. Tx(o)' = Tx(o) /\ clock' = clock
  BY <1>2, SameTx, Families DEF TxFrame
<1>4. CASE CommitTxDone(o) \/ CommitTooLate(o)
  <2>1. srv' = srv /\ sqltx' = sqltx /\ limit' = limit /\ expires' = expires
    BY <1>4 DEF CommitTxDone, CommitTooLate, txvars, dbvars
  <2>2. TimerAllows(Tx(o))'
    BY <1>2, <1>3, <2>1, TimerStays
  <2> QED
    BY <1>1, <1>2, <1>4, <2>1, <2>2, RootCarries DEF CommitTxDone, CommitTooLate, Fits,
       Place, Failure
<1>5. CASE \/ Commit(o) \/ CommitRolledBack(o) \/ CommitRefused(o) \/ CommitUnsent(o)
           \/ CommitUnanswered(o)
  <2>1. sqltx'[Tx(o)] = "done" /\ limit' = limit /\ expires' = expires
    BY <1>2, <1>5, SetSqlTxStep DEF Commit, CommitRolledBack, CommitRefused,
         CommitUnsent, CommitUnanswered, SqlTx
  <2>2. TimerAllows(Tx(o))'
    BY <1>2, <1>3, <2>1, TimerStays
  <2>3. CASE Commit(o)
    <3>1. srv'[Tx(o)] = "committed"
      BY <1>2, <2>3 DEF Commit, SrvCommit, DbTypeOK
    <3> QED
      BY <1>1, <2>1, <2>2, <2>3, <3>1, RootCarries DEF Commit, Fits, Place, Failure
  <2>4. CASE CommitRolledBack(o) \/ CommitRefused(o)
    <3>1. srv'[Tx(o)] = "ended"
      BY <1>2, <2>4 DEF CommitRolledBack, CommitRefused, SrvEnd, DbTypeOK
    <3> QED
      BY <1>1, <2>1, <2>2, <2>4, <3>1, RootCarries DEF CommitRolledBack, CommitRefused,
         Fits, Place, Failure
  <2>5. CASE CommitUnsent(o)
    <3>1. srv' = srv
      BY <2>5 DEF CommitUnsent, dbvars
    <3> QED
      BY <1>1, <1>2, <2>1, <2>2, <2>5, <3>1, RootCarries DEF CommitUnsent, Fits, Place, Failure
  <2>6. CASE CommitUnanswered(o)
    <3>1. srv'[Tx(o)] = "committing"
      BY <1>2, <2>6 DEF CommitUnanswered, SrvSet, DbTypeOK
    <3> QED
      BY <1>1, <2>1, <2>2, <2>6, <3>1, RootCarries DEF CommitUnanswered, Fits, Place, Failure
  <2> QED
    BY <1>5, <2>3, <2>4, <2>5, <2>6
<1> QED
  BY <1>4, <1>5

(* A handler that commits by itself.                                       *)
LEMMA HandlerConcludesPreserves ==
    ASSUME TypeOK, TypeOK', CommitInvariant, NEW o \in Roots, TxFrame(o), HandlerConcludes(o)
    PROVE  CommitInvariant'
<1>1. pc[o] = "handler" /\ ~Busy(o) /\ ~Gone(o)
  BY DEF HandlerConcludes, Querying, Gone
<1>2. o \in Caller /\ Tx(o) \in TxId /\ TimerAllows(Tx(o)) /\ TxTypeOK /\ DbTypeOK
  BY <1>1, RootFacts
<1>3. /\ sqltx'[Tx(o)] = "done" /\ limit' = limit /\ expires' = expires
      /\ srv'[Tx(o)] = "committed"
  BY <1>2, SetSqlTxStep DEF HandlerConcludes, SqlTx, SrvCommit, DbTypeOK
<1>4. TimerAllows(Tx(o))'
  BY <1>2, <1>3, TimerStays, SameTx, Families DEF TxFrame
<1> QED
  <2>1. PICK f \in Failure, p \in {"commit", "rollback"} :
          Carry(o, f, p) /\ <<f, p>> \in {<<"nil", "commit">>, <<"fatal", "rollback">>}
    <3>1. "nil" \in Failure /\ "fatal" \in Failure
      BY DEF Failure
    <3>2. Carry(o, "nil", "commit") \/ Carry(o, "fatal", "rollback")
      BY DEF HandlerConcludes
    <3> QED
      BY <3>1, <3>2, Zenon
  <2>2. Fits(p, f, "none", srv'[Tx(o)], sqltx'[Tx(o)], Ended(o), o \in SelfConcluding)
    BY <1>3, <2>1 DEF HandlerConcludes, Fits
  <2> QED
    BY <1>1, <1>4, <2>1, <2>2, RootCarries DEF Place

(* A call returns: its hook panicked, or the executor has settled it.      *)
LEMMA ReturnsPreserve ==
    ASSUME TypeOK, TypeOK', CommitInvariant, NEW o \in Roots, TxFrame(o),
           \/ SetupPanics(o)
           \/ Judge(o) /\ Return(o, Settled(o), "returned")
    PROVE  CommitInvariant'
<1>1. pc[o] \in {"setup", "judge"}
  BY DEF SetupPanics, Judge
<1>2. /\ o \in Caller /\ Tx(o) \in TxId /\ TimerAllows(Tx(o))
      /\ Fits(pc[o], failure[o], reply[o], srv[Tx(o)], sqltx[Tx(o)],
              Ended(o), o \in SelfConcluding)
      /\ failure[o] \in Failure
  BY <1>1, RootFacts
<1>3. srv' = srv /\ sqltx' = sqltx /\ limit' = limit /\ expires' = expires
  BY DEF SetupPanics, Judge, txvars, dbvars
<1>4. TimerAllows(Tx(o))'
  BY <1>2, <1>3, TimerStays, SameTx, Families DEF TxFrame
<1>5. CASE SetupPanics(o)
  BY <1>1, <1>2, <1>3, <1>4, <1>5, RootReturns DEF SetupPanics, Fits, Outcome
<1>6. CASE Judge(o) /\ Return(o, Settled(o), "returned")
  <2>1. Settled(o) \in Outcome
    BY <1>2 DEF Settled, Recorded, Outcome
  <2>2. Fits("returned", "nil", Settled(o), srv[Tx(o)], sqltx[Tx(o)], Ended(o),
             o \in SelfConcluding)
    <3>1. pc[o] = "judge"
      BY <1>6 DEF Judge
    <3>2. CASE Ended(o) /\ failure[o] \notin {"panic", "goexit"}
      <4>1. Settled(o) = "canceled"
        BY <3>2 DEF Settled
      <4> QED
        BY <1>2, <3>1, <4>1 DEF Fits
    <3>3. CASE ~(Ended(o) /\ failure[o] \notin {"panic", "goexit"})
      <4>1. Settled(o) = Recorded(o)
        BY <3>3 DEF Settled
      <4>2. /\ failure[o] = "nil" => Settled(o) = "ok" /\ ~Ended(o)
            /\ failure[o] = "commit" => Settled(o) = "commitError"
            /\ failure[o] # "nil" => Settled(o) # "ok"
            /\ failure[o] = "fatal" => Settled(o) = "error"
        BY <1>2, <3>3, <4>1 DEF Recorded, Failure
      <4> QED
        BY <1>2, <3>1, <4>2 DEF Fits
    <3> QED
      BY <3>2, <3>3
  <2> QED
    BY <1>1, <1>3, <1>4, <1>6, <2>1, <2>2, RootReturns
<1> QED
  BY <1>5, <1>6
(* A new attempt starts over: a transaction nothing has touched yet, nested *)
(* calls that have not been made.                                          *)
LEMMA NewAttemptPreserves ==
    ASSUME TypeOK, TypeOK', CommitInvariant, NEW o \in Roots, NewAttempt(o),
           attempt[o] <= MaxRetries, pc[o] \in {"idle", "judge"},
           pc[o] = "judge" => failure[o] = "retryable",
           UNCHANGED <<txvars, dbvars, canceled, clock>>
    PROVE  CommitInvariant'
<1>1. /\ pc'[o] = "begin" /\ failure'[o] = "nil" /\ reply'[o] = "none"
      /\ attempt'[o] = attempt[o] + 1 /\ attempt[o] \in Nat /\ o \in Caller
      /\ \A d \in Caller \ {o} : failure'[d] = failure[d] /\ attempt'[d] = attempt[d]
      /\ \A n \in Nested(o) : pc'[n] = "idle"
      /\ \A d \in Caller : Root(d) # o => pc'[d] = pc[d] /\ reply'[d] = reply[d]
  BY NewAttemptStep DEF TypeOK, CallTypeOK, Roots
<1>2. srv' = srv /\ sqltx' = sqltx /\ limit' = limit /\ expires' = expires
  BY DEF txvars, dbvars
<1>3. \A c \in Caller : Ended(c)' = Ended(c)
  BY DEF Ended
<1>4. ASSUME NEW c \in Caller
      PROVE  FailureInHand(c)' /\ Untouched(c)'
  <2>1. FailureInHand(c) /\ Untouched(c) /\ attempt[c] \in Nat
    BY DEF CommitInvariant, TypeOK
  <2>2. CASE c = o
    BY <1>1, <1>2, <2>1, <2>2 DEF FailureInHand, Untouched, Attempt
  <2>3. CASE c # o
    <3>1. failure'[c] = failure[c] /\ attempt'[c] = attempt[c] /\ pc'[c] \in {"idle", pc[c]}
      BY <1>1, <2>3, Families DEF Nested
    <3> QED
      BY <1>2, <2>1, <3>1 DEF FailureInHand, Untouched
  <2> QED
    BY <2>2, <2>3
<1>5. ASSUME NEW n \in Caller \ Roots
      PROVE  NestedInside(n)'
  <2>1. NestedInside(n) /\ attempt'[n] = attempt[n] /\ Owner[n] \in Roots /\ n \in Nested(Owner[n])
    BY <1>1, Families DEF CommitInvariant, Roots
  <2>2. CASE Owner[n] = o
    BY <1>1, <2>1, <2>2 DEF NestedInside, Running
  <2>3. CASE Owner[n] # o
    <3>1. pc'[Owner[n]] = pc[Owner[n]] /\ \A m \in Nested(Owner[n]) : pc'[m] = pc[m]
      BY <1>1, <2>1, <2>3, Families DEF Nested, Roots
    <3> QED
      BY <2>1, <3>1 DEF NestedInside, Running
  <2> QED
    BY <2>2, <2>3
<1>6. ASSUME NEW r \in Roots
      PROVE  RootInvariant(r)'
  <2>1. RootInvariant(r) /\ r \in Caller
    BY DEF CommitInvariant, Roots
  <2>2. CASE r = o
    <3>1. attempt[o] + 1 \in Attempt
      BY <1>1 DEF Attempt
    <3>2. Tx(o)' = <<o, attempt[o] + 1>>
      BY <1>1, Families DEF Tx
    <3>3. srv[<<o, attempt[o] + 1>>] = "absent" /\ sqltx[<<o, attempt[o] + 1>>] = "none"
      BY <1>1, <3>1 DEF CommitInvariant, Untouched
    <3>4. ASSUME NEW k \in Attempt, k < attempt[o] + 1
          PROVE  /\ sqltx[<<o, k>>] \notin {"open", "broken"}
                 /\ srv[<<o, k>>] \notin {"committed", "committing"}
      <4>1. CASE k < attempt[o]
        BY <2>1, <2>2, <4>1 DEF RootInvariant, OverForGood
      <4>2. CASE k = attempt[o]
        <5>1. attempt[o] # 0 /\ pc[o] = "judge" /\ Tx(o) = <<o, k>>
          BY <2>1, <2>2, <4>2, Families DEF RootInvariant, Attempt, Tx
        <5> QED
          BY <2>1, <2>2, <5>1 DEF RootInvariant, Fits
      <4> QED
        BY <1>1, <3>4, <4>1, <4>2 DEF Attempt
    <3>5. OverForGood(o)'
      BY <1>1, <1>2, <3>4 DEF OverForGood
    <3> QED
      BY <1>1, <1>2, <2>2, <3>2, <3>3, <3>5 DEF RootInvariant, Fits, Gone
  <2>3. CASE r # o
    <3>1. /\ pc'[r] = pc[r] /\ failure'[r] = failure[r] /\ reply'[r] = reply[r]
          /\ attempt'[r] = attempt[r] /\ Tx(r)' = Tx(r)
      BY <1>1, <2>1, <2>3, Families DEF Tx
    <3> QED
      BY <1>2, <1>3, <2>1, <3>1 DEF RootInvariant, Gone, OverForGood
  <2> QED
    BY <2>2, <2>3
<1>7. \A t \in TxId : TimerAllows(t)'
  BY <1>2 DEF CommitInvariant, TimerAllows
<1> QED
  BY <1>4, <1>5, <1>6, <1>7 DEF CommitInvariant, Roots

(* A step of a call that runs in its handler: an outermost one none of     *)
(* whose nested calls runs, or a nested one itself.                        *)
LEMMA HandlerFacts ==
    ASSUME TypeOK, CommitInvariant, NEW c \in Caller, Running(c)
    PROVE  /\ Root(c) \in Roots /\ Root(c) \in Caller /\ pc[Root(c)] \in {"handler", "stmtError"}
           /\ c \notin Roots => pc[Root(c)] = "handler"
           /\ reply[Root(c)] = "none" /\ attempt[Root(c)] # 0
           /\ Tx(Root(c)) = Tx(c) /\ Tx(c) \in TxId
           /\ srv[Tx(c)] \notin {"committed", "committing"}
           /\ sqltx[Tx(c)] = "done" => Ended(c)
           /\ TimerAllows(Tx(c))
<1>1. Root(c) \in Roots /\ Root(c) \in Caller /\ Tx(Root(c)) = Tx(c) /\ Ended(Root(c)) = Ended(c)
  BY Families DEF Roots
<1>2. pc[Root(c)] \in {"handler", "stmtError"} /\ (c \notin Roots => pc[Root(c)] = "handler")
  BY CurrentTx, Families DEF Running
<1>3. /\ Fits(pc[Root(c)], failure[Root(c)], reply[Root(c)], srv[Tx(c)], sqltx[Tx(c)],
              Ended(c), Root(c) \in SelfConcluding)
      /\ Tx(c) \in TxId /\ TimerAllows(Tx(c)) /\ attempt[Root(c)] # 0
  BY <1>1, <1>2, RootFacts
<1>4. reply[Root(c)] = "none"
  BY <1>1, <1>2, <1>3, CurrentFits DEF Gone
<1> QED
  BY <1>1, <1>2, <1>3, <1>4 DEF Fits
(* Steps of a nested call: no other call of its family is in a handler but *)
(* the outermost one, which waits.                                         *)
LEMMA NestedPreserves ==
    ASSUME TypeOK, TypeOK', CommitInvariant, NEW c \in Caller \ Roots, TxFrame(Root(c)),
           pc[Root(c)] = "handler", \A m \in Nested(Root(c)) \ {c} : ~Running(m),
           pc'[c] \in {"handler", "stmtError", "returned"},
           pc'[c] = "returned" \/ pc'[Root(c)] = "handler",
           pc'[Root(c)] \notin {"idle", "begin"}, reply'[Root(c)] = "none",
           \A d \in Caller \ {c, Root(c)} :
              pc'[d] = pc[d] /\ failure'[d] = failure[d] /\ reply'[d] = reply[d],
           FailureInHand(c)', FailureInHand(Root(c))',
           Fits(pc'[Root(c)], failure'[Root(c)], "none", srv'[Tx(c)], sqltx'[Tx(c)],
                Ended(c), Root(c) \in SelfConcluding),
           TimerAllows(Tx(c))'
    PROVE  CommitInvariant'
<1> DEFINE o == Root(c)
<1>1. /\ o \in Roots /\ o \in Caller /\ o # c /\ Root(o) = o /\ Tx(o) = Tx(c)
      /\ Ended(o) = Ended(c) /\ c \in Nested(o)
  BY Families DEF Roots
<1>2. Frame(o)
  BY <1>1, Families DEF Frame
<1>3. ASSUME NEW n \in Nested(o)
      PROVE  NestedInside(n)'
  <2>1. n \in Caller \ Roots /\ Owner[n] = o /\ n # o /\ o \notin Nested(o)
    BY <1>1 DEF Nested, Roots
  <2>2. NestedInside(n) /\ attempt'[n] = attempt[n] /\ (n # c => pc'[n] = pc[n])
        /\ \A m \in Nested(o) \ {c} : pc'[m] = pc[m]
    BY <2>1 DEF CommitInvariant, TxFrame, Nested
  <2> QED
    BY <1>1, <2>1, <2>2 DEF NestedInside, Running
<1>4. ASSUME NEW d \in Caller, Root(d) = o
      PROVE  FailureInHand(d)'
  <2>1. FailureInHand(d)
    BY DEF CommitInvariant
  <2> QED
    BY <2>1 DEF FailureInHand
<1>5. TimerAllows(Tx(o))'
  BY <1>1, SameTx, Families DEF TxFrame, Tx
<1> HIDE DEF o
<1>6. pc[o] = "handler" /\ pc'[o] \notin {"idle", "begin"} /\ reply'[o] = "none"
      /\ Fits(pc'[o], failure'[o], reply'[o], srv'[Tx(o)], sqltx'[Tx(o)],
                Ended(o), o \in SelfConcluding)
  BY <1>1 DEF o
<1> QED
  BY <1>1, <1>2, <1>3, <1>4, <1>5, <1>6, FamilyPreserves

(* A call makes a nested one.                                              *)
LEMMA StartNestedPreserves ==
    ASSUME TypeOK, TypeOK', CommitInvariant, NEW c \in Caller, TxFrame(Root(c)),
           StartNested(c)
    PROVE  CommitInvariant'
<1>1. c \in Caller \ Roots /\ pc[Root(c)] = "handler" /\ ~Busy(Root(c)) /\ pc[c] = "idle"
      /\ Root(c) \in Caller \ {c}
  BY Families DEF StartNested, Reachable, TxInContext, Roots
<1>2. /\ Fits(pc[Root(c)], failure[Root(c)], "none", srv[Tx(c)], sqltx[Tx(c)],
              Ended(c), Root(c) \in SelfConcluding)
      /\ reply[Root(c)] = "none" /\ TimerAllows(Tx(c)) /\ FailureInHand(Root(c))
  BY <1>1, RootFacts, CurrentFits, Families DEF Gone
<1>3. srv' = srv /\ sqltx' = sqltx /\ limit' = limit /\ expires' = expires
  BY DEF StartNested, txvars, dbvars
<1>4. /\ pc'[c] = "handler" /\ reply' = reply
      /\ \A d \in Caller \ {c} : pc'[d] = pc[d] /\ failure'[d] = failure[d]
  BY CarryStep DEF StartNested, TypeOK, CallTypeOK, Place, Failure
<1>5. \A m \in Nested(Root(c)) : ~Running(m)
  BY <1>1 DEF Busy, Running, Gone
<1>6. TimerAllows(Tx(c))'
  BY <1>2, <1>3, SameTx DEF TimerAllows, TxFrame
<1> QED
  BY <1>1, <1>2, <1>3, <1>4, <1>5, <1>6, NestedPreserves DEF FailureInHand

(* A handler is done with a statement and goes on, with its error in hand  *)
(* if it has failed.                                                       *)
LEMMA GoesOnInHandler ==
    ASSUME TypeOK, TypeOK', CommitInvariant, NEW c \in Caller, TxFrame(Root(c)),
           pc[c] = "handler", ~Busy(c),
           UNCHANGED callvars \/ \E f \in Failure \ {"nil"} : Carry(c, f, "stmtError"),
           srv'[Tx(c)] \notin {"committed", "committing"},
           sqltx'[Tx(c)] = "done" => sqltx[Tx(c)] = "done",
           TimerAllows(Tx(c))'
    PROVE  CommitInvariant'
<1>1. /\ pc'[c] \in {"handler", "stmtError"} /\ reply' = reply
      /\ \A d \in Caller \ {c} : pc'[d] = pc[d] /\ failure'[d] = failure[d]
      /\ pc'[c] = "stmtError" => failure'[c] # "nil"
  <2>1. CASE UNCHANGED callvars
    BY <2>1 DEF callvars
  <2>2. CASE \E f \in Failure \ {"nil"} : Carry(c, f, "stmtError")
    <3>1. PICK f \in Failure \ {"nil"} : Carry(c, f, "stmtError")
      BY <2>2
    <3> QED
      BY <3>1, CarryStep DEF TypeOK, CallTypeOK, Place
  <2> QED
    BY <2>1, <2>2
<1>2. Running(c)
  BY DEF Running
<1>3. \A p, f : p \in {"handler", "stmtError"} =>
        Fits(p, f, "none", srv'[Tx(c)], sqltx'[Tx(c)], Ended(c), Root(c) \in SelfConcluding)
  BY <1>2, HandlerFacts DEF Fits
<1>4. CASE c \in Roots
  <2>1. Root(c) = c /\ pc[c] # "idle" /\ reply[c] = "none"
    BY <1>2, <1>4, Families, HandlerFacts
  <2> QED
    BY <1>1, <1>3, <1>4, <2>1, RootPreserves DEF FailureInHand
<1>5. CASE c \notin Roots
  <2>1. pc[Root(c)] = "handler" /\ reply[Root(c)] = "none" /\ Root(c) \in Caller \ {c}
    BY <1>2, <1>5, HandlerFacts, Families DEF Nested
  <2>2. \A m \in Nested(Root(c)) \ {c} : ~Running(m)
    BY <1>2, <1>5, Families DEF CommitInvariant, NestedInside
  <2>3. FailureInHand(Root(c))'
    BY <1>1, <2>1 DEF FailureInHand
  <2> QED
    BY <1>1, <1>3, <1>5, <2>1, <2>2, <2>3, NestedPreserves DEF FailureInHand
<1> QED
  BY <1>4, <1>5

(* Statements, whatever comes of them.                                     *)
LEMMA StatementPreserves ==
    ASSUME TypeOK, TypeOK', CommitInvariant, NEW c \in Caller, TxFrame(Root(c)),
           \/ Read(c) \/ Update(c) \/ SerializationFailure(c) \/ Deadlock(c)
           \/ StatementRejected(c) \/ StatementInAborted(c) \/ PlanTooCostly(c)
           \/ StatementLost(c)
    PROVE  CommitInvariant'
<1>1. pc[c] = "handler" /\ ~Busy(c)
  <2>1. Deadlock(c) => Querying(c, "open")
    BY DEF Deadlock
  <2> QED
    BY <2>1 DEF Read, Update, SerializationFailure, StatementRejected, StatementInAborted,
       PlanTooCostly, StatementLost, Querying
<1>2. Tx(c) \in TxId /\ TimerAllows(Tx(c)) /\ srv[Tx(c)] \notin {"committed", "committing"}
      /\ TxTypeOK /\ DbTypeOK
  BY <1>1, HandlerFacts DEF Running, TypeOK, TxTypeOK
<1>3. UNCHANGED callvars \/ \E f \in Failure \ {"nil"} : Carry(c, f, "stmtError")
  BY DEF Read, Update, SerializationFailure, Deadlock, StatementRejected, StatementInAborted,
     PlanTooCostly, StatementLost, StatementFails, Failure
<1>4. /\ srv'[Tx(c)] \in {srv[Tx(c)], "open", "aborted"}
      /\ sqltx'[Tx(c)] \in {sqltx[Tx(c)], "broken"}
      /\ limit'[Tx(c)] = limit[Tx(c)] /\ expires'[Tx(c)] = expires[Tx(c)]
  <2>1. CASE Read(c) \/ Update(c)
    BY <1>2, <2>1 DEF Read, Update, SrvRead, SrvUpdate, txvars, DbTypeOK
  <2>2. CASE \/ SerializationFailure(c) \/ Deadlock(c) \/ StatementRejected(c)
             \/ StatementInAborted(c)
    <3>1. StatementFails(c, "retryable") \/ StatementFails(c, "fatal")
      BY <2>2 DEF SerializationFailure, Deadlock, StatementRejected, StatementInAborted
    <3> QED
      BY <1>2, <3>1 DEF StatementFails, SrvSet, txvars, DbTypeOK
  <2>3. CASE PlanTooCostly(c) \/ StatementLost(c)
    BY <1>2, <2>3, SetSqlTxStep DEF PlanTooCostly, StatementLost, txvars, dbvars, SqlTx
  <2> QED
    BY <2>1, <2>2, <2>3
<1>5. TimerAllows(Tx(c))'
  BY <1>2, <1>4, TimerStays, SameTx DEF TxFrame
<1> QED
  BY <1>1, <1>2, <1>3, <1>4, <1>5, GoesOnInHandler

(* How fnc returns, from the outermost call's handler or a nested one's.   *)
LEMMA ReturnPreserves ==
    ASSUME TypeOK, TypeOK', CommitInvariant, NEW c \in Caller, TxFrame(Root(c)),
           \/ HandlerSucceeds(c) \/ HandlerSwallows(c) \/ HandlerPropagates(c)
           \/ HandlerFails(c) \/ HandlerPanics(c) \/ HandlerExits(c)
    PROVE  CommitInvariant'
<1>1. Running(c) /\ ~Busy(c)
  BY DEF HandlerSucceeds, HandlerSwallows, HandlerPropagates, HandlerFails, HandlerPanics,
     HandlerExits, InHandler, Running
<1>2. PICK f \in Failure, p \in Place :
        /\ FncReturns(c, f, p)
        /\ \/ f = "nil" /\ p = "commit"
           \/ f # "nil" /\ p = "rollback"
           \/ f = "goexit" /\ p = "defer"
  <2>1. HandlerPropagates(c) => failure[c] \in Failure \ {"nil"}
    BY DEF HandlerPropagates, CommitInvariant, FailureInHand, TypeOK
  <2> QED
    BY <2>1 DEF HandlerSucceeds, HandlerSwallows, HandlerPropagates, HandlerFails,
       HandlerPanics, HandlerExits, Place, Failure
<1>3. srv' = srv /\ sqltx' = sqltx /\ limit' = limit /\ expires' = expires
  BY <1>2 DEF FncReturns, txvars, dbvars
<1>4. \A q \in {p, HandedBack(f)} :
        Fits(q, f, "none", srv'[Tx(c)], sqltx'[Tx(c)], Ended(c), Root(c) \in SelfConcluding)
  BY <1>1, <1>2, <1>3, HandlerFacts DEF Fits, HandedBack
<1>5. TimerAllows(Tx(c))'
  BY <1>1, <1>3, HandlerFacts, TimerStays, SameTx DEF TxFrame
<1>6. CASE c \in Roots
  <2>1. Root(c) = c /\ Carry(c, f, p) /\ pc[c] # "idle" /\ ~Gone(c)
    BY <1>1, <1>2, <1>6, Families DEF FncReturns, Running, Gone
  <2>2. p \in Place \ {"idle", "begin", "returned", "unwound"}
        /\ (p \in {"stmtError", "rollback"} => f # "nil")
    BY <1>2
  <2> QED
    BY <1>1, <1>4, <1>5, <1>6, <2>1, <2>2, RootCarries
<1>7. CASE c \notin Roots
  <2>1. /\ pc'[c] = "returned" /\ pc'[Root(c)] = HandedBack(f) /\ failure'[Root(c)] = f
        /\ reply'[Root(c)] = reply[Root(c)]
        /\ \A d \in Caller \ {c, Root(c)} :
             pc'[d] = pc[d] /\ failure'[d] = failure[d] /\ reply'[d] = reply[d]
    BY <1>2, <1>7, HandBackStep, Families DEF FncReturns, TypeOK, CallTypeOK
  <2>2. pc[Root(c)] = "handler" /\ reply[Root(c)] = "none" /\ Root(c) \in Caller \ {c}
    BY <1>1, <1>7, HandlerFacts, Families DEF Nested
  <2>3. \A m \in Nested(Root(c)) \ {c} : ~Running(m)
    BY <1>1, <1>7, Families DEF CommitInvariant, NestedInside
  <2>4. FailureInHand(Root(c))' /\ FailureInHand(c)' /\ HandedBack(f) \notin {"idle", "begin"}
    BY <2>1 DEF FailureInHand, HandedBack
  <2> QED
    BY <1>4, <1>5, <1>7, <2>1, <2>2, <2>3, <2>4, NestedPreserves
<1> QED
  BY <1>6, <1>7
-----------------------------------------------------------------------------
(* What calls do, all together.                                            *)
LEMMA CallPreserves ==
    ASSUME TypeOK, TypeOK', CommitInvariant, NEW c \in Caller,
           Start(c) \/ StartNested(c) \/ Advance(c) \/ Fault(c),
           UNCHANGED <<canceled, clock>>
    PROVE  CommitInvariant'
<1>1. CASE Start(c) \/ (Judge(c) /\ Retries(c) /\ NewAttempt(c))
  <2>1. c \in Roots /\ NewAttempt(c) /\ UNCHANGED <<txvars, dbvars>>
    BY <1>1, NestedPlaces, Families DEF Start, Judge
  <2>2. CASE Start(c)
    <3>1. pc[c] = "idle" /\ attempt[c] <= MaxRetries
      BY <2>1, <2>2 DEF Start, CommitInvariant, RootInvariant
    <3> QED
      BY <2>1, <3>1, NewAttemptPreserves
  <2>3. CASE Judge(c) /\ Retries(c)
    BY <2>1, <2>3, NewAttemptPreserves DEF Judge, Retries
  <2> QED
    BY <1>1, <2>2, <2>3
<1>2. CASE ~(Start(c) \/ (Judge(c) /\ Retries(c) /\ NewAttempt(c)))
  <2>1. attempt' = attempt
    BY <1>2 DEF Advance, Fault, StartNested, Begin, BeginFails, BuildSetup, Setup, SetupFails,
       SetupPanics, Read, Update, SerializationFailure, Deadlock, StatementRejected,
       StatementInAborted, StatementFails, PlanTooCostly, StatementLost, HandlerSucceeds,
       HandlerSwallows, HandlerPropagates, HandlerFails, HandlerPanics, HandlerExits,
       HandlerConcludes, FncReturns, HandBack, Rollback, DeferredRollback, Commit,
       CommitRolledBack, CommitRefused, CommitTxDone, CommitTooLate, CommitUnsent,
       CommitUnanswered, Judge, Carry, Return, callvars
  <2>2. TxFrame(Root(c))
    BY <2>1, OthersUntouched
  <2>3. CASE StartNested(c)
    BY <2>2, <2>3, StartNestedPreserves
  <2>4. CASE \/ Read(c) \/ Update(c) \/ SerializationFailure(c) \/ Deadlock(c)
             \/ StatementRejected(c) \/ StatementInAborted(c) \/ PlanTooCostly(c)
             \/ StatementLost(c)
    BY <2>2, <2>4, StatementPreserves
  <2>5. CASE \/ HandlerSucceeds(c) \/ HandlerSwallows(c) \/ HandlerPropagates(c)
             \/ HandlerFails(c) \/ HandlerPanics(c) \/ HandlerExits(c)
    BY <2>2, <2>5, ReturnPreserves
  <2>6. CASE \/ Begin(c) \/ BeginFails(c) \/ BuildSetup(c) \/ Setup(c) \/ SetupFails(c)
             \/ SetupPanics(c) \/ HandlerConcludes(c) \/ Rollback(c) \/ DeferredRollback(c)
             \/ Commit(c) \/ CommitRolledBack(c) \/ CommitRefused(c) \/ CommitTxDone(c)
             \/ CommitTooLate(c) \/ CommitUnsent(c) \/ CommitUnanswered(c) \/ Judge(c)
    <3>1. c \in Roots /\ Root(c) = c
      <4>1. HandlerConcludes(c) => c \in Roots
        BY Families DEF HandlerConcludes
      <4> QED
        BY <2>6, <4>1, NestedPlaces, Families DEF Begin, BeginFails, BuildSetup, Setup,
           SetupFails, SetupPanics, Rollback, DeferredRollback, Commit, CommitRolledBack,
           CommitRefused, CommitTxDone, CommitTooLate, CommitUnsent, CommitUnanswered,
           Committing, Judge
    <3>2. TxFrame(c)
      BY <2>2, <3>1
    <3>3. Judge(c) => Return(c, Settled(c), "returned")
      BY <1>2 DEF Judge
    <3> QED
      BY <2>6, <3>1, <3>2, <3>3, BeginPreserves, SetupPreserves, RollbackPreserves,
         CommitPreserves, HandlerConcludesPreserves, ReturnsPreserve
  <2> QED
    BY <1>2, <2>3, <2>4, <2>5, <2>6 DEF Advance, Fault
<1> QED
  BY <1>1, <1>2

(* Behind the backs of the calls: a transaction may be closed once its     *)
(* context is over and undone on the server, but is never begun or         *)
(* committed unless a COMMIT was under way.                                *)
Settling(t) ==
    /\ srv[t] = "absent" /\ sqltx[t] = "none" => srv'[t] = "absent" /\ sqltx'[t] = "none"
    /\ sqltx'[t] \in {"open", "broken"} => sqltx[t] \in {"open", "broken"}
    /\ sqltx[t] = "done" => sqltx'[t] = "done"
    /\ sqltx'[t] = "done" => sqltx[t] = "done" \/ Ended(t[1])
    /\ srv'[t] = "committed" => srv[t] \in {"committing", "committed"}
    /\ srv'[t] = "committing" => srv[t] = "committing"
    /\ srv[t] = "committed" => srv'[t] = "committed"

(* Steps that leave the calls where they are.                              *)
LEMMA OutsidePreserves ==
    ASSUME TypeOK, CommitInvariant, UNCHANGED callvars,
           \A t \in TxId : Settling(t) /\ TimerAllows(t)',
           \A c \in Caller : Ended(c) => Ended(c)'
    PROVE  CommitInvariant'
<1>1. /\ pc' = pc /\ attempt' = attempt /\ failure' = failure /\ reply' = reply
      /\ \A c \in Caller : Tx(c)' = Tx(c)
  BY DEF callvars, Tx
<1>2. \A c \in Caller, k \in Attempt : Settling(<<c, k>>)
  BY DEF TxId
<1>3. ASSUME NEW c \in Caller
      PROVE  FailureInHand(c)' /\ Untouched(c)'
  BY <1>1, <1>2 DEF CommitInvariant, FailureInHand, Untouched, Settling
<1>4. ASSUME NEW n \in Caller \ Roots
      PROVE  NestedInside(n)'
  BY <1>1 DEF CommitInvariant, NestedInside, Running
<1>5. ASSUME NEW r \in Roots
      PROVE  RootInvariant(r)'
  <2>1. RootInvariant(r) /\ r \in Caller
    BY DEF CommitInvariant, Roots
  <2>2. OverForGood(r)'
    BY <1>1, <1>2, <2>1 DEF RootInvariant, OverForGood, Settling
  <2>3. ASSUME attempt[r] # 0
        PROVE  Fits(pc[r], failure[r], reply[r], srv'[Tx(r)], sqltx'[Tx(r)],
                    Ended(r)', r \in SelfConcluding)
    <3>1. pc[r] # "idle"
      BY <2>1, <2>3 DEF RootInvariant
    <3>2. Tx(r) \in TxId /\ Tx(r)[1] = r
      BY <2>1, <3>1, CurrentTx, Families
    <3>3. Settling(Tx(r)) /\ (Ended(r) => Ended(r)')
      BY <2>1, <3>2
    <3>4. Fits(pc[r], failure[r], reply[r], srv[Tx(r)], sqltx[Tx(r)],
               Ended(r), r \in SelfConcluding)
      BY <2>1, <2>3 DEF RootInvariant
    <3> QED
      BY <3>2, <3>3, <3>4 DEF Fits, Settling
  <2> QED
    BY <1>1, <2>1, <2>2, <2>3 DEF RootInvariant, Gone
<1> QED
  BY <1>3, <1>4, <1>5 DEF CommitInvariant, Roots

(* What database/sql and the server do with a transaction by themselves.   *)
LEMMA SessionsPreserve ==
    ASSUME TypeOK, CommitInvariant, NEW t \in TxId,
           \/ AwaitDone(t) \/ Reap(t) \/ ServerTimeout(t)
           \/ ConnectionBreaks(t) /\ UNCHANGED <<canceled, clock>>
    PROVE  CommitInvariant'
<1>1. UNCHANGED callvars /\ canceled' = canceled /\ clock' = clock
  BY DEF AwaitDone, Reap, ServerTimeout, ConnectionBreaks
<1>2. TxTypeOK /\ DbTypeOK /\ Deadline[t[1]] \in Nat /\ TimeoutExtension \in Nat /\ clock \in Nat
  BY DEF TypeOK, TxTypeOK, TxId
<1>3. \A c \in Caller : Ended(c) => Ended(c)'
  BY <1>1 DEF Ended
<1>4. /\ \A u \in TxId \ {t} : /\ srv'[u] = srv[u] /\ sqltx'[u] = sqltx[u]
                               /\ limit'[u] = limit[u] /\ expires'[u] = expires[u]
      /\ limit'[t] = limit[t]
      /\ \/ srv'[t] = srv[t] /\ expires'[t] = expires[t]
            /\ \/ sqltx'[t] = "done" /\ sqltx[t] \in {"open", "broken"} /\ Ended(t[1])
               \/ sqltx'[t] = "broken" /\ sqltx[t] = "open"
         \/ sqltx'[t] = sqltx[t] /\ sqltx[t] # "open" /\ expires'[t] = expires[t]
            /\ \/ srv'[t] = "ended" /\ srv[t] \notin {"absent", "committed"}
               \/ srv'[t] = "committed" /\ srv[t] = "committing"
         \/ sqltx'[t] = sqltx[t] /\ srv'[t] = "ended" /\ expires'[t] = 0
            /\ srv[t] \in {"begun", "open", "aborted"}
            /\ expires[t] # 0 /\ clock >= expires[t]
  <2>1. CASE AwaitDone(t) \/ ConnectionBreaks(t)
    <3>1. srv' = srv
      BY <2>1 DEF AwaitDone, ConnectionBreaks, dbvars
    <3>2. \/ SetSqlTx(t, "done") /\ sqltx[t] \in {"open", "broken"} /\ Ended(t[1])
          \/ SetSqlTx(t, "broken") /\ sqltx[t] = "open"
      BY <2>1 DEF AwaitDone, ConnectionBreaks
    <3> QED
      BY <1>2, <3>1, <3>2, SetSqlTxStep DEF SqlTx
  <2>2. CASE Reap(t)
    BY <1>2, <2>2 DEF Reap, SrvReap, SrvEnd, SrvCommit, txvars, DbTypeOK
  <2>3. CASE ServerTimeout(t)
    BY <1>2, <2>3 DEF ServerTimeout, SrvEnd, DbTypeOK, TxTypeOK
  <2> QED
    BY <2>1, <2>2, <2>3
<1>5. ASSUME NEW u \in TxId
      PROVE  Settling(u) /\ TimerAllows(u)'
  <2>1. TimerAllows(u)
    BY DEF CommitInvariant
  <2>2. CASE u # t
    BY <1>1, <1>4, <2>1, <2>2, TimerStays DEF Settling
  <2>3. CASE u = t
    <3>1. Settling(t)
      BY <1>4 DEF Settling
    <3>2. limit[t] \in Int /\ expires[t] \in Int
      BY <1>2 DEF TxTypeOK
    <3>3. TimerAllows(t)'
      BY <1>1, <1>2, <1>4, <2>1, <2>3, <3>2 DEF TimerAllows
    <3> QED
      BY <2>3, <3>1, <3>3
  <2> QED
    BY <2>2, <2>3
<1> QED
  BY <1>1, <1>3, <1>5, OutsidePreserves

(* Time passes, or a context is cancelled: what is over stays over.        *)
LEMMA TimePreserves ==
    ASSUME TypeOK, CommitInvariant,
           \/ Tick
           \/ \E c \in Caller : Cancel(c) /\ UNCHANGED clock
    PROVE  CommitInvariant'
<1>1. /\ UNCHANGED callvars /\ srv' = srv /\ sqltx' = sqltx /\ limit' = limit
      /\ expires' = expires
  BY DEF Tick, Cancel, dbvars, txvars
<1>2. clock \in Nat /\ clock' \in Nat /\ clock' >= clock
  BY DEF Tick, TypeOK
<1>3. ASSUME NEW c \in Caller
      PROVE  Ended(c) => Ended(c)'
  <2>1. Owner[c] \in Caller /\ Deadline[Owner[c]] \in Nat
    OBVIOUS
  <2>2. canceled[Owner[c]] => canceled'[Owner[c]]
    BY <2>1 DEF Tick, Cancel, TypeOK
  <2> QED
    BY <1>2, <2>1, <2>2 DEF Ended
<1>4. ASSUME NEW t \in TxId
      PROVE  Settling(t) /\ TimerAllows(t)'
  <2>1. /\ TimerAllows(t) /\ limit[t] \in Int /\ expires[t] \in Int
        /\ Deadline[t[1]] \in Nat /\ TimeoutExtension \in Nat
    BY DEF CommitInvariant, TypeOK, TxId
  <2> QED
    BY <1>1, <1>2, <2>1 DEF TimerAllows, Settling
<1> QED
  BY <1>1, <1>3, <1>4, OutsidePreserves
-----------------------------------------------------------------------------
(* The whole.                                                              *)
Inv == TypeOK /\ CommitInvariant /\ DbInvariant

(* The invariant holds at the start.                                       *)
LEMMA InitInv == Init => Inv
<1> SUFFICES ASSUME Init
             PROVE  Inv
  OBVIOUS
<1>1. DbTypeOK /\ DbInvariant
  BY DbBegins DEF Init
<1>2. TypeOK
  BY <1>1 DEF Init, TypeOK, SqlTx, Place, Failure, Outcome
<1>3. \A t \in TxId : srv[t] = "absent" /\ sqltx[t] = "none" /\ TimerAllows(t)
  BY DEF Init, DbInit, TimerAllows
<1>4. \A c \in Caller, k \in Attempt : <<c, k>> \in TxId
  BY DEF TxId
<1>5. \A c \in Caller : FailureInHand(c) /\ Untouched(c)
  BY <1>3, <1>4 DEF Init, FailureInHand, Untouched
<1>6. \A n \in Caller \ Roots : NestedInside(n)
  BY DEF Init, NestedInside, Running
<1>7. \A r \in Roots : RootInvariant(r)
  BY <1>4 DEF Init, RootInvariant, Roots, Gone, OverForGood, Attempt
<1> QED
  BY <1>1, <1>2, <1>3, <1>5, <1>6, <1>7 DEF Inv, CommitInvariant

(* Steps that leave the database alone.                                    *)
LEMMA DbStays ==
    ASSUME DbInvariant, UNCHANGED dbvars
    PROVE  DbInvariant'
<1>1. srv' = srv /\ writes' = writes /\ snap' = snap /\ value' = value
  BY DEF dbvars
<1> QED
  BY <1>1 DEF DbInvariant, CommittedOn, Locked, Holds

(* Every step keeps the invariant.                                         *)
LEMMA NextInv == Inv /\ [Next]_vars => Inv'
<1> SUFFICES ASSUME TypeOK, CommitInvariant, DbInvariant, [Next]_vars
             PROVE  CommitInvariant' /\ DbInvariant' /\ TypeOK'
  BY DEF Inv
<1>1. TypeOK' /\ DbTypeOK
  BY TypeStep DEF TypeOK
<1>2. UNCHANGED dbvars => DbInvariant'
  BY DbStays
<1>3. ASSUME NEW c \in Caller,
             Start(c) \/ StartNested(c) \/ Advance(c) \/ Fault(c),
             UNCHANGED <<canceled, clock>>
      PROVE  CommitInvariant' /\ DbInvariant'
  <2>1. CommitInvariant'
    BY <1>1, <1>3, CallPreserves
  <2> QED
    BY <1>1, <1>2, <1>3, <2>1, CallSession, DbSession DEF OwnSession
<1>4. ASSUME NEW c \in Caller, Step(c)
      PROVE  CommitInvariant' /\ DbInvariant'
  BY <1>3, <1>4 DEF Step
<1>5. CASE FaultyStep
  <2>1. ASSUME NEW c \in Caller, Fault(c), UNCHANGED canceled, UNCHANGED clock
        PROVE  CommitInvariant' /\ DbInvariant'
    BY <1>3, <2>1
  <2>2. ASSUME NEW c \in Caller, Cancel(c), UNCHANGED clock
        PROVE  CommitInvariant' /\ DbInvariant'
    BY <1>2, <2>2, TimePreserves DEF Cancel
  <2>3. ASSUME NEW t \in TxId, ConnectionBreaks(t), UNCHANGED canceled, UNCHANGED clock
        PROVE  CommitInvariant' /\ DbInvariant'
    BY <1>2, <2>3, SessionsPreserve DEF ConnectionBreaks
  <2> QED
    <3>1. UNCHANGED clock
      BY <1>5 DEF FaultyStep
    <3>2. \/ \E c \in Caller : Fault(c) /\ UNCHANGED canceled
          \/ \E c \in Caller : Cancel(c)
          \/ \E t \in TxId : ConnectionBreaks(t) /\ UNCHANGED canceled
      BY <1>5 DEF FaultyStep
    <3> QED
      BY <1>1, <2>1, <2>2, <2>3, <3>1, <3>2
<1>6. ASSUME NEW t \in TxId, AwaitDone(t) \/ Reap(t) \/ ServerTimeout(t)
      PROVE  CommitInvariant' /\ DbInvariant'
  <2>1. CommitInvariant'
    BY <1>6, SessionsPreserve
  <2>2. Reap(t) \/ ServerTimeout(t) => SessionStep(t)
    BY DEF Reap, SrvReap, ServerTimeout, SessionStep, GoesOn, Commits
  <2> QED
    <3>1. CASE AwaitDone(t)
      BY <1>2, <2>1, <3>1 DEF AwaitDone
    <3>2. CASE Reap(t) \/ ServerTimeout(t)
      BY <1>1, <2>1, <2>2, <3>2, DbSession
    <3> QED
      BY <1>6, <3>1, <3>2
<1>7. CASE Tick
  BY <1>1, <1>2, <1>7, TimePreserves DEF Tick
<1>8. CASE UNCHANGED vars
  <2>1. /\ UNCHANGED callvars /\ UNCHANGED dbvars
        /\ \A t \in TxId : Settling(t) /\ TimerAllows(t)'
        /\ \A c \in Caller : Ended(c) => Ended(c)'
    BY <1>8 DEF vars, callvars, txvars, dbvars, Settling, CommitInvariant, TimerAllows, Ended
  <2> QED
    BY <1>1, <1>2, <2>1, OutsidePreserves
<1> QED
  BY <1>1, <1>4, <1>5, <1>6, <1>7, <1>8 DEF Next, AllReturned

(* The invariant always holds.                                             *)
LEMMA Invariance == Spec => []Inv
BY InitInv, NextInv, PTL DEF Spec

(* Only the transaction of the last attempt may be committed.              *)
LEMMA LastAttemptCommits ==
    ASSUME Inv, NEW c \in Roots, NEW k \in MayCommit(c)
    PROVE  /\ k = attempt[c] /\ Tx(c) = <<c, k>> /\ attempt[c] # 0
           /\ srv[Tx(c)] \in {"committed", "committing"}
<1>1. k \in Attempt /\ c \in Caller /\ attempt[c] \in Nat
      /\ Untouched(c) /\ OverForGood(c)
  BY DEF Inv, TypeOK, CommitInvariant, RootInvariant, MayCommit, Roots
<1>2. k = attempt[c]
  BY <1>1 DEF MayCommit, Untouched, OverForGood, Attempt
<1> QED
  BY <1>1, <1>2, Families DEF Tx, MayCommit, Attempt

(* A call that has returned "ok" has its transaction committed; one that   *)
(* has returned another error than a commit's, or was unwound, has none    *)
(* that is or will be.                                                     *)
LEMMA ReplyFits ==
    ASSUME Inv, NEW c \in Roots
    PROVE  /\ reply[c] = "ok" => /\ srv[Tx(c)] = "committed" /\ attempt[c] \in Attempt
                                 /\ Tx(c) = <<c, attempt[c]>>
           /\ c \notin SelfConcluding /\ reply[c] \in {"error", "panicked", "exited"} =>
                 MayCommit(c) = {}
<1>1. /\ CommitInvariant /\ TypeOK /\ RootInvariant(c) /\ c \in Caller
      /\ reply[c] # "none" => Gone(c) /\ attempt[c] # 0
  BY DEF Inv, CommitInvariant, RootInvariant, Gone, Roots
<1>2. attempt[c] # 0 =>
        Fits(pc[c], failure[c], reply[c], srv[Tx(c)], sqltx[Tx(c)], Ended(c),
             c \in SelfConcluding)
  BY <1>1 DEF RootInvariant
<1>3. ASSUME reply[c] = "ok"
      PROVE  /\ srv[Tx(c)] = "committed" /\ attempt[c] \in Attempt
             /\ Tx(c) = <<c, attempt[c]>>
  BY <1>1, <1>2, <1>3, CurrentTx, Families DEF Fits, Gone
<1>4. ASSUME c \notin SelfConcluding, reply[c] \in {"error", "panicked", "exited"},
             NEW k \in MayCommit(c)
      PROVE  FALSE
  BY <1>1, <1>2, <1>4, LastAttemptCommits DEF Fits, Gone
<1> QED
  BY <1>3, <1>4

(* Nested calls have no attempts, and so no transactions.                  *)
LEMMA NestedHasNone ==
    ASSUME Inv, NEW n \in Caller \ Roots
    PROVE  MayCommit(n) = {}
<1>1. Untouched(n) /\ attempt[n] = 0
  BY DEF Inv, CommitInvariant, NestedInside
<1> QED
  BY <1>1 DEF MayCommit, Untouched, Attempt

(* Every variable keeps its type.                                          *)
THEOREM TypeCorrect == Spec => []TypeOK
<1>1. Inv => TypeOK
  BY DEF Inv
<1> QED
  BY <1>1, Invariance, PTL

(* "ok" means committed, and an error that is no commit error, a panic or  *)
(* a Goexit means never committed; at most one attempt ever is.            *)
THEOREM RepliesAreTrue == Spec => []ReplyIsTrue
<1>1. ASSUME Inv, NEW c \in Roots
      PROVE  /\ Cardinality(MayCommit(c)) <= 1
             /\ reply[c] = "ok" => Committed(c) # {}
             /\ c \notin SelfConcluding /\ reply[c] \in {"error", "panicked", "exited"} =>
                   MayCommit(c) = {}
  <2>1. MayCommit(c) \subseteq {attempt[c]}
    BY <1>1, LastAttemptCommits
  <2>2. Cardinality(MayCommit(c)) <= 1
    <3>1. MayCommit(c) = {} \/ MayCommit(c) = {attempt[c]}
      BY <2>1
    <3>2. Cardinality({}) = 0
      BY FS_EmptySet
    <3>3. Cardinality({attempt[c]}) = 1
      BY FS_Singleton
    <3> QED
      BY <3>1, <3>2, <3>3
  <2>3. reply[c] = "ok" => attempt[c] \in Committed(c)
    BY <1>1, ReplyFits DEF Committed
  <2> QED
    BY <1>1, <2>2, <2>3, ReplyFits
<1>2. Inv => ReplyIsTrue
  BY <1>1 DEF ReplyIsTrue
<1> QED
  BY <1>2, Invariance, PTL

(* A nested call's work is committed with the outermost call or not at     *)
(* all.                                                                    *)
THEOREM NestedCallsShareTheirFate == Spec => []NestedSharesFate
<1>1. ASSUME Inv, NEW c \in Roots, NEW n \in Nested(c)
      PROVE  /\ n \in Caller \ Roots /\ Tx(n) = Tx(c)
  BY Families DEF Nested, Roots, Root, TxInContext, Tx
<1>2. Inv => NestedSharesFate
  BY <1>1, ReplyFits, NestedHasNone DEF NestedSharesFate
<1> QED
  BY <1>2, Invariance, PTL

(* No update of a committed transaction is lost.                           *)
THEOREM NoUpdateIsLost == Spec => []NoLostUpdate
<1>1. Inv => NoLostUpdate
  BY DEF Inv, DbInvariant, NoLostUpdate, CommittedOn
<1> QED
  BY <1>1, Invariance, PTL

(* A transaction is over for database/sql when its attempt is.             *)
THEOREM ConnectionsAreReturned == Spec => []NoTxOutlivesItsCall
<1>1. ASSUME Inv, NEW t \in TxId, sqltx[t] \in {"open", "broken"}
      PROVE  t = Tx(t[1]) /\ pc[t[1]] \notin {"idle", "begin", "judge", "returned"}
  <2>1. PICK c \in Caller, k \in Attempt : t = <<c, k>>
    BY DEF TxId
  <2>2. Untouched(c) /\ attempt[c] \in Nat /\ k \in Nat
    BY <1>1 DEF Inv, CommitInvariant, TypeOK, Attempt
  <2>3. k <= attempt[c] /\ attempt[c] # 0
    BY <1>1, <2>1, <2>2 DEF Untouched, Attempt
  <2>4. c \in Roots
    BY <1>1, <2>3 DEF Inv, CommitInvariant, NestedInside
  <2>5. RootInvariant(c)
    BY <1>1, <2>4 DEF Inv, CommitInvariant
  <2>6. k = attempt[c]
    BY <1>1, <2>1, <2>2, <2>3, <2>5 DEF RootInvariant, OverForGood
  <2>7. Tx(c) = t
    BY <2>1, <2>4, <2>6, Families DEF Tx
  <2> QED
    BY <1>1, <2>1, <2>3, <2>5, <2>7 DEF RootInvariant, Fits
<1>2. Inv => NoTxOutlivesItsCall
  BY <1>1 DEF NoTxOutlivesItsCall
<1> QED
  BY <1>2, Invariance, PTL

(* The server waits for the whole extension past the deadline before it    *)
(* ends what the client still has open.                                    *)
THEOREM ClientShutsDownFirst == Spec => []ServerOutwaitsClient
<1>1. Inv => ServerOutwaitsClient
  BY DEF Inv, CommitInvariant, TimerAllows, ServerOutwaitsClient
<1> QED
  BY <1>1, Invariance, PTL
=============================================================================
