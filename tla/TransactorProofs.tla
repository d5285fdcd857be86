-------------------------- MODULE TransactorProofs --------------------------
(***************************************************************************)
(* Proofs about Transactor, for any number of calls, rows, retries, pooled *)
(* connections and faults.  CommitInvariant is inductive together with     *)
(* TypeOK; it is what makes the replies of Transact1 true.                 *)
(*                                                                         *)
(* A step concerns one call c.  Frame(c) says that it leaves the others    *)
(* alone, and Fits reduces c's part of the invariant to what it says of    *)
(* the one transaction that a step can change, that of the current         *)
(* attempt.                                                                *)
(***************************************************************************)
EXTENDS Transactor, FiniteSetTheorems, TLAPS

USE TransactorAssumption

(* What the helpers of the model do to the call variables, Transact1's     *)
(* side of a step, free of EXCEPT.                                         *)
LEMMA CarryStep ==
    ASSUME CallTypeOK, NEW c \in Caller, NEW f \in Failure, NEW p \in Place,
           Carry(c, f, p)
    PROVE  /\ CallTypeOK'
           /\ pc'[c] = p /\ failure'[c] = f
           /\ attempt' = attempt /\ reply' = reply /\ dead' = dead
           /\ \A d \in Caller \ {c} : pc'[d] = pc[d] /\ failure'[d] = failure[d]
BY DEF CallTypeOK, Carry, Goto

(* Returning gives the reply and clears the failure.                       *)
LEMMA ReturnStep ==
    ASSUME CallTypeOK, NEW c \in Caller, NEW how \in Outcome, NEW p \in Place,
           Return(c, how, p)
    PROVE  /\ CallTypeOK'
           /\ pc'[c] = p /\ failure'[c] = "nil" /\ reply'[c] = how
           /\ attempt' = attempt
           /\ \A d \in Caller \ {c} :
                pc'[d] = pc[d] /\ failure'[d] = failure[d] /\ reply'[d] = reply[d]
BY DEF CallTypeOK, Return, Goto, Failure

(* A new attempt moves on to a transaction of its own.                     *)
LEMMA NewAttemptStep ==
    ASSUME CallTypeOK, NEW c \in Caller, attempt[c] <= MaxRetries, NewAttempt(c)
    PROVE  /\ CallTypeOK'
           /\ pc'[c] = "begin" /\ failure'[c] = "nil"
           /\ attempt'[c] = attempt[c] + 1
           /\ reply' = reply
           /\ \A d \in Caller \ {c} :
                pc'[d] = pc[d] /\ failure'[d] = failure[d] /\ attempt'[d] = attempt[d]
BY DEF CallTypeOK, NewAttempt, Goto, Failure, Place

(* The same for the client's and the server's end of one transaction.      *)
LEMMA SetConnStep ==
    ASSUME conn \in [TxId -> Connection], NEW c \in Caller, Tx(c) \in TxId,
           NEW s \in Connection, SetConn(c, s)
    PROVE  /\ conn' \in [TxId -> Connection]
           /\ conn'[Tx(c)] = s
           /\ \A t \in TxId \ {Tx(c)} : conn'[t] = conn[t]
BY DEF SetConn

(* What a step on the server's side does to one transaction.               *)
LEMMA ServerStep ==
    ASSUME DbTypeOK, NEW t \in TxId
    PROVE  /\ \A s \in ServerState : SrvSet(t, s) => srv'[t] = s
           /\ SrvEnd(t) => srv'[t] = "ended"
           /\ SrvRead(t) => srv'[t] = "open"
           /\ \A r \in Row : SrvUpdate(t, r) => srv'[t] = srv[t]
           /\ SrvCommit(t) => srv'[t] = "committed"
BY DEF DbTypeOK, SrvSet, SrvEnd, SrvRead, SrvUpdate, SrvCommit

DbStep(t) ==
    \/ \E s \in ServerState : SrvSet(t, s)
    \/ SrvEnd(t) \/ SrvRead(t) \/ SrvCommit(t)
    \/ \E r \in Row : SrvUpdate(t, r)

(* The types of the database, whichever transaction's step it is.          *)
LEMMA DbStepStep ==
    ASSUME DbTypeOK, NEW t \in TxId, DbStep(t)
    PROVE  DbTypeOK' /\ \A u \in TxId \ {t} : srv'[u] = srv[u]
<1>1. ASSUME NEW s \in ServerState, SrvSet(t, s)
      PROVE  DbTypeOK' /\ \A u \in TxId \ {t} : srv'[u] = srv[u]
  BY <1>1 DEF SrvSet, DbTypeOK
<1>2. CASE SrvEnd(t)
  BY <1>2 DEF SrvEnd, DbTypeOK, ServerState
<1>3. CASE SrvRead(t)
  BY <1>3 DEF SrvRead, DbTypeOK, ServerState
<1>4. CASE SrvCommit(t)
  BY <1>4 DEF SrvCommit, DbTypeOK, ServerState
<1>5. ASSUME NEW r \in Row, SrvUpdate(t, r)
      PROVE  DbTypeOK' /\ \A u \in TxId \ {t} : srv'[u] = srv[u]
  BY <1>5 DEF SrvUpdate, DbTypeOK
<1> QED
  BY <1>1, <1>2, <1>3, <1>4, <1>5 DEF DbStep

(* TypeOK without the count of faults, which only the choice of the step   *)
(* (Step or FaultyStep) decides.                                           *)
TypesOK == DbTypeOK /\ CallTypeOK /\ conn \in [TxId -> Connection]

(* A step of call c leaves the state of the other calls and of their       *)
(* transactions alone; so it preserves their part of the invariant.        *)
Frame(c) ==
    /\ \A d \in Caller \ {c} :
        /\ pc'[d] = pc[d] /\ attempt'[d] = attempt[d]
        /\ failure'[d] = failure[d] /\ reply'[d] = reply[d]
    /\ \A d \in Caller \ {c}, k \in Attempt :
        srv'[<<d, k>>] = srv[<<d, k>>] /\ conn'[<<d, k>>] = conn[<<d, k>>]

(* The transaction of the attempt under way is one of TxId.                *)
LEMMA CurrentTx ==
    ASSUME CallTypeOK, NEW c \in Caller, attempt[c] # 0
    PROVE  Tx(c) \in TxId
BY DEF CallTypeOK, Tx, TxId, Attempt

(* tx.Rollback closes the client's end in any case, and ends the server's  *)
(* only through a connection that was still open.                          *)
LEMMA RollbackTxStep ==
    ASSUME TypesOK, NEW c \in Caller, Tx(c) \in TxId, RollbackTx(c)
    PROVE  /\ DbTypeOK' /\ conn' \in [TxId -> Connection]
           /\ conn'[Tx(c)] = "closed"
           /\ \A t \in TxId \ {Tx(c)} : srv'[t] = srv[t] /\ conn'[t] = conn[t]
           /\ \/ srv'[Tx(c)] = srv[Tx(c)]
              \/ srv'[Tx(c)] = "ended" /\ conn[Tx(c)] = "held"
<1>1. CASE Usable(c) /\ SetConn(c, "closed") /\ SrvEnd(Tx(c))
  BY <1>1, SetConnStep, DbStepStep, ServerStep DEF TypesOK, DbStep,
         Connection, Usable
<1>2. CASE SetConn(c, "closed") /\ UNCHANGED dbvars
  BY <1>2, SetConnStep DEF TypesOK, dbvars, Connection, DbTypeOK
<1>3. CASE conn[Tx(c)] = "closed" /\ UNCHANGED <<conn, dbvars>>
  BY <1>3 DEF TypesOK, dbvars, DbTypeOK
<1> QED
  BY <1>1, <1>2, <1>3 DEF RollbackTx

(* A call that another one's step leaves alone keeps its part of the       *)
(* invariant.                                                              *)
LEMMA Framed ==
    ASSUME TypesOK, TypesOK', NEW c \in Caller, NEW d \in Caller \ {c},
           Frame(c), CallInvariant(d)
    PROVE  CallInvariant(d)'
<1>1. /\ pc'[d] = pc[d] /\ attempt'[d] = attempt[d]
      /\ failure'[d] = failure[d] /\ reply'[d] = reply[d]
  BY DEF Frame
<1>2. \A k \in Attempt : srv'[<<d, k>>] = srv[<<d, k>>] /\ conn'[<<d, k>>] = conn[<<d, k>>]
  BY DEF Frame
<1>3. attempt[d] # 0 => srv'[Tx(d)'] = srv[Tx(d)] /\ conn'[Tx(d)'] = conn[Tx(d)]
  BY <1>1, <1>2 DEF Tx, TypesOK, CallTypeOK, Attempt
<1>4. AttemptsCounted(d)' /\ ReplyWhenGone(d)' /\ FailureInHand(d)'
  BY <1>1 DEF CallInvariant, AttemptsCounted, ReplyWhenGone, FailureInHand,
         Gone
<1>5. UnbegunUntouched(d)' /\ CommitCloses(d)'
  BY <1>1, <1>2 DEF CallInvariant, UnbegunUntouched, CommitCloses
<1>6. OnlyCurrentConnected(d)' /\ (d \notin SelfConcluding => CommitIsFinal(d)')
  BY <1>1, <1>2 DEF CallInvariant, OnlyCurrentConnected, CommitIsFinal,
         Transacting
<1>7. OpenUntilConcluded(d)' /\ (d \notin SelfConcluding => SuccessIsCommitted(d)')
  BY <1>1, <1>3 DEF CallInvariant, OpenUntilConcluded, SuccessIsCommitted,
         AttemptsCounted
<1> QED
  BY <1>4, <1>5, <1>6, <1>7 DEF CallInvariant
-----------------------------------------------------------------------------
(* What CallInvariant says of a call that is at p with failure f and reply *)
(* r in hand, when the transaction of its current attempt is in state s on *)
(* the server and n on the client.                                         *)
Fits(p, f, r, s, n, concluding) ==
    /\ n \in {"held", "broken"} =>
          p \in {"setup", "handler", "stmtError", "rollback", "commit", "defer", "unwound"}
    /\ s \in {"committed", "committing"} => n = "closed"
    /\ p \in {"setup", "handler", "stmtError"} => n # "closed"
    /\ p \in {"stmtError", "rollback"} => f # "nil"
    /\ \/ concluding
       \/ /\ p \in {"rollback", "commit"} => n # "closed"
          /\ s \in {"committed", "committing"} =>
                \/ p \in {"defer", "judge"} /\ f \in {"nil", "commit"}
                \/ p = "returned" /\ r \in {"ok", "commitError", "canceled"}
          /\ (p \in {"defer", "judge"} /\ f = "nil") \/ r = "ok" => s = "committed"

(* The invariant, read at the transaction of the current attempt.          *)
LEMMA CurrentFits ==
    ASSUME TypesOK, NEW c \in Caller, CallInvariant(c), attempt[c] # 0
    PROVE  /\ Tx(c) \in TxId
           /\ Fits(pc[c], failure[c], reply[c], srv[Tx(c)], conn[Tx(c)], c \in SelfConcluding)
           /\ pc[c] # "idle" 
           /\ ~Gone(c) => reply[c] = "none"
<1>1. Tx(c) \in TxId /\ attempt[c] \in Attempt
  BY DEF TypesOK, CallTypeOK, Tx, TxId, Attempt
<1>2. /\ conn[Tx(c)] \in {"held", "broken"} => Transacting(c) \/ pc[c] = "unwound"
      /\ srv[Tx(c)] \in {"committed", "committing"} => conn[Tx(c)] = "closed"
  BY <1>1 DEF CallInvariant, OnlyCurrentConnected, CommitCloses, Tx
<1>3. c \notin SelfConcluding /\ srv[Tx(c)] \in {"committed", "committing"} =>
        \/ pc[c] \in {"defer", "judge"} /\ failure[c] \in {"nil", "commit"}
        \/ pc[c] = "returned" /\ reply[c] \in {"ok", "commitError", "canceled"}
  BY <1>1 DEF CallInvariant, CommitIsFinal, Tx
<1>4. /\ OpenUntilConcluded(c) /\ FailureInHand(c)
      /\ c \notin SelfConcluding => SuccessIsCommitted(c)
  BY DEF CallInvariant
<1>5. pc[c] # "idle" /\ (~Gone(c) => reply[c] = "none")
  BY DEF CallInvariant, AttemptsCounted, ReplyWhenGone
<1> QED
  BY <1>1, <1>2, <1>3, <1>4, <1>5 DEF Fits, Transacting, OpenUntilConcluded,
         FailureInHand, SuccessIsCommitted

(* Only the transaction of c's current attempt changes.                    *)
TxPart(c) ==
    /\ DbTypeOK' /\ conn' \in [TxId -> Connection]
    /\ \A t \in TxId \ {Tx(c)} : srv'[t] = srv[t] /\ conn'[t] = conn[t]

Preserved(c) == TypesOK' /\ Frame(c) /\ CallInvariant(c)'

(* A step within an attempt preserves the invariant when only the current  *)
(* transaction changes and what the call moves to fits it.                 *)
LEMMA MovePreserves ==
    ASSUME TypesOK, NEW c \in Caller, CallInvariant(c), attempt[c] # 0, TxPart(c),
           CallTypeOK', attempt'[c] = attempt[c],
           \A d \in Caller \ {c} : /\ pc'[d] = pc[d] /\ attempt'[d] = attempt[d]
                                   /\ failure'[d] = failure[d] /\ reply'[d] = reply[d],
           pc'[c] \notin {"idle", "begin"},
           pc'[c] = "backoff" => attempt[c] <= MaxRetries,
           pc'[c] \notin {"returned", "unwound"} => reply'[c] = "none",
           Fits(pc'[c], failure'[c], reply'[c], srv'[Tx(c)], conn'[Tx(c)], c \in SelfConcluding)
    PROVE  Preserved(c)
<1>1. TypesOK'
  BY DEF TypesOK, TxPart
<1>2. Frame(c)
  BY DEF Frame, TxPart, TxId, Tx
<1>3. attempt[c] \in Attempt /\ Tx(c)' = Tx(c) /\ Tx(c) = <<c, attempt[c]>>
  BY DEF TypesOK, CallTypeOK, Attempt, Tx
<1>4. \A k \in Attempt \ {attempt[c]} :
        srv'[<<c, k>>] = srv[<<c, k>>] /\ conn'[<<c, k>>] = conn[<<c, k>>]
  BY DEF TxPart, TxId, Tx
<1>5. AttemptsCounted(c)' /\ ReplyWhenGone(c)' /\ FailureInHand(c)'
  BY DEF AttemptsCounted, ReplyWhenGone, FailureInHand, Fits, Gone
<1>6. UnbegunUntouched(c)'
  BY <1>3, <1>4 DEF CallInvariant, UnbegunUntouched, TypesOK, CallTypeOK,
         Attempt
<1>7. OnlyCurrentConnected(c)'
  BY <1>3, <1>4 DEF CallInvariant, OnlyCurrentConnected, Transacting, Fits
<1>8. CommitCloses(c)'
  BY <1>3, <1>4 DEF CallInvariant, CommitCloses, Fits
<1>9. OpenUntilConcluded(c)'
  BY <1>3 DEF OpenUntilConcluded, Fits
<1>10. ASSUME c \notin SelfConcluding
       PROVE  SuccessIsCommitted(c)' /\ CommitIsFinal(c)'
  <2>1. SuccessIsCommitted(c)'
    BY <1>3, <1>10 DEF SuccessIsCommitted, Fits
  <2>2. CommitIsFinal(c)'
    BY <1>3, <1>4, <1>10 DEF CallInvariant, CommitIsFinal, Fits
  <2> QED
    BY <2>1, <2>2
<1> QED
  BY <1>1, <1>2, <1>5, <1>6, <1>7, <1>8, <1>9, <1>10 DEF CallInvariant,
         Preserved

(* ... in particular one that moves on with a failure in hand.             *)
LEMMA CarryPreserves ==
    ASSUME TypesOK, NEW c \in Caller, CallInvariant(c), attempt[c] # 0, TxPart(c), ~Gone(c),
           NEW f \in Failure, NEW p \in Place \ {"idle", "begin", "backoff", "returned", "unwound"},
           Carry(c, f, p),
           Fits(p, f, "none", srv'[Tx(c)], conn'[Tx(c)], c \in SelfConcluding)
    PROVE  Preserved(c)
<1>1. reply[c] = "none"
  BY DEF CallInvariant, ReplyWhenGone
<1> QED
  BY <1>1, CarryStep, MovePreserves DEF TypesOK

(* Two ways a step may treat the current transaction: leave it alone, or   *)
(* change one or both of its ends.                                         *)
LEMMA TxUntouched ==
    ASSUME TypesOK, NEW c \in Caller, UNCHANGED <<conn, dbvars>>
    PROVE  TxPart(c) /\ srv' = srv /\ conn' = conn
BY DEF TypesOK, TxPart, dbvars, DbTypeOK

(* A step on the current transaction of a call.                            *)
LEMMA TxStepped ==
    ASSUME TypesOK, NEW c \in Caller, Tx(c) \in TxId,
           UNCHANGED conn \/ \E s \in Connection : SetConn(c, s),
           UNCHANGED dbvars \/ DbStep(Tx(c))
    PROVE  TxPart(c)
<1>1. conn' \in [TxId -> Connection] /\ \A t \in TxId \ {Tx(c)} : conn'[t] = conn[t]
  BY SetConnStep DEF TypesOK
<1>2. DbTypeOK' /\ \A t \in TxId \ {Tx(c)} : srv'[t] = srv[t]
  BY DbStepStep DEF TypesOK, dbvars, DbTypeOK
<1> QED
  BY <1>1, <1>2 DEF TxPart
-----------------------------------------------------------------------------
(* The steps of Transact1 and of the handler that send nothing to the      *)
(* database.                                                               *)
LEMMA OffDatabasePreserves ==
    ASSUME TypesOK, NEW c \in Caller, CallInvariant(c), attempt[c] # 0,
           \/ BeginFails(c) \/ Setup(c) \/ PlanTooCostly(c)
           \/ HandlerSucceeds(c) \/ HandlerSwallows(c) \/ HandlerPropagates(c)
           \/ HandlerFails(c) \/ HandlerPanics(c) \/ HandlerExits(c)
           \/ CommitHookFails(c) \/ CommitClosed(c)
    PROVE  Preserved(c)
<1>1. UNCHANGED <<conn, dbvars>>
  BY DEF BeginFails, Setup, PlanTooCostly, HandlerSucceeds, HandlerSwallows,
         HandlerPropagates,
         HandlerFails, HandlerPanics, HandlerExits, CommitHookFails,
         CommitClosed
<1>2. TxPart(c) /\ srv' = srv /\ conn' = conn
  BY <1>1, TxUntouched
<1>3. failure[c] \in Failure
  BY DEF TypesOK, CallTypeOK
<1>4. CASE BeginFails(c)
  BY <1>2, <1>4, CurrentFits, CarryPreserves DEF BeginFails, Fits, Failure,
         Place, Gone
<1>5. CASE Setup(c)
  BY <1>2, <1>5, CurrentFits, CarryPreserves DEF Setup, Fits, Failure, Place,
         Gone
<1>6. CASE HandlerSucceeds(c)
  BY <1>2, <1>6, CurrentFits, CarryPreserves DEF HandlerSucceeds, Fits,
         Failure, Place, Gone
<1>7. CASE HandlerSwallows(c)
  BY <1>2, <1>7, CurrentFits, CarryPreserves DEF HandlerSwallows, Fits,
         Failure, Place, Gone
<1>8. CASE HandlerPropagates(c)
  BY <1>2, <1>3, <1>8, CurrentFits, CarryPreserves DEF HandlerPropagates,
         Fits, Place, Gone
<1>9. CASE HandlerFails(c) \/ HandlerPanics(c)
  BY <1>2, <1>9, CurrentFits, CarryPreserves
     DEF HandlerFails, HandlerPanics, InHandler, Fits, Failure, Place, Gone
<1>10. CASE HandlerExits(c)
  BY <1>2, <1>10, CurrentFits, CarryPreserves DEF HandlerExits, InHandler,
         Fits, Failure, Place, Gone
<1>11. CASE CommitHookFails(c)
  BY <1>2, <1>11, CurrentFits, CarryPreserves DEF CommitHookFails, Fits,
         Failure, Place, Gone
<1>12. CASE CommitClosed(c)
  BY <1>2, <1>12, CurrentFits, CarryPreserves DEF CommitClosed, Fits,
         Failure, Place, Gone
<1>13. CASE PlanTooCostly(c)
  BY <1>2, <1>13, CurrentFits, CarryPreserves DEF PlanTooCostly, Querying,
         Usable, Fits, Failure, Place, Gone
<1> QED
  BY <1>4, <1>5, <1>6, <1>7, <1>8, <1>9, <1>10, <1>11, <1>12, <1>13

(* drv.BeginTx gives the attempt a connection and a transaction.           *)
LEMMA BeginPreserves ==
    ASSUME TypesOK, NEW c \in Caller, CallInvariant(c), attempt[c] # 0, Begin(c)
    PROVE  Preserved(c)
<1>1. Tx(c) \in TxId /\ ~Gone(c)
  BY CurrentFits DEF Begin, Gone
<1>2. TxPart(c)
  BY <1>1, TxStepped DEF Begin, DbStep, ServerState, Connection
<1>3. conn'[Tx(c)] = "held" /\ srv'[Tx(c)] = "begun"
  BY <1>1, SetConnStep, ServerStep DEF Begin, TypesOK, ServerState, Connection
<1> QED
  BY <1>1, <1>2, <1>3, CarryPreserves DEF Begin, Fits, Failure, Place

(* The rollbacks: in BeginTx after a failed setup, in the error path or    *)
(* the recovered panic, and deferred.                                      *)
LEMMA RollbackPreserves ==
    ASSUME TypesOK, NEW c \in Caller, CallInvariant(c), attempt[c] # 0,
           SetupFails(c) \/ Rollback(c) \/ DeferredRollback(c)
    PROVE  Preserved(c)
<1>1. Tx(c) \in TxId /\ ~Gone(c) /\ failure[c] \in Failure
  BY CurrentFits DEF SetupFails, Rollback, DeferredRollback, Gone, TypesOK,
         CallTypeOK
<1>2. TxPart(c) /\ conn'[Tx(c)] = "closed"
  BY <1>1, RollbackTxStep DEF SetupFails, Rollback, DeferredRollback, TxPart
<1>3. \/ srv'[Tx(c)] = srv[Tx(c)]
      \/ srv'[Tx(c)] = "ended" /\ conn[Tx(c)] = "held"
  BY <1>1, RollbackTxStep DEF SetupFails, Rollback, DeferredRollback
<1>4. CASE SetupFails(c)
  BY <1>1, <1>2, <1>3, <1>4, CurrentFits, CarryPreserves DEF SetupFails,
         Fits, Failure, Place
<1>5. CASE Rollback(c)
  BY <1>1, <1>2, <1>3, <1>5, CurrentFits, CarryPreserves DEF Rollback, Fits,
         Place
<1>6. CASE DeferredRollback(c)
  <2>1. Fits("judge", failure[c], "none", srv'[Tx(c)], conn'[Tx(c)], c \in SelfConcluding)
    BY <1>2, <1>3, <1>6, CurrentFits DEF DeferredRollback, Fits, Gone
  <2> QED
    BY <1>1, <1>2, <1>6, <2>1, CarryPreserves DEF DeferredRollback, Place, Gone
<1> QED
  BY <1>4, <1>5, <1>6

(* The handler's statements that fail.                                     *)
LEMMA StatementPreserves ==
    ASSUME TypesOK, NEW c \in Caller, CallInvariant(c), attempt[c] # 0,
           \/ SerializationFailure(c) \/ Deadlock(c)
           \/ StatementRejected(c) \/ StatementLost(c)
    PROVE  Preserved(c)
<1>1. Tx(c) \in TxId /\ ~Gone(c) /\ pc[c] = "handler"
  BY CurrentFits DEF SerializationFailure, Deadlock, StatementRejected,
         StatementLost, Querying, Gone
<1>2. ASSUME NEW f \in Failure \ {"nil"}, StatementFails(c, f)
      PROVE  Preserved(c)
  <2>1. TxPart(c)
    BY <1>1, <1>2, TxStepped DEF StatementFails, DbStep, ServerState
  <2>2. conn'[Tx(c)] = conn[Tx(c)] /\ srv'[Tx(c)] = "aborted"
    BY <1>1, <1>2, ServerStep DEF StatementFails, TypesOK, ServerState
  <2>3. Fits("stmtError", f, "none", srv'[Tx(c)], conn'[Tx(c)], c \in SelfConcluding)
    BY <1>1, <2>2, <1>2, CurrentFits DEF Fits
  <2> QED
    BY <1>1, <1>2, <2>1, <2>2, <2>3, CarryPreserves DEF StatementFails, Place
<1>3. CASE StatementLost(c)
  <2>1. TxPart(c) /\ srv' = srv
    BY <1>1, <1>3, TxStepped DEF StatementLost, Connection, dbvars
  <2>2. conn'[Tx(c)] = "broken"
    BY <1>1, <1>3, SetConnStep DEF StatementLost, TypesOK, Connection
  <2>3. srv[Tx(c)] \notin {"committed", "committing"}
    BY <1>1, CurrentFits DEF Fits
  <2> QED
    BY <1>1, <1>3, <2>1, <2>2, <2>3, CarryPreserves DEF StatementLost, Fits,
           Failure, Place
<1> QED
  BY <1>2, <1>3 DEF SerializationFailure, Deadlock, StatementRejected, Failure

(* drv.CommitTx, with each of its answers.                                 *)
LEMMA CommitPreserves ==
    ASSUME TypesOK, NEW c \in Caller, CallInvariant(c), attempt[c] # 0,
           \/ Commit(c) \/ CommitRolledBack(c) \/ CommitRefused(c)
           \/ CommitUnsent(c) \/ CommitUnanswered(c)
    PROVE  Preserved(c)
<1>1. Tx(c) \in TxId /\ ~Gone(c) /\ pc[c] = "commit"
  BY CurrentFits DEF Commit, CommitRolledBack, CommitRefused, CommitUnsent,
         CommitUnanswered, Committing, Gone
<1>2. TxPart(c)
  BY <1>1, TxStepped DEF Commit, CommitRolledBack, CommitRefused, CommitUnsent,
       CommitUnanswered, DbStep, ServerState, Connection
<1>3. conn'[Tx(c)] = "closed"
  BY <1>1, SetConnStep DEF Commit, CommitRolledBack, CommitRefused,
         CommitUnsent,
       CommitUnanswered, TypesOK, Connection
<1>4. CASE Commit(c)
  BY <1>1, <1>2, <1>3, <1>4, ServerStep, CarryPreserves DEF Commit, TypesOK,
         Fits, Failure, Place
<1>5. CASE CommitRolledBack(c) \/ CommitRefused(c)
  BY <1>1, <1>2, <1>3, <1>5, ServerStep, CarryPreserves
     DEF CommitRolledBack, CommitRefused, TypesOK, Fits, Failure, Place
<1>6. CASE CommitUnsent(c)
  BY <1>1, <1>2, <1>3, <1>6, CurrentFits, CarryPreserves DEF CommitUnsent,
         dbvars, Fits, Failure, Place
<1>7. CASE CommitUnanswered(c)
  BY <1>1, <1>2, <1>3, <1>7, ServerStep, CarryPreserves
     DEF CommitUnanswered, TypesOK, ServerState, Fits, Failure, Place
<1> QED
  BY <1>4, <1>5, <1>6, <1>7

(* A handler that commits or rolls back by itself.                         *)
LEMMA HandlerConcludesPreserves ==
    ASSUME TypesOK, NEW c \in Caller, CallInvariant(c), attempt[c] # 0, HandlerConcludes(c)
    PROVE  Preserved(c)
<1>1. Tx(c) \in TxId /\ ~Gone(c)
  BY CurrentFits DEF HandlerConcludes, Querying, Gone
<1>2. TxPart(c)
  BY <1>1, TxStepped DEF HandlerConcludes, DbStep, Connection
<1>3. conn'[Tx(c)] = "closed"
  BY <1>1, SetConnStep DEF HandlerConcludes, TypesOK, Connection
<1> QED
  BY <1>1, <1>2, <1>3, CarryPreserves DEF HandlerConcludes, Fits, Failure,
         Place

(* The call returns, with a reply that fits its last transaction.          *)
LEMMA ReturnPreserves ==
    ASSUME TypesOK, NEW c \in Caller, CallInvariant(c), attempt[c] # 0,
           UNCHANGED <<conn, dbvars>>,
           NEW how \in Outcome, NEW p \in {"returned", "unwound"}, Return(c, how, p),
           Fits(p, "nil", how, srv[Tx(c)], conn[Tx(c)], c \in SelfConcluding)
    PROVE  Preserved(c)
<1>1. TxPart(c) /\ srv' = srv /\ conn' = conn
  BY TxUntouched
<1> QED
  BY <1>1, ReturnStep, MovePreserves DEF TypesOK, Place

(* The first attempt and a retry find their transaction untouched.         *)
LEMMA NewAttemptPreserves ==
    ASSUME TypesOK, NEW c \in Caller, CallInvariant(c),
           pc[c] \in {"idle", "backoff"}, NewAttempt(c), UNCHANGED <<conn, dbvars>>
    PROVE  Preserved(c)
<1>1. attempt[c] <= MaxRetries /\ reply[c] = "none" /\ attempt[c] \in Nat
  BY DEF CallInvariant, AttemptsCounted, ReplyWhenGone, Gone, TypesOK,
         CallTypeOK
<1>2. srv' = srv /\ conn' = conn /\ TypesOK'
  BY <1>1, NewAttemptStep DEF TypesOK, dbvars, DbTypeOK
<1>3. Frame(c)
  BY <1>1, <1>2, NewAttemptStep DEF Frame, TypesOK
<1>4. pc'[c] = "begin" /\ attempt'[c] = attempt[c] + 1 /\ reply'[c] = "none"
  BY <1>1, NewAttemptStep DEF TypesOK
<1>5. AttemptsCounted(c)' /\ ReplyWhenGone(c)' /\ OpenUntilConcluded(c)'
      /\ SuccessIsCommitted(c)' /\ FailureInHand(c)'
  BY <1>1, <1>4 DEF FailureInHand, AttemptsCounted, ReplyWhenGone,
         OpenUntilConcluded, SuccessIsCommitted
<1>6. UnbegunUntouched(c)'
  BY <1>1, <1>2, <1>4 DEF CallInvariant, UnbegunUntouched, Attempt
<1>7. OnlyCurrentConnected(c)' /\ CommitCloses(c)'
  BY <1>2, <1>4 DEF CallInvariant, OnlyCurrentConnected, CommitCloses,
         Transacting
<1>8. c \notin SelfConcluding => CommitIsFinal(c)'
  BY <1>2 DEF CallInvariant, CommitIsFinal
<1> QED
  BY <1>2, <1>3, <1>5, <1>6, <1>7, <1>8 DEF CallInvariant, Preserved

(* A call in the scope of a transaction is refused before anything begins. *)
LEMMA RefusePreserves ==
    ASSUME TypesOK, NEW c \in Caller, CallInvariant(c), StartRefused(c)
    PROVE  Preserved(c)
<1>1. srv' = srv /\ conn' = conn /\ TypesOK'
  BY ReturnStep DEF StartRefused, TypesOK, dbvars, DbTypeOK, Outcome, Place
<1>2. /\ pc'[c] = "returned" /\ attempt'[c] = 0 /\ reply'[c] = "refused" /\ attempt[c] = 0
      /\ Frame(c) /\ pc[c] = "idle"
  BY <1>1, ReturnStep DEF StartRefused, CallInvariant, AttemptsCounted,
         Frame, TypesOK, Outcome, Place
<1>3. AttemptsCounted(c)' /\ ReplyWhenGone(c)' /\ OpenUntilConcluded(c)' /\ SuccessIsCommitted(c)'
      /\ FailureInHand(c)'
  BY <1>2 DEF FailureInHand, AttemptsCounted, ReplyWhenGone, Gone,
         OpenUntilConcluded, SuccessIsCommitted
<1>4. UnbegunUntouched(c)' /\ OnlyCurrentConnected(c)' /\ CommitCloses(c)'
  BY <1>1, <1>2 DEF CallInvariant, UnbegunUntouched, OnlyCurrentConnected,
         CommitCloses, Transacting
<1>5. c \notin SelfConcluding => CommitIsFinal(c)'
  BY <1>1, <1>2 DEF CallInvariant, CommitIsFinal
<1> QED
  BY <1>1, <1>2, <1>3, <1>4, <1>5 DEF CallInvariant, Preserved

(* Steps that leave the call where it is.                                  *)
LEMMA StillPreserves ==
    ASSUME TypesOK, NEW c \in Caller, CallInvariant(c), attempt[c] # 0,
           pc[c] # "begin", UNCHANGED callvars, TxPart(c),
           Fits(pc[c], failure[c], reply[c], srv'[Tx(c)], conn'[Tx(c)], c \in SelfConcluding)
    PROVE  Preserved(c)
<1>1. CallTypeOK'
  BY DEF TypesOK, CallTypeOK, callvars
<1>2. /\ pc[c] # "idle" /\ (pc[c] \notin {"returned", "unwound"} => reply[c] = "none")
      /\ pc[c] = "backoff" => attempt[c] <= MaxRetries
  BY CurrentFits DEF CallInvariant, AttemptsCounted, Gone
<1> QED
  BY <1>1, <1>2, MovePreserves DEF callvars

(* Statements that succeed, and a connection that breaks between them.     *)
LEMMA QueryPreserves ==
    ASSUME TypesOK, NEW c \in Caller, CallInvariant(c), attempt[c] # 0,
           Read(c) \/ Update(c) \/ ConnectionBreaks(c)
    PROVE  Preserved(c)
<1>1. Tx(c) \in TxId
  BY CurrentFits
<1>2. CASE Read(c)
  <2>1. TxPart(c) /\ srv'[Tx(c)] = "open" /\ conn' = conn
    BY <1>1, <1>2, TxStepped, ServerStep DEF Read, DbStep, TypesOK
  <2> QED
    BY <1>2, <2>1, CurrentFits, StillPreserves DEF Read, Querying, Fits
<1>3. CASE Update(c)
  <2>1. PICK r \in Row : SrvUpdate(Tx(c), r)
    BY <1>3, TransactorAssumption DEF Update, Pending
  <2>2. TxPart(c) /\ srv'[Tx(c)] = srv[Tx(c)] /\ conn' = conn
    BY <1>1, <1>3, <2>1, TxStepped, ServerStep DEF Update, DbStep, TypesOK
  <2> QED
    BY <1>3, <2>2, CurrentFits, StillPreserves DEF Update, Querying
<1>4. CASE ConnectionBreaks(c)
  <2>1. TxPart(c) /\ srv' = srv
    BY <1>1, <1>4, TxStepped DEF ConnectionBreaks, Connection, dbvars
  <2>2. conn'[Tx(c)] = "broken"
    BY <1>1, <1>4, SetConnStep DEF ConnectionBreaks, TypesOK, Connection
  <2>3. pc[c] # "begin" /\ conn[Tx(c)] = "held"
    BY <1>4, CurrentFits DEF ConnectionBreaks, Fits
  <2> QED
    BY <1>4, <2>1, <2>2, <2>3, CurrentFits, StillPreserves
       DEF ConnectionBreaks, Fits
<1> QED
  BY <1>2, <1>3, <1>4

(* The caller's context is done.                                           *)
LEMMA CancelPreserves ==
    ASSUME TypesOK, NEW c \in Caller, CallInvariant(c), Cancel(c)
    PROVE  Preserved(c)
<1>1. UNCHANGED <<pc, attempt, failure, reply, conn, srv>> /\ TypesOK'
  BY DEF Cancel, dbvars, TypesOK, CallTypeOK, DbTypeOK
<1>2. Frame(c)
  BY <1>1 DEF Frame
<1>3. CallInvariant(c)'
  BY <1>1 DEF CallInvariant, AttemptsCounted, ReplyWhenGone, FailureInHand,
         UnbegunUntouched, OnlyCurrentConnected,
    CommitCloses, OpenUntilConcluded, CommitIsFinal, SuccessIsCommitted,
    Gone, Transacting, Tx
<1> QED
  BY <1>1, <1>2, <1>3 DEF Preserved

(* The server finds a lost connection, also that of an attempt long gone.  *)
LEMMA ReapPreserves ==
    ASSUME TypesOK, CommitInvariant, NEW t \in TxId, Reap(t)
    PROVE  TypesOK' /\ CommitInvariant'
<1>1. /\ UNCHANGED <<pc, attempt, failure, reply, conn>>
      /\ \A u \in TxId \ {t} : srv'[u] = srv[u]
      /\ TypesOK'
  BY DbStepStep DEF Reap, SrvReap, DbStep, TypesOK, callvars, CallTypeOK
<1>2. /\ srv[t] \notin {"absent", "committed"}
      /\ srv'[t] = "ended" \/ (srv'[t] = "committed" /\ srv[t] = "committing")
  BY ServerStep DEF Reap, SrvReap, TypesOK
<1>3. ASSUME NEW c \in Caller, CallInvariant(c)
      PROVE  CallInvariant(c)'
  <2>1. \A k \in Attempt :
          /\ srv'[<<c, k>>] \in {"committed", "committing"} => srv[<<c, k>>] \in {"committed", "committing"}
          /\ srv[<<c, k>>] \in {"committed", "absent"} => srv'[<<c, k>>] = srv[<<c, k>>]
    BY <1>1, <1>2 DEF TxId
  <2>2. AttemptsCounted(c)' /\ ReplyWhenGone(c)' /\ OpenUntilConcluded(c)' /\ OnlyCurrentConnected(c)'
      /\ FailureInHand(c)'
    BY <1>1, <1>3 DEF FailureInHand, CallInvariant, AttemptsCounted,
           ReplyWhenGone, OpenUntilConcluded, OnlyCurrentConnected,
         Gone, Transacting, Tx
  <2>3. UnbegunUntouched(c)' /\ CommitCloses(c)'
    BY <1>1, <1>3, <2>1 DEF CallInvariant, UnbegunUntouched, CommitCloses
  <2>4. c \notin SelfConcluding => CommitIsFinal(c)'
    BY <1>1, <1>3, <2>1 DEF CallInvariant, CommitIsFinal
  <2>5. c \notin SelfConcluding => SuccessIsCommitted(c)'
    BY <1>1, <1>3, <2>1 DEF CallInvariant, SuccessIsCommitted, Tx, TypesOK,
           CallTypeOK, Attempt
  <2> QED
    BY <2>2, <2>3, <2>4, <2>5 DEF CallInvariant
<1> QED
  BY <1>1, <1>3 DEF CommitInvariant

(* The retry policy's verdict on an attempt, and a hook that panics.       *)
LEMMA ConclusionPreserves ==
    ASSUME TypesOK, NEW c \in Caller, CallInvariant(c), attempt[c] # 0,
           SetupPanics(c) \/ Judge(c) \/ Retry(c)
    PROVE  Preserved(c)
<1>1. UNCHANGED <<conn, dbvars>> /\ ~Gone(c)
  BY DEF SetupPanics, Judge, Retry, Gone
<1>2. CASE SetupPanics(c)
  BY <1>1, <1>2, CurrentFits, ReturnPreserves DEF SetupPanics, Fits, Outcome
<1>3. CASE Judge(c) /\ Retries(c) /\ Carry(c, failure[c], "backoff")
  <2>1. TxPart(c) /\ srv' = srv /\ conn' = conn
    BY <1>1, TxUntouched
  <2>2. failure[c] = "retryable" /\ attempt[c] <= MaxRetries
    BY <1>3 DEF Retries
  <2> QED
    BY <1>1, <1>3, <2>1, <2>2, CarryStep, CurrentFits, MovePreserves
       DEF Judge, Fits, Failure, Place, TypesOK
<1>4. CASE Judge(c) /\ Return(c, Settled(c), "returned")
  <2>1. failure[c] \in Failure
    BY DEF TypesOK, CallTypeOK
  <2>2. Settled(c) \in Outcome
    BY <2>1 DEF Settled, Outcome, Failure
  <2>3. Fits("returned", "nil", Settled(c), srv[Tx(c)], conn[Tx(c)], c \in SelfConcluding)
    BY <1>4, <2>1, CurrentFits DEF Judge, Settled, Fits, Failure
  <2> QED
    BY <1>1, <1>4, <2>2, <2>3, ReturnPreserves
<1>5. CASE Judge(c) /\ Return(c, "canceled", "returned")
  BY <1>1, <1>5, CurrentFits, ReturnPreserves DEF Judge, Fits, Outcome
<1>6. CASE Retry(c) /\ Return(c, "canceled", "returned")
  BY <1>1, <1>6, CurrentFits, ReturnPreserves DEF Retry, Fits, Outcome
<1>7. CASE Retry(c) /\ NewAttempt(c)
  BY <1>1, <1>7, NewAttemptPreserves DEF Retry
<1> QED
  BY <1>2, <1>3, <1>4, <1>5, <1>6, <1>7 DEF Judge, Retry
-----------------------------------------------------------------------------
(* The invariant holds initially, and every step of a call, hence every    *)
(* step, preserves it.                                                     *)
LEMMA InitCommitInvariant == Init => TypeOK /\ CommitInvariant
<1> SUFFICES ASSUME Init
             PROVE  TypeOK /\ CommitInvariant
  OBVIOUS
<1>1. TypeOK
  BY DEF Init, TypeOK, DbInit, DbTypeOK, CallTypeOK, ServerState, Place,
         Failure,
         Outcome, Connection
<1>2. ASSUME NEW c \in Caller
      PROVE  CallInvariant(c)
  BY DEF Init, DbInit, TxId, CallInvariant, AttemptsCounted, ReplyWhenGone,
         FailureInHand, UnbegunUntouched, OnlyCurrentConnected, CommitCloses,
         OpenUntilConcluded, CommitIsFinal, SuccessIsCommitted, Gone
<1> QED
  BY <1>1, <1>2 DEF CommitInvariant

(* The steps of a call keep the invariant.                                 *)
LEMMA CallPreserves ==
    ASSUME TypesOK, NEW c \in Caller, CallInvariant(c),
           Start(c) \/ StartRefused(c) \/ Advance(c) \/ Fault(c)
    PROVE  Preserved(c)
<1>1. attempt[c] \in Nat /\ (pc[c] \notin {"idle", "returned"} => attempt[c] # 0)
  BY DEF CallInvariant, AttemptsCounted, TypesOK, CallTypeOK
<1>2. CASE Start(c)
  BY <1>2, NewAttemptPreserves DEF Start
<1>3. CASE StartRefused(c)
  BY <1>3, RefusePreserves
<1>4. CASE Cancel(c)
  BY <1>4, CancelPreserves
<1>5. CASE Begin(c) \/ BeginFails(c) \/ Setup(c) \/ SetupFails(c) \/ SetupPanics(c)
  <2>1. attempt[c] # 0
    BY <1>1, <1>5 DEF Begin, BeginFails, Setup, SetupFails, SetupPanics
  <2> QED
    BY <1>5, <2>1, BeginPreserves, OffDatabasePreserves, RollbackPreserves,
       ConclusionPreserves
<1>6. CASE \/ Read(c) \/ Update(c) \/ SerializationFailure(c) \/ Deadlock(c)
           \/ StatementRejected(c) \/ StatementLost(c) \/ ConnectionBreaks(c)
  <2>1. attempt[c] # 0
    BY <1>1, <1>6 DEF Read, Update, SerializationFailure, Deadlock,
         StatementRejected, StatementLost, ConnectionBreaks, Querying
  <2> QED
    BY <1>6, <2>1, QueryPreserves, StatementPreserves
<1>7. CASE \/ PlanTooCostly(c)
           \/ HandlerSucceeds(c) \/ HandlerSwallows(c) \/ HandlerPropagates(c)
           \/ HandlerFails(c) \/ HandlerPanics(c) \/ HandlerExits(c)
           \/ HandlerConcludes(c)
  <2>1. attempt[c] # 0
    BY <1>1, <1>7 DEF PlanTooCostly, HandlerSucceeds, HandlerSwallows, HandlerPropagates,
         HandlerFails, HandlerPanics, HandlerExits, HandlerConcludes,
         InHandler, Querying
  <2> QED
    BY <1>7, <2>1, OffDatabasePreserves, HandlerConcludesPreserves
<1>8. CASE \/ Rollback(c) \/ DeferredRollback(c) \/ Judge(c) \/ Retry(c)
           \/ Commit(c) \/ CommitRolledBack(c) \/ CommitClosed(c) \/ CommitUnsent(c)
           \/ CommitHookFails(c) \/ CommitRefused(c) \/ CommitUnanswered(c)
  <2>1. attempt[c] # 0
    BY <1>1, <1>8 DEF Rollback, DeferredRollback, Judge, Retry, Commit,
         CommitRolledBack, CommitClosed, CommitUnsent, CommitHookFails,
         CommitRefused, CommitUnanswered, Committing
  <2> QED
    BY <1>8, <2>1, RollbackPreserves, ConclusionPreserves, CommitPreserves,
       OffDatabasePreserves
<1> QED
  BY <1>2, <1>3, <1>4, <1>5, <1>6, <1>7, <1>8 DEF Advance, Fault

(* Every step keeps the invariant.                                         *)
LEMMA NextCommitInvariant ==
    TypeOK /\ CommitInvariant /\ [Next]_vars => (TypeOK /\ CommitInvariant)'
<1> SUFFICES ASSUME TypeOK, CommitInvariant, [Next]_vars
             PROVE  (TypeOK /\ CommitInvariant)'
  OBVIOUS
<1> USE DEF TypesOK
<1>1. ASSUME NEW c \in Caller, Step(c) \/ FaultyStep(c)
      PROVE  (TypeOK /\ CommitInvariant)'
  <2>1. Preserved(c)
    BY <1>1, CallPreserves DEF Step, FaultyStep, TypeOK, CommitInvariant
  <2>2. faults' \in 0 .. MaxFaults
    BY <1>1 DEF Step, FaultyStep, TypeOK
  <2>3. \A d \in Caller \ {c} : CallInvariant(d)'
    BY <2>1, Framed DEF Preserved, TypeOK, CommitInvariant
  <2> QED
    BY <2>1, <2>2, <2>3 DEF Preserved, TypeOK, CommitInvariant
<1>2. ASSUME NEW t \in TxId, Reap(t)
      PROVE  (TypeOK /\ CommitInvariant)'
  BY <1>2, ReapPreserves DEF TypeOK, Reap
<1>3. CASE UNCHANGED vars
  BY <1>3 DEF vars, dbvars, callvars, TypeOK, DbTypeOK, CallTypeOK,
         CommitInvariant,
         CallInvariant, AttemptsCounted, ReplyWhenGone, FailureInHand,
         UnbegunUntouched, OnlyCurrentConnected, CommitCloses,
         OpenUntilConcluded,
         CommitIsFinal, SuccessIsCommitted, Gone, Transacting, Tx
<1> QED
  BY <1>1, <1>2, <1>3 DEF Next, AllReturned

(* The variables of the transactor keep their types, whatever the calls,   *)
(* rows, retries, connections and faults.                                  *)
THEOREM TypeCorrect == Spec => []TypeOK
<1>1. TypeOK /\ CommitInvariant => TypeOK
  OBVIOUS
<1> QED
  BY <1>1, InitCommitInvariant, NextCommitInvariant, PTL DEF Spec

(* The commit of an attempt is final: Transact1 attempts nothing after it, *)
(* and neither what it has in hand nor what it returned denies it.         *)
THEOREM CommitInvariantHolds == Spec => []CommitInvariant
BY InitCommitInvariant, NextCommitInvariant, PTL DEF Spec

(* At most one attempt of a call commits.                                  *)
LEMMA CommittedOnce ==
    ASSUME TypeOK, NEW c \in Caller \ SelfConcluding, CallInvariant(c)
    PROVE  Cardinality(Committed(c)) <= 1
<1>1. Committed(c) = {} \/ Committed(c) = {attempt[c]}
  BY DEF CallInvariant, CommitIsFinal, Committed
<1>2. CASE Committed(c) = {}
  BY <1>2, FS_EmptySet
<1>3. CASE Committed(c) = {attempt[c]}
  <2>1. Cardinality({attempt[c]}) = 1
    BY FS_Singleton
  <2> QED
    BY <1>3, <2>1
<1> QED
  BY <1>1, <1>2, <1>3

(* A call of Transact1 that returns without an error has committed its     *)
(* work exactly once, and one that returns an error that is no commit      *)
(* error, panics, exits or is refused never will.                          *)
THEOREM RepliesAreTrue == Spec => []ReplyIsTrue
<1>1. TypeOK /\ CommitInvariant => ReplyIsTrue
  <2> SUFFICES ASSUME TypeOK, CommitInvariant, NEW c \in Caller \ SelfConcluding
               PROVE  /\ Cardinality(Committed(c)) <= 1
                      /\ reply[c] = "ok" => Committed(c) # {}
                      /\ reply[c] \in {"error", "panicked", "exited", "refused"} =>
                           \A k \in Attempt : srv[<<c, k>>] \notin {"committed", "committing"}
    BY DEF ReplyIsTrue
  <2>1. CallInvariant(c)
    BY DEF CommitInvariant
  <2>2. Cardinality(Committed(c)) <= 1
    BY <2>1, CommittedOnce
  <2>3. ASSUME reply[c] = "ok"
        PROVE  Committed(c) # {}
    BY <2>1, <2>3 DEF CallInvariant, SuccessIsCommitted, Committed, Tx,
           Attempt,
         TypeOK, CallTypeOK
  <2>4. ASSUME reply[c] \in {"error", "panicked", "exited", "refused"},
               NEW k \in Attempt
        PROVE  srv[<<c, k>>] \notin {"committed", "committing"}
    BY <2>1, <2>4 DEF CallInvariant, CommitIsFinal, ReplyWhenGone, Gone
  <2> QED
    BY <2>2, <2>3, <2>4
<1> QED
  BY <1>1, InitCommitInvariant, NextCommitInvariant, PTL DEF Spec

(* No attempt leaves a pooled connection behind, through whatever path it  *)
(* left the transaction, a panicking BeginWithSQL hook excepted.           *)
THEOREM NoTxLeftBehind == Spec => []NoTxOutlivesItsCall
<1>1. TypeOK /\ CommitInvariant => NoTxOutlivesItsCall
  BY DEF CommitInvariant, CallInvariant, OnlyCurrentConnected,
         NoTxOutlivesItsCall, InUse, TxId, Tx
<1> QED
  BY <1>1, InitCommitInvariant, NextCommitInvariant, PTL DEF Spec
-----------------------------------------------------------------------------
(* Every step is one of some session of the database, so that what         *)
(* PostgresProofs says of sessions holds here.                             *)
DB == INSTANCE PostgresProofs

(* What PostgresProofs proves of a session's step, here.                   *)
LEMMA DbSession ==
    ASSUME DbTypeOK, DbInvariant, NEW t \in TxId, SessionStep(t)
    PROVE  DbInvariant'
BY DB!SessionPreserves
   DEF DbTypeOK, DbInvariant, SessionStep, ServerState, CommittedOn, Locked, Holds,
       SrvSet, SrvEnd, SrvRead, SrvUpdate, SrvCommit, GoesOn, Hangs, Commits, Cardinality, IsFiniteSet,
       DB!DbTypeOK, DB!DbInvariant, DB!SessionStep, DB!ServerState, DB!CommittedOn,
       DB!Locked, DB!Holds, DB!SrvSet, DB!SrvEnd, DB!SrvRead, DB!SrvUpdate,
       DB!SrvCommit, DB!GoesOn, DB!Hangs, DB!Commits, DB!Cardinality, DB!IsFiniteSet

(* It keeps the types and concerns that session's transaction only.        *)
LEMMA DbTyped ==
    ASSUME DbTypeOK, NEW t \in TxId, SessionStep(t)
    PROVE  DbTypeOK' /\ \A u \in TxId \ {t} :
                srv'[u] = srv[u] /\ writes'[u] = writes[u] /\ snap'[u] = snap[u]
BY DB!TypedSession
   DEF DbTypeOK, SessionStep, ServerState, Locked, Holds, SrvSet, SrvEnd, SrvRead,
       SrvUpdate, SrvCommit, GoesOn, Hangs, Commits, DB!DbTypeOK, DB!SessionStep,
       DB!ServerState, DB!Locked, DB!Holds, DB!SrvSet, DB!SrvEnd, DB!SrvRead,
       DB!SrvUpdate, DB!SrvCommit, DB!GoesOn, DB!Hangs, DB!Commits

(* The database starts out as it should.                                   *)
LEMMA DbBegins == DbInit => DbInvariant
BY DB!InitDbInvariant
   DEF DbInit, DbInvariant, CommittedOn, Locked, Holds, Cardinality, IsFiniteSet,
       DB!DbInit, DB!DbInvariant, DB!CommittedOn, DB!Locked, DB!Holds,
       DB!Cardinality, DB!IsFiniteSet

(* What a call does to the database is a step of the session of its        *)
(* current transaction, which COMMIT alone ends otherwise than undone.     *)
OwnSession(c) ==
    \/ UNCHANGED dbvars
    \/ /\ Tx(c) \in TxId
       /\ \/ GoesOn(Tx(c))
          \/ CommitUnanswered(c) /\ Hangs(Tx(c))
          \/ (Commit(c) \/ HandlerConcludes(c)) /\ Commits(Tx(c))

(* A rollback ends the transaction, or says nothing to the server.         *)
LEMMA RollbackSession ==
    ASSUME TypesOK, NEW c \in Caller, CallInvariant(c), attempt[c] # 0, RollbackTx(c)
    PROVE  OwnSession(c)
<1>1. CASE Usable(c) /\ SrvEnd(Tx(c))
  <2>1. Tx(c) \in TxId /\ srv[Tx(c)] # "committed"
    BY <1>1, CurrentFits DEF Fits, Usable
  <2> QED
    BY <1>1, <2>1 DEF OwnSession, GoesOn, Hangs, Commits
<1> QED
  BY <1>1 DEF RollbackTx, OwnSession

(* All that a call does, its handler's statements included.                *)
LEMMA CallSession ==
    ASSUME TypesOK, NEW c \in Caller, CallInvariant(c),
           Start(c) \/ StartRefused(c) \/ Advance(c) \/ Fault(c)
    PROVE  OwnSession(c)
<1>1. attempt[c] \in Nat /\ (pc[c] \notin {"idle", "returned"} => attempt[c] # 0)
  BY DEF CallInvariant, AttemptsCounted, TypesOK, CallTypeOK
<1>2. CASE \/ Start(c) \/ StartRefused(c) \/ BeginFails(c) \/ Setup(c)
           \/ SetupPanics(c) \/ PlanTooCostly(c) \/ StatementLost(c)
           \/ HandlerSucceeds(c) \/ HandlerSwallows(c) \/ HandlerPropagates(c)
           \/ HandlerFails(c) \/ HandlerPanics(c) \/ HandlerExits(c)
           \/ CommitHookFails(c) \/ CommitClosed(c) \/ CommitUnsent(c)
           \/ Judge(c) \/ Retry(c) \/ Cancel(c) \/ ConnectionBreaks(c)
  BY <1>2 DEF OwnSession, Start, StartRefused, BeginFails, Setup, SetupPanics,
         PlanTooCostly, StatementLost, HandlerSucceeds, HandlerSwallows, HandlerPropagates,
         HandlerFails, HandlerPanics, HandlerExits, CommitHookFails, CommitClosed,
         CommitUnsent, Judge, Retry, Cancel, ConnectionBreaks
<1>3. CASE Begin(c)
  <2>1. attempt[c] # 0 /\ pc[c] = "begin" /\ SrvSet(Tx(c), "begun")
    BY <1>1, <1>3 DEF Begin
  <2>2. Tx(c) \in TxId /\ srv[Tx(c)] = "absent"
    BY <1>1, <2>1, CurrentTx DEF CallInvariant, UnbegunUntouched, Tx, TxId, Attempt,
           TypesOK, CallTypeOK
  <2> QED
    BY <2>1, <2>2 DEF OwnSession, GoesOn, Hangs, Commits
<1>4. CASE SetupFails(c) \/ Rollback(c) \/ DeferredRollback(c)
  BY <1>1, <1>4, RollbackSession DEF SetupFails, Rollback, DeferredRollback
<1>5. CASE Read(c) \/ Update(c)
  <2>1. Tx(c) \in TxId
    BY <1>1, <1>5, CurrentTx DEF Read, Update, Querying, TypesOK
  <2>2. CASE Read(c)
    BY <2>1, <2>2 DEF Read, Querying, OwnSession, GoesOn, Hangs, Commits
  <2>3. CASE Update(c)
    <3>1. PICK r \in Pending(c) :
            ~Locked(Tx(c), r) /\ ~Conflicts(Tx(c), r) /\ SrvUpdate(Tx(c), r)
      BY <2>3 DEF Update
    <3>2. r \in Row
      BY <3>1, TransactorAssumption DEF Pending
    <3> QED
      BY <2>1, <2>3, <3>1, <3>2 DEF Update, Querying, Conflicts, OwnSession, GoesOn, Hangs, Commits
  <2> QED
    BY <1>5, <2>2, <2>3
<1>6. CASE SerializationFailure(c) \/ Deadlock(c) \/ StatementRejected(c)
  <2>1. SrvSet(Tx(c), "aborted") /\ srv[Tx(c)] \in {"begun", "open"} /\ pc[c] = "handler"
    BY <1>6 DEF SerializationFailure, Deadlock, StatementRejected, StatementFails,
           Querying
  <2>2. Tx(c) \in TxId
    BY <1>1, <2>1, CurrentTx DEF TypesOK
  <2> QED
    BY <2>1, <2>2 DEF OwnSession, GoesOn, Hangs, Commits
<1>7. CASE HandlerConcludes(c)
  <2>1. srv[Tx(c)] = "open" /\ pc[c] = "handler" /\ (SrvCommit(Tx(c)) \/ SrvEnd(Tx(c)))
    BY <1>7 DEF HandlerConcludes, Querying
  <2>2. Tx(c) \in TxId
    BY <1>1, <2>1, CurrentTx DEF TypesOK
  <2> QED
    BY <1>7, <2>1, <2>2 DEF OwnSession, GoesOn, Hangs, Commits
<1>8. CASE Commit(c) \/ CommitRolledBack(c) \/ CommitRefused(c) \/ CommitUnanswered(c)
  <2>1. /\ pc[c] = "commit"
        /\ \/ Commit(c) /\ srv[Tx(c)] \in {"begun", "open"} /\ SrvCommit(Tx(c))
           \/ srv[Tx(c)] # "committed" /\ SrvEnd(Tx(c))
           \/ CommitUnanswered(c) /\ srv[Tx(c)] \in {"begun", "open"} /\ SrvSet(Tx(c), "committing")
    BY <1>8 DEF Commit, CommitRolledBack, CommitRefused, CommitUnanswered, Committing
  <2>2. Tx(c) \in TxId
    BY <1>1, <2>1, CurrentTx DEF TypesOK
  <2> QED
    BY <2>1, <2>2 DEF OwnSession, GoesOn, Hangs, Commits
<1> QED
  BY <1>2, <1>3, <1>4, <1>5, <1>6, <1>7, <1>8 DEF Advance, Fault

(* Also what the server does about a lost connection.                      *)
OneSession == UNCHANGED dbvars \/ \E t \in TxId : SessionStep(t)

(* Every step is one of some session, or leaves the database alone.        *)
LEMMA NextSession ==
    ASSUME TypeOK, CommitInvariant, [Next]_vars
    PROVE  OneSession
<1>1. ASSUME NEW c \in Caller, Step(c) \/ FaultyStep(c)
      PROVE  OneSession
  BY <1>1, CallSession DEF OwnSession, OneSession, SessionStep, Step, FaultyStep, CommitInvariant, TypeOK, TypesOK
<1>2. ASSUME NEW t \in TxId, Reap(t)
      PROVE  OneSession
  BY <1>2 DEF Reap, SrvReap, OneSession, SessionStep, GoesOn, Hangs, Commits
<1>3. CASE UNCHANGED vars
  BY <1>3 DEF vars, OneSession
<1> QED
  BY <1>1, <1>2, <1>3 DEF Next, AllReturned

(* Every step keeps the database's invariant.                              *)
LEMMA NextDbInvariant ==
    TypeOK /\ CommitInvariant /\ DbInvariant /\ [Next]_vars => DbInvariant'
<1> SUFFICES ASSUME TypeOK, CommitInvariant, DbInvariant, [Next]_vars
             PROVE  DbInvariant'
  OBVIOUS
<1>1. CASE UNCHANGED dbvars
  BY <1>1 DEF dbvars, DbInvariant, CommittedOn, Locked, Holds
<1> QED
  BY <1>1, NextSession, DbSession DEF OneSession, TypeOK

(* Whatever is retried, lost or left to the server to clean up, every      *)
(* committed transaction counts in the rows it wrote.                      *)
THEOREM NoUpdateIsLost == Spec => []NoLostUpdate
<1>1. Init => DbInvariant
  BY DbBegins DEF Init
<1>2. DbInvariant => NoLostUpdate
  BY DEF DbInvariant, NoLostUpdate, CommittedOn
<1> QED
  BY <1>1, <1>2, NextDbInvariant, InitCommitInvariant, NextCommitInvariant, PTL DEF Spec
-----------------------------------------------------------------------------
(* A transaction that goes on has not been committed and is not now, and   *)
(* nobody's rows change.                                                   *)
LEMMA GoesOnQuietly ==
    ASSUME DbTypeOK, NEW t \in TxId, GoesOn(t)
    PROVE  /\ value' = value
           /\ srv[t] # "committed" /\ srv'[t] \notin {"committed", "committing"}
BY DEF DbTypeOK, GoesOn, SrvSet, SrvEnd, SrvRead, SrvUpdate

(* Only an UPDATE adds to what a call's transaction has written.           *)
LEMMA CallWrites ==
    ASSUME NEW c \in Caller, Start(c) \/ StartRefused(c) \/ Advance(c) \/ Fault(c)
    PROVE  \/ Update(c) \/ writes' = writes
           \/ writes' = [writes EXCEPT ![Tx(c)] = {}]
<1>1. CASE \/ Start(c) \/ StartRefused(c) \/ BeginFails(c) \/ Setup(c)
           \/ SetupPanics(c) \/ PlanTooCostly(c) \/ StatementLost(c)
           \/ HandlerSucceeds(c) \/ HandlerSwallows(c) \/ HandlerPropagates(c)
           \/ HandlerFails(c) \/ HandlerPanics(c) \/ HandlerExits(c)
           \/ CommitHookFails(c) \/ CommitClosed(c) \/ CommitUnsent(c)
           \/ Judge(c) \/ Retry(c) \/ Cancel(c) \/ ConnectionBreaks(c)
  BY <1>1 DEF dbvars, Start, StartRefused, BeginFails, Setup, SetupPanics,
         PlanTooCostly, StatementLost, HandlerSucceeds, HandlerSwallows,
         HandlerPropagates, HandlerFails, HandlerPanics, HandlerExits,
         CommitHookFails, CommitClosed, CommitUnsent, Judge, Retry, Cancel,
         ConnectionBreaks
<1>2. CASE \/ Begin(c) \/ Read(c) \/ SerializationFailure(c) \/ Deadlock(c)
           \/ StatementRejected(c) \/ CommitUnanswered(c) \/ Commit(c)
  BY <1>2 DEF Begin, Read, SerializationFailure, Deadlock, StatementRejected,
         StatementFails, CommitUnanswered, Commit, SrvSet, SrvRead, SrvCommit
<1>3. CASE \/ SetupFails(c) \/ Rollback(c) \/ DeferredRollback(c)
           \/ HandlerConcludes(c) \/ CommitRolledBack(c) \/ CommitRefused(c)
  BY <1>3 DEF SetupFails, Rollback, DeferredRollback, RollbackTx, HandlerConcludes,
         CommitRolledBack, CommitRefused, dbvars, SrvEnd, SrvCommit
<1> QED
  BY <1>1, <1>2, <1>3 DEF Advance, Fault

(* What a call has written is of its work.                                 *)
LEMMA WorkWritten ==
    ASSUME TypesOK, NEW c \in Caller, WorkDone(c), NEW k \in Attempt,
           Start(c) \/ StartRefused(c) \/ Advance(c) \/ Fault(c)
    PROVE  writes'[<<c, k>>] \subseteq Work[c]
<1>1. <<c, k>> \in TxId /\ writes[<<c, k>>] \subseteq Work[c]
  BY DEF TxId, WorkDone
<1>2. CASE Update(c)
  <2>1. PICK r \in Work[c] : writes' = [writes EXCEPT ![Tx(c)] = @ \cup {r}]
    BY <1>2 DEF Update, Pending, SrvUpdate
  <2>2. writes'[<<c, k>>] \subseteq writes[<<c, k>>] \cup {r}
    BY <1>1, <2>1 DEF TypesOK, DbTypeOK
  <2> QED
    BY <1>1, <2>2
<1>3. CASE writes' = [writes EXCEPT ![Tx(c)] = {}]
  BY <1>1, <1>3 DEF TypesOK, DbTypeOK
<1> QED
  BY <1>1, <1>2, <1>3, CallWrites

(* A COMMIT nobody awaits is one of what its call may leave it at.         *)
LEMMA WorkUnderWay ==
    ASSUME TypesOK, NEW c \in Caller \ SelfConcluding, CallInvariant(c), WorkDone(c),
           OwnSession(c), NEW k \in Attempt, srv'[<<c, k>>] = "committing"
    PROVE  writes'[<<c, k>>] \in Promise!Applicable(c)
<1> DEFINE t == <<c, k>>
<1>1. t \in TxId
  BY DEF TxId
<1>2. CASE srv'[t] = srv[t] /\ writes'[t] = writes[t]
  BY <1>2 DEF WorkDone
<1>3. CASE t = Tx(c) /\ CommitUnanswered(c) /\ Hangs(Tx(c))
  BY <1>1, <1>3 DEF WorkDone, CommitUnanswered, Committing, Usable, Hangs, SrvSet
<1>4. CASE t = Tx(c) /\ (GoesOn(Tx(c)) \/ Commits(Tx(c)))
  BY <1>1, <1>4, GoesOnQuietly, ServerStep DEF Commits, TypesOK
<1>5. ASSUME Tx(c) \in TxId, t # Tx(c), SessionStep(Tx(c))
      PROVE  srv'[t] = srv[t] /\ writes'[t] = writes[t]
  BY <1>1, <1>5, DbTyped DEF TypesOK
<1> QED
  BY <1>2, <1>3, <1>4, <1>5 DEF OwnSession, SessionStep, dbvars

(* What c is about to commit is what it may leave its work at, or failed.  *)
LEMMA WorkAtHand ==
    ASSUME TypesOK, NEW c \in Caller \ SelfConcluding, CallInvariant(c), WorkDone(c),
           Start(c) \/ StartRefused(c) \/ Advance(c) \/ Fault(c)
    PROVE  /\ pc'[c] = "stmtError" /\ failure'[c] # "costly" /\ conn'[Tx(c)'] = "held" =>
                srv'[Tx(c)'] = "aborted"
           /\ pc'[c] = "commit" /\ conn'[Tx(c)'] = "held" /\ srv'[Tx(c)'] \in {"begun", "open"} =>
                writes'[Tx(c)'] \in Promise!Applicable(c)
<1>1. attempt[c] \in Nat /\ (pc[c] \notin {"idle", "returned"} => attempt[c] # 0)
  BY DEF CallInvariant, AttemptsCounted, TypesOK, CallTypeOK
<1>2. CASE SerializationFailure(c) \/ Deadlock(c) \/ StatementRejected(c)
  <2>1. SrvSet(Tx(c), "aborted") /\ pc[c] = "handler" /\ attempt' = attempt
        /\ \E f \in {"retryable", "fatal"} : Carry(c, f, "stmtError")
    BY <1>2 DEF SerializationFailure, Deadlock, StatementRejected, StatementFails,
           Querying, Carry
  <2>2. Tx(c) \in TxId /\ Tx(c)' = Tx(c)
    BY <1>1, <2>1, CurrentTx DEF TypesOK, Tx
  <2>3. srv'[Tx(c)] = "aborted" /\ pc'[c] = "stmtError"
    BY <2>1, <2>2, CarryStep DEF SrvSet, TypesOK, DbTypeOK, Failure, Place
  <2> QED
    BY <2>2, <2>3
<1>3. CASE StatementLost(c) \/ ConnectionBreaks(c)
  <2>1. attempt[c] # 0 /\ attempt' = attempt /\ SetConn(c, "broken")
    BY <1>1, <1>3 DEF StatementLost, ConnectionBreaks, Carry, callvars
  <2>2. Tx(c) \in TxId /\ Tx(c)' = Tx(c)
    BY <2>1, CurrentTx DEF TypesOK, Tx
  <2>3. conn'[Tx(c)] = "broken"
    BY <2>1, <2>2, SetConnStep DEF TypesOK, Connection
  <2> QED
    BY <2>2, <2>3
<1>4. CASE HandlerSucceeds(c) \/ HandlerSwallows(c)
  <2>1. Carry(c, "nil", "commit") /\ UNCHANGED <<conn, dbvars>> /\ attempt' = attempt
    BY <1>4 DEF HandlerSucceeds, HandlerSwallows, Carry
  <2>2. pc'[c] = "commit" /\ Tx(c)' = Tx(c)
    BY <2>1, CarryStep DEF TypesOK, Failure, Place, Tx
  <2>3. CASE HandlerSucceeds(c)
    BY <2>1, <2>2, <2>3 DEF HandlerSucceeds, Promise!Applicable, dbvars
  <2>4. CASE HandlerSwallows(c) /\ failure[c] # "costly"
    BY <2>1, <2>2, <2>4 DEF HandlerSwallows, WorkDone, dbvars
  <2>5. CASE HandlerSwallows(c) /\ c \in Heedless
    <3>1. Tx(c) = <<c, attempt[c]>> /\ attempt[c] \in Attempt
      BY <1>1, <2>5, CurrentTx DEF HandlerSwallows, TypesOK, Tx, TxId
    <3>2. writes[Tx(c)] \subseteq Work[c]
      BY <3>1 DEF WorkDone
    <3> QED
      BY <2>1, <2>2, <2>5, <3>2 DEF Promise!Applicable, dbvars
  <2> QED
    BY <1>4, <2>3, <2>4, <2>5 DEF HandlerSwallows
<1>5. CASE Cancel(c)
  BY <1>5 DEF Cancel, WorkDone, dbvars, Tx
<1>6. CASE HandlerConcludes(c)
  BY <1>6 DEF HandlerConcludes
<1>7. CASE Read(c) \/ Update(c)
  BY <1>7 DEF Read, Update, Querying, callvars
<1>8. CASE \/ Start(c) \/ StartRefused(c) \/ SetupPanics(c) \/ Judge(c) \/ Retry(c)
  BY <1>8 DEF Start, StartRefused, SetupPanics, Judge, Retry, NewAttempt, Return,
         Carry, Goto, TypesOK, CallTypeOK
<1>9. CASE \/ Begin(c) \/ BeginFails(c) \/ Setup(c) \/ SetupFails(c)
           \/ HandlerPropagates(c) \/ HandlerFails(c) \/ HandlerPanics(c) \/ HandlerExits(c)
           \/ Rollback(c) \/ DeferredRollback(c)
  BY <1>9 DEF Begin, BeginFails, Setup, SetupFails, HandlerPropagates, HandlerFails,
         HandlerPanics, HandlerExits, Rollback, DeferredRollback, Carry, Goto,
         TypesOK, CallTypeOK
<1>10. CASE \/ CommitHookFails(c) \/ CommitClosed(c) \/ Commit(c) \/ CommitRolledBack(c)
            \/ CommitRefused(c) \/ CommitUnsent(c) \/ CommitUnanswered(c)
  BY <1>10 DEF CommitHookFails, CommitClosed, Commit, CommitRolledBack, CommitRefused,
         CommitUnsent, CommitUnanswered, Carry, Goto, TypesOK, CallTypeOK
<1>11. CASE PlanTooCostly(c)
  BY <1>11, CarryStep DEF PlanTooCostly, Failure, Place, TypesOK
<1> QED
  BY <1>2, <1>3, <1>4, <1>5, <1>6, <1>7, <1>8, <1>9, <1>10, <1>11 DEF Advance, Fault

(* Steps of other calls and of the server leave it so.                     *)
LEMMA WorkFramed ==
    ASSUME TypesOK, NEW c \in Caller, OwnSession(c), Frame(c),
           NEW d \in Caller \ {c}, CallInvariant(d), WorkDone(d)
    PROVE  WorkDone(d)'
<1>1. \A k \in Attempt : /\ srv'[<<d, k>>] = srv[<<d, k>>]
                         /\ conn'[<<d, k>>] = conn[<<d, k>>]
                         /\ writes'[<<d, k>>] = writes[<<d, k>>]
  <2>1. \A k \in Attempt : <<d, k>> \in TxId \ {Tx(c)}
    BY DEF TxId, Tx
  <2>2. Tx(c) \in TxId /\ SessionStep(Tx(c)) =>
            \A t \in TxId \ {Tx(c)} : writes'[t] = writes[t]
    BY DbTyped DEF TypesOK
  <2> QED
    BY <2>1, <2>2 DEF OwnSession, SessionStep, dbvars, Frame
<1>2. pc'[d] = pc[d] /\ failure'[d] = failure[d] /\ attempt'[d] = attempt[d] /\ attempt[d] \in 0 .. MaxRetries + 1
  BY DEF Frame, TypesOK, CallTypeOK
<1>3. pc[d] \in {"stmtError", "commit"} => Tx(d)' = Tx(d) /\ attempt[d] \in Attempt
  BY <1>2 DEF CallInvariant, AttemptsCounted, Tx, Attempt
<1> QED
  BY <1>1, <1>2, <1>3 DEF WorkDone, Promise!Applicable, Tx

(* The server's clean-up takes nothing from a call's work.                 *)
LEMMA WorkReaped ==
    ASSUME TypesOK, CommitInvariant, WorkInvariant, NEW t \in TxId, Reap(t)
    PROVE  WorkInvariant'
<1> SUFFICES ASSUME NEW c \in Caller \ SelfConcluding
             PROVE  WorkDone(c)'
  BY DEF WorkInvariant
<1>1. /\ UNCHANGED <<pc, attempt, failure, conn>> /\ WorkDone(c) /\ CallInvariant(c)
      /\ \A u \in TxId \ {t} : srv'[u] = srv[u] /\ writes'[u] = writes[u]
  BY DEF Reap, SrvReap, SrvEnd, SrvCommit, callvars, TypesOK, DbTypeOK,
         WorkInvariant, CommitInvariant
<1>2. srv'[t] \in {"ended", "committed"} /\ conn[t] # "held"
  BY ServerStep DEF Reap, SrvReap, TypesOK
<1>3. Tx(c)' = Tx(c)
  BY <1>1 DEF Tx
<1>4. pc[c] \in {"stmtError", "commit"} => Tx(c) \in TxId
  BY <1>1, CurrentTx DEF CallInvariant, AttemptsCounted, TypesOK
<1>5. \A k \in Attempt : <<c, k>> \in TxId
  BY DEF TxId
<1>6. writes'[t] = writes[t] \/ writes'[t] = {}
  BY DEF Reap, SrvReap, SrvEnd, SrvCommit, TypesOK, DbTypeOK
<1> QED
  BY <1>1, <1>2, <1>3, <1>4, <1>5, <1>6 DEF WorkDone, Promise!Applicable

(* The invariant is inductive beside TypeOK and CommitInvariant.           *)
LEMMA NextWork ==
    TypeOK /\ CommitInvariant /\ WorkInvariant /\ [Next]_vars => WorkInvariant'
<1> SUFFICES ASSUME TypeOK, CommitInvariant, WorkInvariant, [Next]_vars
             PROVE  WorkInvariant'
  OBVIOUS
<1>1. ASSUME NEW c \in Caller, Step(c) \/ FaultyStep(c)
      PROVE  WorkInvariant'
  <2>1. /\ TypesOK /\ CallInvariant(c)
        /\ Start(c) \/ StartRefused(c) \/ Advance(c) \/ Fault(c)
    BY <1>1 DEF Step, FaultyStep, TypeOK, TypesOK, CommitInvariant
  <2>2. Preserved(c) /\ OwnSession(c)
    BY <2>1, CallPreserves, CallSession
  <2>3. c \notin SelfConcluding => WorkDone(c)'
    BY <2>1, <2>2, WorkAtHand, WorkUnderWay, WorkWritten
       DEF WorkDone, WorkInvariant, Promise!Applicable
  <2>4. \A d \in Caller \ SelfConcluding : d # c => WorkDone(d)'
    BY <2>1, <2>2, WorkFramed DEF Preserved, WorkInvariant, CommitInvariant
  <2> QED
    BY <2>3, <2>4 DEF WorkInvariant
<1>2. ASSUME NEW t \in TxId, Reap(t)
      PROVE  WorkInvariant'
  BY <1>2, WorkReaped DEF TypeOK, TypesOK
<1>3. CASE UNCHANGED vars
  BY <1>3 DEF vars, dbvars, callvars, WorkInvariant, WorkDone, Promise!Applicable, Tx
<1> QED
  BY <1>1, <1>2, <1>3 DEF Next, AllReturned
-----------------------------------------------------------------------------
(* The two kinds of steps that the promise knows: applying the work of a   *)
(* call, which is what committing its transaction comes to ...             *)
LEMMA AppliesWork ==
    ASSUME TypesOK, DbInvariant, NEW c \in Caller, NEW k \in Attempt,
           Commits(<<c, k>>), writes[<<c, k>>] \in Promise!Applicable(c),
           Committed(c) = {}, reply[c] \in {"none", "commitError", "canceled"},
           UNCHANGED reply
    PROVE  Promise!Apply(c)
<1> DEFINE t == <<c, k>>
           Done(d) == Committed(d) # {}
<1>1. /\ t \in TxId
      /\ srv'[t] = "committed" /\ \A u \in TxId \ {t} : srv'[u] = srv[u]
  BY ServerStep, DbTyped DEF TxId, Commits, SessionStep, TypesOK
<1>2. value' = [r \in Row |-> IF r \in writes[t] THEN value[r] + 1 ELSE value[r]]
  <2>1. ASSUME NEW r \in Row, r \in writes[t]
        PROVE  snap[t][r] = value[r]
    BY <1>1, <2>1 DEF Commits, DbInvariant, Holds
  <2> QED
    BY <2>1 DEF Commits, SrvCommit
<1>3. \A d \in Caller : Committed(d)' = IF d = c THEN {k} ELSE Committed(d)
  BY <1>1 DEF Committed, TxId
<1>4. [d \in Caller |-> Committed(d) # {}]' =
          [[d \in Caller |-> Committed(d) # {}] EXCEPT ![c] = TRUE]
  BY <1>3
<1> QED
  BY <1>2, <1>4 DEF Promise!Apply, Promise!Ambiguous

(* ... and replying, where CommitInvariant after the step says that the    *)
(* reply is true.                                                          *)
LEMMA RepliesToCall ==
    ASSUME TypesOK, SelfConcluding = {}, CommitInvariant', TypesOK', value' = value,
           \A t \in TxId : srv'[t] = "committed" <=> srv[t] = "committed",
           NEW c \in Caller, NEW how \in Outcome \ {"none"}, reply[c] = "none",
           reply' = [reply EXCEPT ![c] = how]
    PROVE  Promise!Reply(c, how)
<1>1. \A d \in Caller : Committed(d)' = Committed(d)
  BY DEF Committed, TxId
<1>2. reply'[c] = how /\ CallInvariant(c)'
  BY DEF TypesOK, CallTypeOK, CommitInvariant
<1>3. how = "ok" => Committed(c) # {}
  <2>1. how = "ok" => attempt'[c] # 0 /\ srv'[Tx(c)'] = "committed"
    BY <1>2 DEF CallInvariant, SuccessIsCommitted
  <2>2. attempt'[c] # 0 => attempt'[c] \in Attempt /\ Tx(c)' = <<c, attempt'[c]>>
    BY DEF TypesOK, CallTypeOK, Attempt, Tx
  <2> QED
    BY <1>1, <2>1, <2>2 DEF Committed
<1>4. how \in {"error", "panicked", "exited", "refused"} => Committed(c) = {}
  <2>1. ASSUME how \in {"error", "panicked", "exited", "refused"}, NEW k \in Attempt
        PROVE  srv'[<<c, k>>] # "committed"
    BY <1>2, <2>1 DEF CallInvariant, CommitIsFinal, ReplyWhenGone, Gone
  <2> QED
    BY <1>1, <2>1 DEF Committed
<1> QED
  BY <1>1, <1>3, <1>4 DEF Promise!Reply, Promise!Unapplied

(* A call replies once.                                                    *)
LEMMA CallReplies ==
    ASSUME TypesOK, NEW c \in Caller, CallInvariant(c),
           Start(c) \/ StartRefused(c) \/ Advance(c) \/ Fault(c)
    PROVE  \/ reply' = reply
           \/ reply[c] = "none" /\ \E how \in Outcome \ {"none"} :
                reply' = [reply EXCEPT ![c] = how]
<1>1. CASE \/ StartRefused(c) \/ SetupPanics(c) \/ Judge(c) \/ Retry(c)
  <2>1. reply[c] = "none"
    BY <1>1 DEF StartRefused, SetupPanics, Judge, Retry, CallInvariant, ReplyWhenGone,
           Gone
  <2>2. Settled(c) \in Outcome \ {"none"}
    BY DEF Settled, Outcome, TypesOK, CallTypeOK, Failure
  <2> QED
    BY <1>1, <2>1, <2>2 DEF StartRefused, SetupPanics, Judge, Retry, Return, NewAttempt,
           Carry, Outcome
<1>2. CASE Start(c) \/ Cancel(c) \/ Read(c) \/ Update(c) \/ ConnectionBreaks(c)
  BY <1>2 DEF Start, Cancel, Read, Update, ConnectionBreaks, NewAttempt, callvars
<1>3. CASE \/ Begin(c) \/ BeginFails(c) \/ Setup(c) \/ SetupFails(c)
           \/ SerializationFailure(c) \/ Deadlock(c) \/ StatementRejected(c)
           \/ PlanTooCostly(c) \/ StatementLost(c)
           \/ HandlerSucceeds(c) \/ HandlerSwallows(c) \/ HandlerPropagates(c)
           \/ HandlerFails(c) \/ HandlerPanics(c) \/ HandlerExits(c)
           \/ HandlerConcludes(c) \/ Rollback(c) \/ DeferredRollback(c)
  BY <1>3 DEF Begin, BeginFails, Setup, SetupFails, SerializationFailure, Deadlock,
         StatementRejected, PlanTooCostly, StatementLost, StatementFails,
         HandlerSucceeds, HandlerSwallows, HandlerPropagates, HandlerFails, HandlerPanics,
         HandlerExits, HandlerConcludes, Rollback, DeferredRollback, Carry
<1>4. CASE \/ CommitHookFails(c) \/ CommitClosed(c) \/ Commit(c) \/ CommitRolledBack(c)
           \/ CommitRefused(c) \/ CommitUnsent(c) \/ CommitUnanswered(c)
  BY <1>4 DEF CommitHookFails, CommitClosed, Commit, CommitRolledBack, CommitRefused,
         CommitUnsent, CommitUnanswered, Carry
<1> QED
  BY <1>1, <1>2, <1>3, <1>4 DEF Advance, Fault

(* The state of the promise, and what it takes to leave it alone.          *)
LEMMA PromiseKept ==
    ASSUME value' = value, reply' = reply,
           \A t \in TxId : srv'[t] = "committed" <=> srv[t] = "committed"
    PROVE  UNCHANGED Promise!vars
<1>1. \A d \in Caller : Committed(d)' = Committed(d)
  BY DEF Committed, TxId
<1> QED
  BY <1>1 DEF Promise!vars

(* The steps of a call are steps of AtomicWork, or none.                   *)
LEMMA CallKeepsPromise ==
    ASSUME TypesOK, DbInvariant, SelfConcluding = {}, NEW c \in Caller,
           CallInvariant(c), WorkDone(c), TypesOK', CommitInvariant',
           Start(c) \/ StartRefused(c) \/ Advance(c) \/ Fault(c)
    PROVE  [Promise!Next]_(Promise!vars)
<1>1. OwnSession(c)
  BY CallSession
<1>2. CASE Commit(c) /\ Tx(c) \in TxId /\ Commits(Tx(c))
  <2>1. /\ attempt[c] \in Attempt /\ Tx(c) = <<c, attempt[c]>>
        /\ conn[Tx(c)] = "held" /\ pc[c] = "commit" /\ srv[Tx(c)] \in {"begun", "open"}
        /\ reply' = reply
    BY <1>2 DEF Commit, Committing, Usable, Carry, Tx, TxId, callvars
  <2>2. writes[Tx(c)] \in Promise!Applicable(c) /\ reply[c] = "none"
    BY <2>1 DEF WorkDone, CallInvariant, ReplyWhenGone, Gone
  <2>3. Committed(c) = {}
    BY <2>1 DEF CallInvariant, CommitIsFinal, Committed
  <2> QED
    BY <1>2, <2>1, <2>2, <2>3, AppliesWork DEF Promise!Next
<1>3. CASE ~Commit(c)
  <2>1. /\ value' = value
        /\ \A t \in TxId : srv'[t] = "committed" <=> srv[t] = "committed"
    <3>1. ASSUME Tx(c) \in TxId, GoesOn(Tx(c))
          PROVE  /\ value' = value
                 /\ \A t \in TxId : srv'[t] = "committed" <=> srv[t] = "committed"
      BY <3>1, GoesOnQuietly, DbTyped DEF TypesOK, SessionStep
    <3>2. ASSUME Tx(c) \in TxId, Hangs(Tx(c))
          PROVE  /\ value' = value
                 /\ \A t \in TxId : srv'[t] = "committed" <=> srv[t] = "committed"
      BY <3>2 DEF Hangs, SrvSet, TypesOK, DbTypeOK
    <3>3. ~HandlerConcludes(c)
      BY DEF HandlerConcludes
    <3> QED
      BY <1>1, <1>3, <3>1, <3>2, <3>3 DEF OwnSession, dbvars
  <2>2. CASE reply' = reply
    BY <2>1, <2>2, PromiseKept
  <2>3. ASSUME NEW how \in Outcome \ {"none"}, reply[c] = "none",
               reply' = [reply EXCEPT ![c] = how]
        PROVE  [Promise!Next]_(Promise!vars)
    <3>1. Promise!Reply(c, how)
      BY <2>1, <2>3, RepliesToCall
    <3> QED
      BY <3>1 DEF Promise!Next, Promise!Unapplied, Promise!Ambiguous, Outcome
  <2> QED
    BY <2>2, <2>3, CallReplies
<1>4. CASE Commit(c) /\ ~(Tx(c) \in TxId /\ Commits(Tx(c)))
  <2>1. Tx(c) \in TxId
    BY <1>4, CurrentTx DEF Commit, Committing, CallInvariant, AttemptsCounted, TypesOK
  <2> QED
    BY <1>4, <2>1 DEF Commit, Committing, Commits
<1> QED
  BY <1>2, <1>3, <1>4

(* So is a COMMIT that the server carries out after all.                   *)
LEMMA ReapKeepsPromise ==
    ASSUME TypesOK, DbInvariant, SelfConcluding = {}, CommitInvariant, WorkInvariant,
           NEW t \in TxId, Reap(t)
    PROVE  [Promise!Next]_(Promise!vars)
<1>1. PICK c \in Caller, k \in Attempt : t = <<c, k>>
  BY DEF TxId
<1>2. reply' = reply /\ CallInvariant(c) /\ WorkDone(c)
  BY DEF Reap, callvars, CommitInvariant, WorkInvariant
<1>3. CASE srv[t] = "committing" /\ SrvCommit(t)
  <2>1. Commits(t) /\ writes[t] \in Promise!Applicable(c)
    BY <1>1, <1>2, <1>3 DEF Commits, WorkDone
  <2>2. k = attempt[c] /\ Committed(c) = {}
    BY <1>1, <1>2, <1>3 DEF CallInvariant, CommitIsFinal, Committed
  <2>3. reply[c] \in {"none", "commitError", "canceled"}
    <3>1. Tx(c) = t
      BY <1>1, <2>2 DEF Tx
    <3>2. reply[c] # "ok"
      BY <1>2, <1>3, <3>1 DEF CallInvariant, SuccessIsCommitted
    <3>3. reply[c] = "none" \/ reply[c] \in {"ok", "commitError", "canceled"}
      BY <1>1, <1>2, <1>3 DEF CallInvariant, CommitIsFinal, ReplyWhenGone, Gone
    <3> QED
      BY <3>2, <3>3
  <2> QED
    BY <1>1, <1>2, <2>1, <2>2, <2>3, AppliesWork DEF Promise!Next
<1>4. CASE srv[t] \in {"begun", "open", "aborted", "committing"} /\ SrvEnd(t)
  <2>1. GoesOn(t)
    BY <1>4 DEF GoesOn
  <2> QED
    BY <1>2, <2>1, GoesOnQuietly, DbTyped, PromiseKept DEF TypesOK, SessionStep
<1> QED
  BY <1>3, <1>4 DEF Reap, SrvReap

(* Every step of the transactor is one of the promise, or stutters.        *)
LEMMA StepKeepsPromise ==
    ASSUME SelfConcluding = {}, TypeOK, CommitInvariant, DbInvariant, WorkInvariant,
           TypeOK', CommitInvariant', [Next]_vars
    PROVE  [Promise!Next]_(Promise!vars)
<1>1. ASSUME NEW c \in Caller, Step(c) \/ FaultyStep(c)
      PROVE  [Promise!Next]_(Promise!vars)
  BY <1>1, CallKeepsPromise DEF Step, FaultyStep, TypeOK, TypesOK, CommitInvariant,
         WorkInvariant
<1>2. ASSUME NEW t \in TxId, Reap(t)
      PROVE  [Promise!Next]_(Promise!vars)
  BY <1>2, ReapKeepsPromise DEF TypeOK, TypesOK
<1>3. CASE UNCHANGED vars
  BY <1>3, PromiseKept DEF vars, dbvars, callvars
<1> QED
  BY <1>1, <1>2, <1>3 DEF Next, AllReturned

(* Transact1 implements AtomicWork: where no handler concludes the         *)
(* transaction by itself, the work of a call is applied in one step, at    *)
(* most once, however often it is retried, and as its reply says; and the  *)
(* whole of it, unless its handler is one that may swallow the refusal of  *)
(* the plan-cost gate.                                                     *)
THEOREM ImplementsAtomicWork == SelfConcluding = {} => (Spec => AtomicWorkSpec)
<1> SUFFICES ASSUME SelfConcluding = {}
             PROVE  Spec => AtomicWorkSpec
  OBVIOUS
<1>1. Init => Promise!Init /\ DbInvariant /\ WorkInvariant
  <2> SUFFICES ASSUME Init
               PROVE  Promise!Init /\ DbInvariant /\ WorkInvariant
    OBVIOUS
  <2>1. \A c \in Caller : Committed(c) = {}
    BY DEF Init, DbInit, Committed, TxId
  <2>2. WorkInvariant
    BY DEF Init, DbInit, WorkInvariant, WorkDone, TxId
  <2> QED
    BY <2>1, <2>2, DbBegins DEF Init, DbInit, Promise!Init
<1>2. TypeOK /\ CommitInvariant /\ DbInvariant /\ [Next]_vars => DbInvariant'
  BY NextDbInvariant
<1>3. /\ TypeOK /\ CommitInvariant /\ DbInvariant /\ WorkInvariant
      /\ (TypeOK /\ CommitInvariant)' /\ [Next]_vars
      => [Promise!Next]_(Promise!vars)
  BY StepKeepsPromise
<1> QED
  BY <1>1, <1>2, <1>3, InitCommitInvariant, NextCommitInvariant, NextWork, PTL
     DEF Spec, AtomicWorkSpec, Promise!Spec
=============================================================================
