----------------------------- MODULE RiverWorker -----------------------------
(***************************************************************************)
(* stdriverfx: jobs enqueued in the transaction of whoever wants them      *)
(* done, worked by TransactWorker in a transaction that completes them, on *)
(* pooled connections whose session it changes, and the soft and hard stop *)
(* of the workers.  River is external: it runs attempts, rescues a job     *)
(* whose attempt is past its timeout or died with its process, and applies *)
(* an attempt's outcome only while that attempt is the running one.        *)
(***************************************************************************)
EXTENDS Naturals, FiniteSets

CONSTANTS
    Job,
    Conn,           \* connections of the rw pool
    Periodic,       \* jobs River inserts by itself, arguments unvalidated
    MayBeInvalid,   \* jobs whose arguments may not validate
    Heedless,       \* jobs whose handler does not heed its context
    Timeout,        \* Timeout[j]: the job's timeout, 0 for none
    MaxAttempts,    \* MaxAttempts[j]: of its InsertOpts
    MaxFaults       \* bound: how many things may go wrong in a behaviour

ASSUME RiverWorkerAssumption ==
    /\ Periodic \cup MayBeInvalid \cup Heedless \subseteq Job
    /\ Timeout \in [Job -> Nat]
    /\ MaxAttempts \in [Job -> Nat \ {0}]
    /\ MaxFaults \in Nat

VARIABLES
    invalidArgs,    \* the jobs whose arguments do not, in this behaviour
    job,        \* job[j]: the row of the job
    tries,      \* tries[j]: how often it was fetched
    worked,     \* worked[j]: how often its work was committed
    asked,      \* asked[j]: the transaction that enqueues the job
    pc,         \* pc[e]: where attempt e is in Work
    err,        \* err[e]: what Work is about to return
    over,       \* over[e]: the context of attempt e is done
    tx,         \* tx[e]: the server's end of its transaction
    marked,     \* marked[e]: the transaction has completed (and locked) the row
    on,         \* on[e]: the connection of the transaction
    armed,      \* armed[e]: the transaction_timeout its timer was armed with
    session,    \* session[x]: the timeout SET SESSION has left on connection x
    phase,      \* of the process: working, stopping or not there
    faults

jobvars == <<job, tries, worked, asked>>
runvars == <<pc, err, over>>
txvars == <<tx, marked, on, armed, session>>
vars == <<invalidArgs, jobvars, runvars, txvars, phase, faults>>

Execution == UNION {{j} \X (1 .. MaxAttempts[j]) : j \in Job}
NoConn == "none"

Settled == {"completed", "cancelled", "discarded"}
JobState == {"absent", "available", "running"} \cup Settled
Transacting == {"arm", "handler", "output", "complete", "commit"}
Active == {"validate", "begin", "report"} \cup Transacting
Phase == {"working", "soft", "hard", "stopped", "unsafe", "failed", "exited"}

TypeOK ==
    /\ invalidArgs \subseteq MayBeInvalid
    /\ job \in [Job -> JobState]
    /\ tries \in [Job -> Nat] /\ \A j \in Job : tries[j] <= MaxAttempts[j]
    /\ worked \in [Job -> Nat]
    /\ asked \in [Job -> {"no", "open", "inserted", "committed", "ended"}]
    /\ pc \in [Execution -> {"none", "done"} \cup Active]
    /\ err \in [Execution -> {"nil", "error", "cancel"}]
    /\ over \in [Execution -> BOOLEAN]
    /\ tx \in [Execution -> {"none", "open", "committing", "committed", "ended"}]
    /\ marked \in [Execution -> BOOLEAN]
    /\ on \in [Execution -> Conn \cup {NoConn}]
    /\ armed \in [Execution -> Nat]
    /\ session \in [Conn -> Nat]
    /\ phase \in Phase
    /\ faults \in 0 .. MaxFaults

Init ==
    /\ invalidArgs \in SUBSET MayBeInvalid
    /\ job = [j \in Job |-> "absent"]
    /\ tries = [j \in Job |-> 0]
    /\ worked = [j \in Job |-> 0]
    /\ asked = [j \in Job |-> "no"]
    /\ pc = [e \in Execution |-> "none"]
    /\ err = [e \in Execution |-> "nil"]
    /\ over = [e \in Execution |-> FALSE]
    /\ tx = [e \in Execution |-> "none"]
    /\ marked = [e \in Execution |-> FALSE]
    /\ on = [e \in Execution |-> NoConn]
    /\ armed = [e \in Execution |-> 0]
    /\ session = [x \in Conn |-> 0]
    /\ phase = "working"
    /\ faults = 0
-----------------------------------------------------------------------------
(* Somebody's transaction that enqueues job j.                             *)
Ask(j) ==
    /\ asked[j] = "no" /\ j \notin Periodic
    /\ asked' = [asked EXCEPT ![j] = "open"]
    /\ UNCHANGED <<job, tries, worked, runvars, txvars, phase>>

(* Mutant: the job is inserted outside of the transaction.                 *)
EnqueueAtOnce(j) ==
    /\ asked[j] = "open"
    /\ j \notin invalidArgs
    /\ job' = [job EXCEPT ![j] = "available"]
    /\ asked' = [asked EXCEPT ![j] = "inserted"]
    /\ UNCHANGED <<tries, worked, runvars, txvars, phase>>

(* Invalid arguments are an error; the transaction goes on as it likes.    *)
Enqueue(j) ==
    /\ asked[j] = "open"
    /\ j \notin invalidArgs
    /\ asked' = [asked EXCEPT ![j] = "inserted"]
    /\ UNCHANGED <<job, tries, worked, runvars, txvars, phase>>

AskEnds(j) ==
    /\ asked[j] \in {"open", "inserted"}
    /\ \/ /\ asked' = [asked EXCEPT ![j] = "committed"]
          /\ job' = [job EXCEPT ![j] = IF asked[j] = "inserted" /\ job[j] = "absent"
                                       THEN "available" ELSE @]
       \/ /\ asked' = [asked EXCEPT ![j] = "ended"]
          /\ UNCHANGED job
    /\ UNCHANGED <<tries, worked, runvars, txvars, phase>>

PeriodicJobs(j) ==
    /\ j \in Periodic /\ job[j] = "absent"
    /\ phase = "working"
    /\ job' = [job EXCEPT ![j] = "available"]
    /\ UNCHANGED <<tries, worked, asked, runvars, txvars, phase>>
-----------------------------------------------------------------------------
Goto(e, place) == pc' = [pc EXCEPT ![e] = place] /\ UNCHANGED <<err, over>>
Fail(e, f) ==
    /\ pc' = [pc EXCEPT ![e] = "report"]
    /\ err' = [err EXCEPT ![e] = f]
    /\ UNCHANGED over

(* River fetches job j and runs an attempt at it.                          *)
Fetch(j) ==
    /\ job[j] = "available" /\ phase = "working"
    /\ job' = [job EXCEPT ![j] = "running"]
    /\ tries' = [tries EXCEPT ![j] = @ + 1]
    /\ pc' = [pc EXCEPT ![<<j, tries[j] + 1>>] = "validate"]
    /\ UNCHANGED <<worked, asked, err, over, txvars, phase>>

ValidateArgs(e) ==
    /\ pc[e] = "validate"
    /\ IF e[1] \in invalidArgs THEN Fail(e, "cancel") ELSE Goto(e, "begin")
    /\ UNCHANGED <<jobvars, txvars, phase>>

InUse == {on[e] : e \in {d \in Execution : pc[d] \in Transacting}}

(* BEGIN arms the server's timer with what the session says.               *)
Begin(e) ==
    /\ pc[e] = "begin" /\ ~over[e]
    /\ \E x \in Conn \ InUse :
        /\ tx' = [tx EXCEPT ![e] = "open"]
        /\ on' = [on EXCEPT ![e] = x]
        /\ armed' = [armed EXCEPT ![e] = session[x]]
    /\ marked' = [marked EXCEPT ![e] = FALSE]
    /\ Goto(e, "arm")
    /\ UNCHANGED <<session, jobvars, phase>>

(* Mutant: the worker sets no timeouts.                                    *)
ArmedByBegin(e) == armed[e]

(* SET SESSION arms the timer, unless one is running already.              *)
ArmedBy(e) == IF armed[e] = 0 THEN Timeout[e[1]] ELSE armed[e]

SetTimeouts(e) ==
    /\ pc[e] = "arm" /\ tx[e] = "open" /\ ~over[e]
    /\ armed' = [armed EXCEPT ![e] = ArmedBy(e)]
    /\ Goto(e, "handler")
    /\ UNCHANGED <<tx, marked, on, session, jobvars, phase>>

Handle(e) ==
    /\ pc[e] = "handler" /\ tx[e] = "open" /\ ~over[e]
    /\ Goto(e, "output")
    /\ UNCHANGED <<jobvars, txvars, phase>>

(* The output validates and is recorded.                                   *)
RecordOutput(e) ==
    /\ pc[e] = "output"
    /\ Goto(e, "complete")
    /\ UNCHANGED <<jobvars, txvars, phase>>

RowLocked(j) ==
    \E e \in Execution : e[1] = j /\ marked[e] /\ tx[e] \in {"open", "committing"}

(* Mutant: the job is completed once Work returns, not in its transaction. *)
LeavesCompletionToRiver(e) ==
    /\ pc[e] = "complete" /\ tx[e] = "open" /\ ~over[e]
    /\ Goto(e, "commit")
    /\ UNCHANGED <<jobvars, txvars, phase>>

JobCompleteTx(e) ==
    /\ pc[e] = "complete" /\ tx[e] = "open" /\ ~over[e]
    /\ ~RowLocked(e[1])
    /\ marked' = [marked EXCEPT ![e] = job[e[1]] = "running"]
    /\ Goto(e, "commit")
    /\ UNCHANGED <<tx, on, armed, session, jobvars, phase>>

Apply(e) ==
    /\ tx' = [tx EXCEPT ![e] = "committed"]
    /\ worked' = [worked EXCEPT ![e[1]] = @ + 1]
    /\ job' = [job EXCEPT ![e[1]] = IF marked[e] THEN "completed" ELSE @]
    /\ UNCHANGED <<tries, asked>>

(* What was SET for the session stays on the connection from now on.       *)
Commit(e) ==
    /\ pc[e] = "commit" /\ tx[e] = "open" /\ ~over[e]
    /\ Apply(e)
    /\ session' = [session EXCEPT ![on[e]] =
                      IF Timeout[e[1]] = 0 THEN @ ELSE Timeout[e[1]]]
    /\ UNCHANGED <<marked, on, armed>>
    /\ Goto(e, "report")
    /\ UNCHANGED phase

(* A connection that is lost is replaced by a new one.                     *)
Replaced(e) == [session EXCEPT ![on[e]] = 0]

(* The connection is lost before the answer to COMMIT.                     *)
CommitUnanswered(e) ==
    /\ pc[e] = "commit" /\ tx[e] = "open"
    /\ tx' = [tx EXCEPT ![e] = "committing"]
    /\ Fail(e, "error")
    /\ session' = Replaced(e)
    /\ UNCHANGED <<marked, on, armed, jobvars, phase>>

(* A session whose transaction is rolled back keeps its settings of        *)
(* before; the ROLLBACK of a context that is over closes the connection.   *)
RollsBack(e, f) ==
    /\ tx' = [tx EXCEPT ![e] = IF @ = "open" THEN "ended" ELSE @]
    /\ Fail(e, f)
    /\ session' = IF pc[e] \in Transacting /\ (over[e] \/ tx[e] = "ended")
                  THEN Replaced(e) ELSE session
    /\ UNCHANGED <<marked, on, armed, jobvars, phase>>

(* An error of the handler, a statement or the commit, or an output that   *)
(* does not validate.                                                      *)
WorkFails(e) ==
    \/ pc[e] \in {"begin", "arm", "handler", "complete", "commit"} /\ RollsBack(e, "error")
    \/ pc[e] = "output" /\ RollsBack(e, "cancel")

(* Nothing can be done with a context that is over, and nothing with a     *)
(* transaction the server has terminated.                                  *)
GivesUp(e) ==
    /\ pc[e] \in {"begin", "arm", "complete", "commit"} \/ (pc[e] = "handler" /\ e[1] \notin Heedless)
    /\ over[e] \/ tx[e] = "ended"
    /\ RollsBack(e, "error")

HeedlessReturns(e) ==
    /\ pc[e] = "handler" /\ e[1] \in Heedless
    /\ over[e] \/ tx[e] = "ended"
    /\ Goto(e, "output")
    /\ UNCHANGED <<jobvars, txvars, phase>>

(* stdtx starts over after a serialization failure.                        *)
WorkRetries(e) ==
    /\ pc[e] \in {"handler", "complete", "commit"} /\ tx[e] = "open" /\ ~over[e]
    /\ tx' = [tx EXCEPT ![e] = "ended"]
    /\ Goto(e, "begin")
    /\ UNCHANGED <<marked, on, armed, session, jobvars, phase>>

(* What becomes of the job, unless its row says that it is not running.    *)
Outcome(e) ==
    IF err[e] = "nil" THEN "completed"
    ELSE IF err[e] = "cancel" THEN "cancelled"
    ELSE IF tries[e[1]] = MaxAttempts[e[1]] THEN "discarded" ELSE "available"

Report(e) ==
    /\ pc[e] = "report"
    /\ ~RowLocked(e[1])
    /\ job' = [job EXCEPT ![e[1]] =
                  IF @ = "running" /\ e[2] = tries[e[1]] THEN Outcome(e) ELSE @]
    /\ Goto(e, "done")
    /\ UNCHANGED <<tries, worked, asked, txvars, phase>>
-----------------------------------------------------------------------------
Running == {e \in Execution : pc[e] \in Active}

(* The timer fires some time after the deadline it was computed from, and  *)
(* before that of the context if it is a shorter one from another job.     *)
TimerFires(e) == armed[e] # 0 /\ (over[e] \/ armed[e] < Timeout[e[1]])

(* The server ends the transaction of a client that is gone, or of a timer.*)
ServerEnds(e) ==
    /\ \/ tx[e] = "open" /\ (pc[e] \notin Active \/ TimerFires(e))
       \/ tx[e] = "committing"
    /\ \/ /\ tx' = [tx EXCEPT ![e] = "ended"]
          /\ UNCHANGED jobvars
       \/ tx[e] = "committing" /\ Apply(e)
    /\ UNCHANGED <<marked, on, armed, session, runvars, phase, faults>>

TimesOut(e) ==
    /\ Timeout[e[1]] # 0
    /\ pc[e] \in Active /\ ~over[e]
    /\ over' = [over EXCEPT ![e] = TRUE]
    /\ UNCHANGED <<pc, err, jobvars, txvars, phase>>

(* River's rescuer leaves jobs without a timeout alone.                    *)
Rescue(j) ==
    /\ job[j] = "running" /\ phase = "working"
    /\ Timeout[j] # 0
    /\ over[<<j, tries[j]>>]
    /\ pc[<<j, tries[j]>>] # "report"
    /\ ~RowLocked(j)
    /\ job' = [job EXCEPT ![j] = IF tries[j] = MaxAttempts[j] THEN "discarded" ELSE "available"]
    /\ UNCHANGED <<tries, worked, asked, runvars, txvars, phase, faults>>

(* Workers.stop.                                                           *)
Stop ==
    /\ phase = "working"
    /\ phase' = "soft"
    /\ UNCHANGED <<jobvars, runvars, txvars>>

SoftStopSucceeds ==
    /\ phase = "soft" /\ Running = {}
    /\ phase' = "stopped"
    /\ UNCHANGED <<jobvars, runvars, txvars, faults>>

SoftStopFails ==
    /\ phase = "soft"
    /\ phase' = "failed"
    /\ UNCHANGED <<jobvars, runvars, txvars>>

(* Mutants: the hard stop cancels nothing; the soft stop has no timeout.   *)
StopsOnce == over

(* StopAndCancel ends the context of every attempt.                        *)
CancelsAll == [e \in Execution |-> over[e] \/ e \in Running]

WaitsForJobs == FALSE

SoftStopTimesOut ==
    /\ phase = "soft" /\ Running # {}
    /\ phase' = "hard"
    /\ over' = CancelsAll
    /\ UNCHANGED <<pc, err, jobvars, txvars, faults>>

HardStopSucceeds ==
    /\ phase = "hard" /\ Running = {}
    /\ phase' = "stopped"
    /\ UNCHANGED <<jobvars, runvars, txvars, faults>>

(* A deadline exceeded is logged, and stop returns as if all was well.     *)
HardStopTimesOut ==
    /\ phase = "hard" /\ Running # {}
    /\ phase' = "unsafe"
    /\ UNCHANGED <<jobvars, runvars, txvars, faults>>

(* The context of the whole stop was cancelled.                            *)
HardStopFails ==
    /\ phase = "hard"
    /\ phase' = "failed"
    /\ UNCHANGED <<jobvars, runvars, txvars>>

Dies ==
    /\ phase' = "exited"
    /\ pc' = [e \in Execution |-> IF e \in Running THEN "done" ELSE pc[e]]
    /\ over' = [e \in Execution |-> over[e] \/ e \in Running]
    /\ session' = [x \in Conn |-> 0]
    /\ UNCHANGED <<err, jobvars, tx, marked, on, armed>>

Exit ==
    /\ phase \in {"stopped", "unsafe", "failed"}
    /\ Dies
    /\ UNCHANGED faults

Crash == phase \in {"working", "soft", "hard"} /\ Dies

Restart ==
    /\ phase = "exited"
    /\ phase' = "working"
    /\ UNCHANGED <<jobvars, runvars, txvars, faults>>
-----------------------------------------------------------------------------
Advance(e) ==
    \/ ValidateArgs(e) \/ Begin(e) \/ SetTimeouts(e) \/ Handle(e)
    \/ RecordOutput(e) \/ JobCompleteTx(e) \/ Commit(e) \/ Report(e)
    \/ GivesUp(e) \/ HeedlessReturns(e)

Fault ==
    \/ \E e \in Execution : CommitUnanswered(e) \/ WorkFails(e) \/ WorkRetries(e)
    \/ Stop \/ SoftStopFails \/ HardStopFails \/ Crash

StopStep == SoftStopSucceeds \/ SoftStopTimesOut \/ HardStopSucceeds \/ HardStopTimesOut

(* Nothing is left to do until somebody enqueues a job or stops a process. *)
AllSettled ==
    /\ faults = MaxFaults /\ phase = "working" /\ Running = {}
    /\ \A j \in Job : job[j] \in Settled \cup {"absent"}
    /\ UNCHANGED vars

Next ==
    /\ UNCHANGED invalidArgs
    /\ \/ \E e \in Execution :
            \/ (Advance(e) \/ TimesOut(e)) /\ UNCHANGED faults
            \/ ServerEnds(e)
       \/ \E j \in Job :
            \/ (Ask(j) \/ Enqueue(j) \/ AskEnds(j) \/ PeriodicJobs(j) \/ Fetch(j)) /\ UNCHANGED faults
            \/ Rescue(j)
       \/ StopStep \/ Exit \/ Restart \/ AllSettled
       \/ faults < MaxFaults /\ faults' = faults + 1 /\ Fault

Spec == Init /\ [][Next]_vars

(* Attempts are scheduled and the timers of a stop fire, but a handler     *)
(* that does not heed its context need not return.                         *)
Fairness ==
    /\ \A e \in Execution :
        WF_vars(/\ Advance(e) /\ ~(pc[e] = "handler" /\ e[1] \in Heedless)
                /\ UNCHANGED <<invalidArgs, faults>>)
    /\ WF_vars(StopStep /\ UNCHANGED invalidArgs)

FairSpec == Spec /\ Fairness
-----------------------------------------------------------------------------
(* The work of a job and its completion are one (transact_worker.go:74):   *)
(* through retries, rescues, lost answers to COMMIT, crashes and stops, a  *)
(* job is worked at most once, and exactly when it is completed.           *)
WorkedExactlyWhenCompleted ==
    \A j \in Job : worked[j] = IF job[j] = "completed" THEN 1 ELSE 0

(* A job exists only if the transaction that asked for it committed, and   *)
(* none is worked whose arguments do not validate (enqueuer.go:26,         *)
(* transact_worker.go:46).                                                 *)
EnqueuedWithItsTransaction ==
    \A j \in Job \ Periodic :
        job[j] # "absent" => asked[j] = "committed" /\ j \notin invalidArgs

(* The transaction of a job with a timeout is always limited              *)
(* (transact_worker.go:51): by its own job's timeout, or by that of an     *)
(* earlier job, which SET SESSION has left on the connection and with      *)
(* which BEGIN has armed the timer.                                        *)
LimitedInTime ==
    \A e \in Execution :
        pc[e] \in {"handler", "output", "complete", "commit"} /\ Timeout[e[1]] # 0
        => \E j \in Job : /\ j = e[1] \/ worked[j] > 0
                          /\ armed[e] = Timeout[j] /\ Timeout[j] # 0

(* A stop that says that it succeeded has left no attempt running          *)
(* (work.go:131); one that gave up has told every attempt to end.          *)
StoppedMeansIdle ==
    /\ phase = "stopped" => Running = {}
    /\ phase = "unsafe" => \A e \in Running : over[e]

(* A stop comes to an end, although jobs do not heed it.                   *)
StopReturns == phase = "soft" ~> phase \notin {"soft", "hard"}
=============================================================================
