----------------------------- MODULE MageProcess -----------------------------
(***************************************************************************)
(* Runs of mage: a process is asked for targets, one after the other.  A   *)
(* target is a number of stages, and a stage the commands of each of its   *)
(* workers: there is one worker, but in a rill.ForEach.  Any command may   *)
(* fail.  That ends the target, and with it the process, in which other    *)
(* workers may go on for a moment.                                         *)
(***************************************************************************)
EXTENDS Integers, Sequences, FiniteSets

CONSTANTS
    Operator,   \* processes
    Machine,    \* working copies, each with its docker images
    Session,    \* which targets each process is asked for, and where
    EnvFiles    \* the environments with a file .env.<env> on each; "" is .env

VARIABLES
    session,
    proc,       \* the processes
    image,      \* the image last built on each machine
    builds,     \* how many there were
    reports     \* what finished targets have reported

mage == <<session, proc, image, builds, reports>>

NoImage == [n |-> 0, for |-> "none"]
NoTarget == [target |-> "none"]

(* Where a process is: its worker's commands, stage by stage, the target   *)
(* it is at, and what this target has seen; the environment of the process *)
(* and its directory outlive a target.                                     *)
NewProcess(o) ==
    [todo |-> session[o].targets, at |-> NoTarget, stages |-> <<>>, status |-> "running",
     built |-> NoImage, digest |-> NoImage, mark |-> <<>>, from |-> 0,
     url |-> "none", inside |-> FALSE]

Here(o) == session[o].machine

MageInit ==
    /\ session \in Session
    /\ proc = [o \in Operator |-> NewProcess(o)]
    /\ image = [m \in Machine |-> NoImage]
    /\ builds = 0
    /\ reports = {}

MageTypeOK ==
    /\ \A o \in Operator :
        /\ proc[o].status \in {"running", "failing", "ended"}
        /\ proc[o].inside \in BOOLEAN
    /\ \A m \in Machine : image[m].n \in 0 .. builds

(* Worker w has one command less.                                         *)
OneLess(p, w) == [p EXCEPT !.stages[1][w] = Tail(@)]

(* One command of worker w is done; fields of the process change with it.  *)
Advance(o, w, p) == proc' = [proc EXCEPT ![o] = OneLess(p, w)]

Command(o, w) == Head(proc[o].stages[1][w])

Busy(o) ==
    {w \in IF proc[o].stages = <<>> THEN {} ELSE DOMAIN proc[o].stages[1] :
        proc[o].stages[1][w] # <<>>}

(* Begin a target, whose commands were worked out with what is there now.  *)
BeginTarget(o, stages, from) ==
    /\ proc[o].status = "running" /\ proc[o].stages = <<>> /\ proc[o].todo # <<>>
    /\ proc' = [proc EXCEPT
            ![o].at = Head(proc[o].todo), ![o].todo = Tail(@), ![o].stages = stages,
            ![o].built = NoImage, ![o].digest = NoImage, ![o].mark = <<>>, ![o].from = from]
    /\ UNCHANGED <<session, image, builds, reports>>

(* The workers of a stage are done; after the last the target has          *)
(* succeeded, and what it says is that.                                    *)
FinishStage(o, report) ==
    /\ proc[o].status = "running" /\ proc[o].stages # <<>> /\ Busy(o) = {}
    /\ proc' = [proc EXCEPT ![o].stages = Tail(@)]
    /\ reports' = IF Len(proc[o].stages) = 1 THEN reports \cup report ELSE reports
    /\ UNCHANGED <<session, image, builds>>

Fail(o) ==
    /\ proc[o].status = "running" /\ Busy(o) # {}
    /\ \E w \in Busy(o) :
        proc' = [proc EXCEPT ![o].status = "failing", ![o].stages[1][w] = <<>>]
    /\ UNCHANGED <<session, image, builds, reports>>

Exit(o) ==
    /\ \/ proc[o].status = "failing"
       \/ proc[o].status = "running" /\ proc[o].stages = <<>> /\ proc[o].todo = <<>>
    /\ proc' = [proc EXCEPT ![o].status = "ended", ![o].stages = <<>>, ![o].todo = <<>>]
    /\ UNCHANGED <<session, image, builds, reports>>

(* Whether a process finds the files of an environment: both are looked    *)
(* for in the directory it is in, where no other has any.                  *)
FindsEnv(o, env) == ~proc[o].inside /\ {"", env} \subseteq EnvFiles[Here(o)]

(* Mutant: godotenv.Load, which leaves variables that are set.             *)
Loads(o, env) == IF FindsEnv(o, env) /\ proc[o].url = "none" THEN env ELSE proc[o].url

(* LoadEnv reads .env and then .env.<env>, which has the database's URL,   *)
(* over what is set; at the first file that is missing it stops, without   *)
(* an error.                                                               *)
LoadEnv(o, env) == IF FindsEnv(o, env) THEN env ELSE proc[o].url

Load(o, w) ==
    /\ Advance(o, w, [proc[o] EXCEPT !.url = LoadEnv(o, Command(o, w).env)])
    /\ UNCHANGED <<session, image, builds, reports>>

(* docker compose build, in the directory of the project.                  *)
Build(o, w) ==
    LET new == [n |-> builds + 1,
                for |-> IF "env" \in DOMAIN proc[o].at THEN proc[o].at.env ELSE "service"]
    IN  /\ ~proc[o].inside
        /\ builds' = builds + 1
        /\ image' = [image EXCEPT ![Here(o)] = new]
        /\ Advance(o, w, [proc[o] EXCEPT !.built = new])
        /\ UNCHANGED <<session, reports>>

(* A command without an effect that matters here.                          *)
Only(o, w) == Advance(o, w, proc[o]) /\ UNCHANGED <<session, image, builds, reports>>

One(commands) == [w \in {"main"} |-> commands]
=============================================================================
