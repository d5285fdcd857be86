--------------------------------- MODULE Mage ---------------------------------
(***************************************************************************)
(* Processes of mage at work on the same deployments, environments and     *)
(* databases, from working copies of their own or from one they share.     *)
(***************************************************************************)
EXTENDS ServiceDeploy, InfraDeploy, SchemaMigrations

Target == ServiceTargets \cup InfraTargets \cup SchemaTargets

ASSUME MageAssumption ==
    \A s \in Session, o \in Operator :
        s[o].machine \in Machine /\ s[o].targets \in Seq(Target)

ops == <<mage, svc, infra, schema>>

OpsInit == MageInit /\ ServiceInit /\ InfraInit /\ SchemaInit

OpsTypeOK == MageTypeOK /\ ServiceTypeOK /\ InfraTypeOK /\ SchemaTypeOK

ServiceTarget(t) == t.target = "service"
InfraTarget(t) == t.target \in {"ecr", "cdk_deploy", "cdk_diff", "cdk_list"}

Builds(t) == t.target = "ecr" \/ (ServiceTarget(t) /\ (t.build \/ t.all))

(* Where an image is built for an environment, others build nothing else.  *)
BuildsApart ==
    \A s \in Session, o, q \in Operator : o # q /\ s[o].machine = s[q].machine =>
        \A i \in DOMAIN s[o].targets, j \in DOMAIN s[q].targets :
            s[o].targets[i].target = "ecr" /\ Builds(s[q].targets[j]) =>
                /\ s[q].targets[j].target = "ecr"
                /\ s[q].targets[j].env = s[o].targets[i].env

(* Where a snapshot is made, others write no migrations and build no       *)
(* image for an environment, which starts the database anew.               *)
CopiesApart ==
    \A s \in Session, o, q \in Operator : o # q /\ s[o].machine = s[q].machine =>
        \A i \in DOMAIN s[o].targets, j \in DOMAIN s[q].targets :
            s[o].targets[i].target \in {"iterate", "snapshot"} =>
                s[q].targets[j].target \notin {"iterate", "diff", "snapshot", "ecr"}

(* Where a snapshot is made there are the files that say of what.          *)
SnapshotsFindEnv ==
    \A s \in Session, o \in Operator :
        (\E i \in DOMAIN s[o].targets : s[o].targets[i].target \in {"iterate", "snapshot"})
            => {"", "dev"} \subseteq EnvFiles[s[o].machine]

Stages(t, o) ==
    CASE ServiceTarget(t) -> ServiceStages(t)
      [] InfraTarget(t) -> InfraStages(t)
      [] OTHER -> SchemaStages(t, Here(o))

Begin(o) ==
    /\ proc[o].todo # <<>>
    /\ LET t == Head(proc[o].todo)
       IN  BeginTarget(o, Stages(t, o),
                       IF t.target = "cdk_deploy" /\ t.env \in Stack THEN Len(parameter[t.env]) ELSE 0)
    /\ UNCHANGED <<svc, infra, schema>>

Report(o) ==
    LET t == proc[o].at
    IN  IF ServiceTarget(t) THEN ServiceReport(o) ELSE InfraReport(o)

Finish(o) == FinishStage(o, Report(o)) /\ UNCHANGED <<svc, infra, schema>>

End(o) == (Fail(o) \/ Exit(o)) /\ UNCHANGED <<svc, infra, schema>>

Do(o) ==
    /\ proc[o].status \in {"running", "failing"}
    /\ \E w \in Busy(o) :
        \/ Command(o, w).do = "load" /\ Load(o, w) /\ UNCHANGED <<svc, infra, schema>>
        \/ Command(o, w).do = "build" /\ Build(o, w) /\ UNCHANGED <<svc, infra, schema>>
        \/ Command(o, w).do = "up" /\ Up(o, w) /\ UNCHANGED <<svc, infra>>
        \/ Command(o, w).do = "login" /\ Only(o, w) /\ UNCHANGED <<svc, infra, schema>>
        \/ ServiceTarget(proc[o].at) /\ "d" \in DOMAIN Command(o, w)
           /\ ServiceCommand(o, w) /\ UNCHANGED <<infra, schema>>
        \/ InfraTarget(proc[o].at) /\ InfraCommand(o, w) /\ UNCHANGED <<svc, schema>>
        \/ ~ServiceTarget(proc[o].at) /\ ~InfraTarget(proc[o].at)
           /\ SchemaCommand(o, w) /\ UNCHANGED <<svc, infra>>

External ==
    \/ \E d \in Ident, t \in Task : Replace(d, t) /\ UNCHANGED <<infra, schema>>
    \/ \E m \in Machine : (Edit(m) \/ Starts(m)) /\ UNCHANGED <<svc, infra>>

OpsNext == External \/ \E o \in Operator : Begin(o) \/ Do(o) \/ Finish(o) \/ End(o)

OpsSpec == OpsInit /\ [][OpsNext]_ops
-----------------------------------------------------------------------------
(* Once a target has said that it succeeded, what it was to update runs    *)
(* what it has pushed, which is what it has built or something built       *)
(* later, or what has been pushed to the deployment after it: whoever else *)
(* deploys, whichever tasks crash, and for every deployment of DeployAll   *)
(* (service.go:171, service.go:205, service.go:234).                       *)
RunsWhatWasDeployed ==
    \A r \in {x \in reports : x.kind = "service"} :
        LET since == {pushed[r.d][i] : i \in r.from .. Len(pushed[r.d])}
        IN  /\ r.service => {service[r.d].tasks[t] : t \in Task} \subseteq since
            /\ r.lambdas => {functions[r.d][l] : l \in Lambdas[r.d]} \subseteq since
            /\ pushed[r.d][r.from].n >= r.built.n

(* A CDK deploy that has succeeded used the parameter of its environment   *)
(* as it was when the deploy began, or later, never what an earlier        *)
(* command has cached; what has been pushed under the digest it names was  *)
(* built for this environment, and something was (infra.go:161,            *)
(* infra.go:188, infra.go:300, deploy.go:64, deploy.go:72).                *)
DeploysLiveParameters ==
    \A r \in {x \in reports : x.kind = "stack"} :
        /\ r.image \in {parameter[r.env][i] : i \in r.from .. Len(parameter[r.env])}
        /\ r.image \in Tags(repository)
        /\ \A x \in repository :
            x.tag = r.image => x.is = NoImage \/ ParameterOf(x.is.for) = r.env

(* A snapshot is the schema that its migrations make of an empty database, *)
(* whatever had been applied to the development database before, as those  *)
(* that were iterated on (atlas.go:128, schema.go:70).                     *)
SnapshotIsOfTheMigrations ==
    \A m \in Machine : snapshot[m].schema = SchemaOf(snapshot[m].of)

(* The environment a target is to work in.                                 *)
Where(t) == IF t.target = "apply" THEN t.to ELSE "dev"

AppliesTo(t, x) == t.target = "apply" /\ t.to = x

(* The targets a process has begun.                                        *)
Begun(o) == {session[o].targets[i] : i \in 1 .. Len(session[o].targets) - Len(proc[o].todo)}

(* A shared database is migrated by none but a process that is at the      *)
(* target that was to migrate this one; or, but only where it does not     *)
(* find the files of the environment it is to work in, by one that has     *)
(* been at such a target before (mage.go:25).                              *)
MigratesWhereAsked ==
    [][\A x \in Shared : database'[x] # database[x] =>
        \E o \in Operator :
            /\ proc[o].stages # <<>>
            /\ \/ AppliesTo(proc[o].at, x)
               \/ /\ ~FindsEnv(o, Where(proc[o].at))
                  /\ \E t \in Begun(o) : AppliesTo(t, x)]_ops
=============================================================================
