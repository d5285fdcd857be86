---------------------------- MODULE ServiceDeploy ----------------------------
(***************************************************************************)
(* stdmagesvc: an image goes to the mutable tag of a deployment, then the  *)
(* ECS service is told to replace its tasks, then every Lambda function of *)
(* the service is pointed at the tag.  ECS replaces tasks when it is told  *)
(* to and when they crash; a task runs what the tag holds when it starts,  *)
(* or what it held when the replacement was ordered.  Lambda looks a tag   *)
(* up once.                                                                *)
(***************************************************************************)
EXTENDS MageProcess, SequencesExt

CONSTANTS
    Ident,              \* the deployments that exist
    DeploymentIdents,   \* those the targets have been set up with
    Lambdas,            \* the functions of the service, by deployment
    Task                \* tasks of a service

(* Deploy, DeployAll, DeployService, DeployAllLambdas, Push, UpdateService *)
(* and UpdateLambdas: what is built or deployed is pushed.                 *)
ServiceTargets ==
    {t \in [target : {"service"}, d : Ident, build : BOOLEAN, push : BOOLEAN,
            service : BOOLEAN, lambdas : BOOLEAN, all : BOOLEAN] :
        /\ t.push \/ t.service \/ t.lambdas
        /\ t.build \/ t.all => t.push}

ASSUME ServiceDeployAssumption ==
    /\ DeploymentIdents \subseteq Ident
    /\ \A d \in Ident : IsFiniteSet(Lambdas[d])

(* What the CDK construct of a service exports from its stack: three       *)
(* names, and one of four parts for each function.                         *)
ExportServiceInfo(d) ==
    {<<d, "service", prop>> : prop \in {"RepositoryName", "ServiceName", "MainImageTag"}}
    \cup {<<d, "service", "lambda", l>> : l \in Lambdas[d]}

Exports == UNION {ExportServiceInfo(d) : d \in Ident}

(* Every target reads what all stacks export and picks its service.  An    *)
(* export of fewer than three parts under the prefix fails all of them.    *)
ReadDeploymentInfo(d) ==
    LET mine == {e \in Exports : e[1] = d /\ e[2] = "service"}
    IN  [found |-> mine # {} /\ \A e \in Exports : Len(e) >= 3,
         lambdas |-> {e[4] : e \in {f \in mine : Len(f) = 4}}]

VARIABLES
    local,      \* what the tag of a deployment is on a machine
    pushed,     \* what the tag has been in the registry
    service,    \* the ECS service of a deployment
    functions   \* what the Lambda functions of a deployment run

svc == <<local, pushed, service, functions>>

Tag(d) == pushed[d][Len(pushed[d])]

ServiceInit ==
    /\ local = [m \in Machine |-> [d \in Ident |-> NoImage]]
    /\ pushed = [d \in Ident |-> <<NoImage>>]
    /\ service = [d \in Ident |->
            [tasks |-> [t \in Task |-> NoImage], old |-> {}, ordered |-> NoImage]]
    /\ functions = [d \in Ident |-> [l \in Lambdas[d] |-> NoImage]]

ServiceTypeOK ==
    \A d \in Ident : /\ Len(pushed[d]) >= 1
                     /\ service[d].old \subseteq Task
                     /\ DOMAIN functions[d] = Lambdas[d]
-----------------------------------------------------------------------------
Cmd(do, d) == [do |-> do, d |-> d]

PushCommands(d) == <<Cmd("tag", d), Cmd("push", d)>>
UpdateServiceCommands(d) == <<Cmd("force_new_deployment", d), Cmd("services-stable", d)>>
(* Which functions there are is looked up, and there may be none.          *)
UpdateLambdasCommands(d) ==
    LET names == SetToSeq(ReadDeploymentInfo(d).lambdas)
    IN  <<Cmd("list-exports", d)>>
        \o [i \in DOMAIN names |-> [do |-> "update-function-code", d |-> d, l |-> names[i]]]

BuildCommands == <<[do |-> "load", env |-> "dev"], [do |-> "build"], [do |-> "login"]>>

(* Mutant: the service is told to deploy before the new image is there.    *)
UpdatesFirst(t, d) ==
    (IF t.service THEN UpdateServiceCommands(d) ELSE <<>>)
    \o (IF t.push THEN PushCommands(d) ELSE <<>>)
    \o (IF t.lambdas THEN UpdateLambdasCommands(d) ELSE <<>>)

(* deploy, after building and logging in.                                  *)
DeployCommands(t, d) ==
    (IF t.push THEN PushCommands(d) ELSE <<>>)
    \o (IF t.service THEN UpdateServiceCommands(d) ELSE <<>>)
    \o (IF t.lambdas THEN UpdateLambdasCommands(d) ELSE <<>>)

(* DeployAll's workers share one build; the other targets have one worker. *)
ServiceStages(t) ==
    IF t.all
    THEN <<One(BuildCommands), [d \in DeploymentIdents |-> DeployCommands(t, d)]>>
    ELSE <<One((IF t.build THEN BuildCommands ELSE <<>>) \o DeployCommands(t, t.d))>>

(* Every one of these is for a deployment that the targets have been set   *)
(* up with and that has been exported.                                     *)
ServiceCommand(o, w) ==
    LET c == Command(o, w)
        p == proc[o]
        m == Here(o)
        Marked == [p EXCEPT !.mark = IF c.d \in DOMAIN @ THEN @
                                     ELSE [d \in DOMAIN @ \cup {c.d} |->
                                            IF d = c.d THEN Len(pushed[d]) ELSE @[d]]]
    IN  /\ c.d \in DeploymentIdents /\ ReadDeploymentInfo(c.d).found
        /\ \/ /\ c.do = "tag"
              /\ image[m] # NoImage
              /\ local' = [local EXCEPT ![m][c.d] = image[m]]
              /\ Advance(o, w, p)
              /\ UNCHANGED <<pushed, service, functions>>
           \/ /\ c.do = "push"
              /\ pushed' = [pushed EXCEPT ![c.d] = Append(@, local[m][c.d])]
              /\ Advance(o, w, [p EXCEPT !.mark =
                    [d \in DOMAIN @ \cup {c.d} |-> IF d = c.d THEN Len(pushed[d]) + 1 ELSE @[d]]])
              /\ UNCHANGED <<local, service, functions>>
           \/ /\ c.do = "force_new_deployment"
              /\ service' = [service EXCEPT ![c.d].old = Task, ![c.d].ordered = Tag(c.d)]
              /\ Advance(o, w, Marked)
              /\ UNCHANGED <<local, pushed, functions>>
           \/ /\ c.do = "services-stable"
              /\ service[c.d].old = {}
              /\ Advance(o, w, p)
              /\ UNCHANGED svc
           \/ /\ c.do = "list-exports"
              /\ Advance(o, w, Marked)
              /\ UNCHANGED svc
           \/ /\ c.do = "update-function-code"
              /\ functions' = [functions EXCEPT ![c.d][c.l] = Tag(c.d)]
              /\ Advance(o, w, Marked)
              /\ UNCHANGED <<local, pushed, service>>
        /\ UNCHANGED <<session, image, builds, reports>>

(* ECS starts a task in the place of one that is to go, or has crashed.    *)
Replace(d, t) ==
    /\ \E i \in {Tag(d), service[d].ordered} :
        service' = [service EXCEPT ![d].tasks[t] = i, ![d].old = @ \ {t}]
    /\ UNCHANGED <<mage, local, pushed, functions>>

ServiceReport(o) ==
    LET t == proc[o].at
    IN  {[kind |-> "service", d |-> d, from |-> proc[o].mark[d], built |-> proc[o].built,
          service |-> t.service, lambdas |-> t.lambdas] :
         d \in IF t.all THEN DeploymentIdents ELSE {t.d}}
=============================================================================
