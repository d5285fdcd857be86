----------------------------- MODULE InfraDeploy -----------------------------
(***************************************************************************)
(* stdmageecr and stdmagecdk: an image goes to the registry under its      *)
(* digest, an SSM parameter then names the digest, and a CDK deploy of an  *)
(* environment reads the parameter.  CDK keeps what it has looked up in    *)
(* cdk.context.json, from where LiveContextParams removes the parameters   *)
(* that are to be read again.                                              *)
(***************************************************************************)
EXTENDS MageProcess

CONSTANTS
    Env,            \* what may be given as an environment
    NoStaging,      \* the project has no staging environment
    CdkDirIsRelative

Stack == {"stag", "prod"}

InfraTargets == [target : {"ecr", "cdk_deploy", "cdk_diff", "cdk_list"}, env : Env]

ASSUME InfraDeployAssumption ==
    /\ Stack \subseteq Env /\ "none" \notin Env
    /\ NoStaging \in BOOLEAN /\ CdkDirIsRelative \in BOOLEAN

VARIABLES
    tagged,     \* what the digests name on each machine
    repository, \* what they have named in the registry
    parameter,  \* what the parameter of an environment has been
    context,    \* cdk.context.json on each machine: parameters by environment
    stack       \* the image each environment was deployed with

infra == <<tagged, repository, parameter, context, stack>>

NotCached == [n |-> -1, for |-> "none"]
Parameter(e) == parameter[e][Len(parameter[e])]

(* The digest of one image as the tag of one.                              *)
Name(digest, i) == [tag |-> digest, is |-> i]
Tags(names) == {x.tag : x \in names}

InfraInit ==
    /\ tagged = [m \in Machine |-> {}]
    /\ repository = {Name(NoImage, NoImage)}
    /\ parameter = [e \in Stack |-> <<NoImage>>]
    /\ context = [m \in Machine |-> [e \in Stack |-> NotCached]]
    /\ stack = [e \in Stack |-> NoImage]

InfraTypeOK ==
    \A e \in Stack : /\ Len(parameter[e]) >= 1
                     /\ \A m \in Machine : context[m][e] = NotCached \/ context[m][e] \in Tags(repository)
-----------------------------------------------------------------------------
(* BuildPushSetParam, which serves what it builds.                         *)
EcrCommands == <<[do |-> "load", env |-> "dev"], [do |-> "build"], [do |-> "up"], [do |-> "login"],
                 [do |-> "inspect"], [do |-> "tag_digest"], [do |-> "push_digest"],
                 [do |-> "put-parameter"]>>

(* Deploy and Diff make the parameters live first, List does not.          *)
CdkCommands(t) ==
    (IF t.target = "cdk_list" THEN <<>> ELSE <<[do |-> "live_context"]>>)
    \o <<[do |-> "chdir"], [do |-> "synth"]>>
    \o (IF t.target = "cdk_deploy" THEN <<[do |-> "deploy_stack"]>> ELSE <<>>)

InfraStages(t) == <<One(IF t.target = "ecr" THEN EcrCommands ELSE CdkCommands(t))>>

(* Anything but "prod" is staging here ...                                 *)
ParameterOf(e) == IF e = "prod" THEN "prod" ELSE "stag"

(* ... and an error there.                                                 *)
ProfileFromEnv(e) == e = "prod" \/ (e = "stag" /\ ~NoStaging)

(* The directory of the CDK program is found from where the process is.    *)
FindsCdkDir(o) == ~CdkDirIsRelative \/ ~proc[o].inside

(* Mutant: LiveContextParams leaves what it finds.                         *)
KeepsContext(o) == context

(* LiveContextParams: without a file there is nothing to do.               *)
LiveContextParams(o) ==
    IF FindsCdkDir(o)
    THEN [context EXCEPT ![Here(o)] = [e \in Stack |-> NotCached]]
    ELSE context

InfraCommand(o, w) ==
    LET c == Command(o, w)
        p == proc[o]
        e == p.at.env
        m == Here(o)
    IN  /\ \/ /\ c.do = "inspect"
              /\ image[m] # NoImage
              /\ Advance(o, w, [p EXCEPT !.digest = image[m]])
              /\ UNCHANGED infra
           \/ /\ c.do = "tag_digest"
              /\ tagged' = [tagged EXCEPT ![m] =
                    {x \in @ : x.tag # p.digest} \cup {Name(p.digest, image[m])}]
              /\ Advance(o, w, p)
              /\ UNCHANGED <<repository, parameter, context, stack>>
           \/ /\ c.do = "push_digest"
              /\ repository' = repository \cup {x \in tagged[m] : x.tag = p.digest}
              /\ Advance(o, w, p)
              /\ UNCHANGED <<tagged, parameter, context, stack>>
           \/ /\ c.do = "put-parameter"
              /\ parameter' = [parameter EXCEPT ![ParameterOf(e)] = Append(@, p.digest)]
              /\ Advance(o, w, p)
              /\ UNCHANGED <<tagged, repository, context, stack>>
           \/ /\ c.do = "live_context"
              /\ ProfileFromEnv(e)
              /\ context' = LiveContextParams(o)
              /\ Advance(o, w, p)
              /\ UNCHANGED <<tagged, repository, parameter, stack>>
           \/ /\ c.do = "chdir"
              /\ ProfileFromEnv(e) /\ FindsCdkDir(o)
              /\ Advance(o, w, [p EXCEPT !.inside = TRUE])
              /\ UNCHANGED infra
           \/ /\ c.do = "synth"
              /\ LET i == IF context[m][e] = NotCached THEN Parameter(e) ELSE context[m][e]
                 IN  /\ context' = [context EXCEPT ![m][e] = i]
                     /\ Advance(o, w, [p EXCEPT !.digest = i])
              /\ UNCHANGED <<tagged, repository, parameter, stack>>
           \/ /\ c.do = "deploy_stack"
              /\ p.digest \in Tags(repository)
              /\ stack' = [stack EXCEPT ![e] = p.digest]
              /\ Advance(o, w, p)
              /\ UNCHANGED <<tagged, repository, parameter, context>>
        /\ UNCHANGED <<session, image, builds, reports>>

InfraReport(o) ==
    IF proc[o].at.target # "cdk_deploy" THEN {}
    ELSE {[kind |-> "stack", env |-> proc[o].at.env, image |-> proc[o].digest,
           from |-> proc[o].from]}
=============================================================================
