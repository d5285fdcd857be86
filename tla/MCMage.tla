-------------------------------- MODULE MCMage --------------------------------
(* Two processes, on a machine each or on one, with two deployments, one   *)
(* of them with a second function, and a third that is not set up, two     *)
(* environments and two changes of the schema.                             *)
EXTENDS Mage

CONSTANTS p1, p2, m1, m2, t1, users, orders

MCOperator == {p1, p2}
MCMachine == {m1, m2}
MCIdent == {"d1", "d2", "d3"}
MCDeploymentIdents == {"d1", "d2"}
MCLambdas == [d \in MCIdent |-> IF d = "d1" THEN {"f", "g"} ELSE {"f"}]
MCTask == {t1}
MCEnv == {"stag", "prod", "acceptance"}
MCChange == {users, orders}
MCEnvFiles == [m \in MCMachine |-> {"", "dev", "stag"} \cup (IF m = m1 THEN {"prod"} ELSE {})]

Deploys(d, build, push, ecs, lambdas, all) ==
    [target |-> "service", d |-> d, build |-> build, push |-> push,
     service |-> ecs, lambdas |-> lambdas, all |-> all]

Deploy(d) == Deploys(d, TRUE, TRUE, TRUE, TRUE, FALSE)
DeployService(d) == Deploys(d, TRUE, TRUE, TRUE, FALSE, FALSE)
DeployAllLambdas(d) == Deploys(d, TRUE, TRUE, FALSE, TRUE, FALSE)
DeployAll == Deploys("d1", FALSE, TRUE, TRUE, TRUE, TRUE)
Push(d) == Deploys(d, FALSE, TRUE, FALSE, FALSE, FALSE)
Update(d, ecs) == Deploys(d, FALSE, FALSE, ecs, ~ecs, FALSE)

BuildPushSetParam(e) == [target |-> "ecr", env |-> e]
Cdk(do, e) == [target |-> do, env |-> e]
Iterate(name) == [target |-> "iterate", name |-> name]
Diff(name) == [target |-> "diff", name |-> name]
ApplyTo(tool, to) == [target |-> "apply", tool |-> tool, to |-> to]
Snapshot(tool) == [target |-> "snapshot", tool |-> tool]

Two(ma, ta, mb, tb) ==
    [o \in MCOperator |-> IF o = p1 THEN [machine |-> ma, targets |-> ta]
                          ELSE [machine |-> mb, targets |-> tb]]

MCSession == {
    Two(m1, <<Deploy("d1")>>, m2, <<DeployService("d1"), DeployAllLambdas("d1")>>),
    Two(m1, <<DeployAll>>, m2, <<Deploy("d2")>>),
    Two(m1, <<Deploy("d1")>>, m1, <<Deploy("d1")>>),
    Two(m1, <<DeployService("d2"), Push("d2")>>,
        m2, <<Update("d2", TRUE), Update("d2", FALSE), Deploy("d3")>>),
    Two(m1, <<BuildPushSetParam("prod"), Cdk("cdk_deploy", "prod")>>,
        m2, <<BuildPushSetParam("prod"), BuildPushSetParam("acceptance")>>),
    Two(m1, <<Cdk("cdk_diff", "prod"), Cdk("cdk_deploy", "prod")>>, m2, <<BuildPushSetParam("prod")>>),
    Two(m1, <<Cdk("cdk_list", "stag")>>, m1, <<BuildPushSetParam("stag"), Cdk("cdk_deploy", "stag")>>),
    Two(m1, <<BuildPushSetParam("prod"), Cdk("cdk_deploy", "prod")>>, m1, <<BuildPushSetParam("prod")>>),
    Two(m1, <<Iterate("a"), Iterate("a")>>,
        m2, <<Cdk("cdk_diff", "prod")>>),
    Two(m1, <<Diff("a"), ApplyTo("goose", "dev"), Iterate("a"), Snapshot("goose")>>, m2, <<>>),
    Two(m1, <<Diff("a"), Snapshot("atlas")>>, m1, <<ApplyTo("goose", "dev")>>),
    Two(m1, <<Diff("a"), BuildPushSetParam("stag"), Snapshot("atlas")>>, m1, <<Push("d1")>>),
    Two(m1, <<Diff("a"), ApplyTo("atlas", "stag")>>,
        m1, <<ApplyTo("goose", "stag"), ApplyTo("atlas", "prod")>>),
    Two(m1, <<Diff("a")>>,
        m1, <<ApplyTo("goose", "stag"), Cdk("cdk_diff", "prod"), ApplyTo("goose", "prod")>>),
    Two(m2, <<Diff("a")>>, m2, <<ApplyTo("atlas", "stag"), ApplyTo("atlas", "prod")>>),
    Two(m2, <<Diff("a"), ApplyTo("atlas", "stag"), Snapshot("atlas")>>, m2, <<ApplyTo("goose", "stag")>>)}

(* What the theorems about these properties suppose is so here.            *)
ASSUME InstanceAssumption == BuildsApart /\ CopiesApart /\ SnapshotsFindEnv
=============================================================================
