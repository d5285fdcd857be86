SPECIFICATION OpsSpec
CONSTANTS
    p1 = p1
    p2 = p2
    m1 = m1
    m2 = m2
    t1 = t1
    users = users
    orders = orders
    Operator <- MCOperator
    Machine <- MCMachine
    Session <- MCSession
    Ident <- MCIdent
    DeploymentIdents <- MCDeploymentIdents
    Lambdas <- MCLambdas
    Task <- MCTask
    Env <- MCEnv
    NoStaging = FALSE
    CdkDirIsRelative = TRUE
    Change <- MCChange
    EnvFiles <- MCEnvFiles
    MigrationsDirIsRelative = FALSE
INVARIANTS RunsWhatWasDeployed DeploysLiveParameters SnapshotIsOfTheMigrations
PROPERTY MigratesWhereAsked
