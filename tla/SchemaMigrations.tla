-------------------------- MODULE SchemaMigrations ---------------------------
(***************************************************************************)
(* stdmageatlas and stdmagepgschema: the migration files of a working      *)
(* copy, the databases they are applied to and the snapshot of the schema  *)
(* they make.  A schema is a set of changes; a file adds some and undoes   *)
(* some.  Atlas refuses a directory that its sum file does not match, but  *)
(* when it is told to hash it anew.                                        *)
(***************************************************************************)
EXTENDS MageProcess

CONSTANTS
    Change,                     \* what a schema may consist of
    MigrationsDirIsRelative

Shared == {"stag", "prod"}

SchemaTargets ==
    [target : {"iterate", "diff"}, name : STRING]
    \cup [target : {"snapshot"}, tool : {"atlas", "goose"}]
    \cup [target : {"apply"}, tool : {"atlas", "goose"}, to : {"dev"} \cup Shared]

ASSUME SchemaMigrationsAssumption ==
    /\ {"none", "dev"} \cap Machine = {} /\ Shared \cap Machine = {}
    /\ MigrationsDirIsRelative \in BOOLEAN

VARIABLES
    desired,    \* the schema as written, on each machine
    files,      \* its migrations
    sum,        \* the migrations its sum file is of
    database,   \* a development database on each machine, and the shared ones
    snapshot,   \* the snapshot on each machine, and the migrations it is of
    versions    \* how many migrations there were

schema == <<desired, files, sum, database, snapshot, versions>>

Apply(db, file) ==
    [db EXCEPT !.applied = Append(@, file), !.schema = (@ \ file.drops) \cup file.adds]

Fresh == [up |-> TRUE, applied |-> <<>>, schema |-> {}]

(* The schema some migrations make, of an empty database: what one of them *)
(* adds and none after it drops.                                           *)
SchemaOf(fs) ==
    {x \in Change : \E i \in DOMAIN fs :
        x \in fs[i].adds /\ \A j \in i + 1 .. Len(fs) : x \notin fs[j].drops}

SchemaInit ==
    /\ desired = [m \in Machine |-> {}]
    /\ files = [m \in Machine |-> <<>>] /\ sum = files
    /\ database = [x \in Machine \cup Shared |-> Fresh]
    /\ snapshot = [m \in Machine |-> [of |-> <<>>, schema |-> {}]]
    /\ versions = 0

SchemaTypeOK ==
    /\ \A m \in Machine : desired[m] \subseteq Change /\ snapshot[m].schema \subseteq Change
    /\ \A x \in DOMAIN database : database[x].schema \subseteq Change

(* A developer changes the schema, where migrations are written.           *)
Edit(m) ==
    /\ \E o \in Operator : Here(o) = m /\ \E i \in DOMAIN session[o].targets :
            session[o].targets[i].target \in {"iterate", "diff"}
    /\ \E d \in SUBSET Change : desired' = [desired EXCEPT ![m] = d]
    /\ UNCHANGED <<mage, files, sum, database, snapshot, versions>>
-----------------------------------------------------------------------------
Named(m, name) == files[m] # <<>> /\ files[m][Len(files[m])].name = name

DiffCommands(name) == <<[do |-> "load", env |-> "dev"], [do |-> "diff", name |-> name]>>
HashCommands == <<[do |-> "load", env |-> "dev"], [do |-> "hash"]>>

ApplyCommands(tool, env) == <<[do |-> "load", env |-> env], [do |-> "apply", tool |-> tool]>>

(* Mutant: the container is not restarted.                                 *)
SnapshotsAsIs(tool) == ApplyCommands(tool, "dev") \o <<[do |-> "pg_dump", tool |-> tool]>>

(* Apply is tried again while the container starts.                        *)
SnapshotCommands(tool) ==
    <<[do |-> "load", env |-> "dev"], [do |-> "restart"]>>
    \o ApplyCommands(tool, "dev") \o <<[do |-> "pg_dump", tool |-> tool]>>

(* Iterate looks at the latest migration before it does anything.          *)
IterateCommands(m, name) ==
    (IF Named(m, name) THEN <<[do |-> "remove"]>> \o HashCommands ELSE <<>>)
    \o DiffCommands(name) \o <<[do |-> "patch", name |-> name]>> \o SnapshotCommands("atlas")

SchemaStages(t, m) ==
    <<One(CASE t.target = "iterate" -> IterateCommands(m, t.name)
            [] t.target = "diff" -> DiffCommands(t.name)
            [] t.target = "snapshot" -> SnapshotCommands(t.tool)
            [] t.target = "apply" -> ApplyCommands(t.tool, t.to))>>

Connected(o) == IF proc[o].url = "dev" THEN Here(o) ELSE proc[o].url

(* Only stdmageatlas takes the host to dump from the URL.                  *)
Dumped(o, tool) == IF tool = "atlas" THEN Connected(o) ELSE Here(o)

(* A stopped or recreated container comes back empty.                      *)
Restart(m) == database' = [database EXCEPT ![m] = [Fresh EXCEPT !.up = FALSE]]

(* docker compose up --force-recreate, with the containers just built.     *)
Up(o, w) ==
    /\ ~proc[o].inside
    /\ Restart(Here(o))
    /\ Advance(o, w, proc[o])
    /\ UNCHANGED <<session, image, builds, reports, desired, files, sum, snapshot, versions>>

Pending(db, fs) == {i \in DOMAIN fs : \A j \in DOMAIN db.applied : db.applied[j] # fs[i]}

SchemaCommand(o, w) ==
    LET c == Command(o, w)
        p == proc[o]
        m == Here(o)
    IN  /\ p.inside => c.do = "apply" /\ c.tool = "goose" /\ ~MigrationsDirIsRelative
        /\ \/ /\ c.do = "remove"
              /\ files' = [files EXCEPT ![m] = SubSeq(@, 1, Len(@) - 1)]
              /\ Advance(o, w, p)
              /\ UNCHANGED <<desired, sum, database, snapshot, versions>>
           \/ /\ c.do = "hash"
              /\ sum' = [sum EXCEPT ![m] = files[m]]
              /\ Advance(o, w, p)
              /\ UNCHANGED <<desired, files, database, snapshot, versions>>
           \/ /\ c.do = "diff" /\ sum[m] = files[m]
              /\ LET is == SchemaOf(files[m])
                     file == [name |-> c.name, version |-> versions + 1, patched |-> FALSE,
                              adds |-> desired[m] \ is, drops |-> is \ desired[m]]
                 IN  IF is = desired[m]
                     THEN UNCHANGED <<files, sum, versions>>
                     ELSE /\ files' = [files EXCEPT ![m] = Append(@, file)]
                          /\ sum' = [sum EXCEPT ![m] = files'[m]]
                          /\ versions' = versions + 1
              /\ Advance(o, w, p)
              /\ UNCHANGED <<desired, database, snapshot>>
           \/ /\ c.do = "patch"
              /\ files' = IF ~Named(m, c.name) THEN files
                          ELSE [files EXCEPT ![m][Len(files[m])].patched = TRUE]
              /\ \/ sum' = [sum EXCEPT ![m] = files'[m]]
                 \/ sum' = sum
              /\ Advance(o, w, p)
              /\ UNCHANGED <<desired, database, snapshot, versions>>
           \/ /\ c.do = "restart"
              /\ Restart(m)
              /\ Advance(o, w, p)
              /\ UNCHANGED <<desired, files, sum, snapshot, versions>>
           \/ /\ c.do = "apply" /\ (c.tool = "atlas" => sum[m] = files[m])
              /\ Connected(o) \in DOMAIN database /\ database[Connected(o)].up
              /\ LET x == Connected(o)
                     pending == Pending(database[x], files[m])
                 IN  IF pending = {}
                     THEN Advance(o, w, p) /\ UNCHANGED database
                     ELSE /\ \E i \in pending :
                                /\ \A j \in pending : i <= j
                                /\ database' = [database EXCEPT ![x] = Apply(@, files[m][i])]
                          /\ UNCHANGED proc
              /\ UNCHANGED <<desired, files, sum, snapshot, versions>>
           \/ /\ c.do = "pg_dump"
              /\ LET x == Dumped(o, c.tool)
                 IN  /\ x \in DOMAIN database /\ database[x].up
                     /\ snapshot' = [snapshot EXCEPT ![m] =
                            [of |-> files[m], schema |-> database[x].schema]]
              /\ Advance(o, w, p)
              /\ UNCHANGED <<desired, files, sum, database, versions>>
        /\ UNCHANGED <<session, image, builds, reports>>

(* The container is there again, its database on a disk in memory.         *)
Starts(m) ==
    /\ ~database[m].up
    /\ database' = [database EXCEPT ![m].up = TRUE]
    /\ UNCHANGED <<mage, desired, files, sum, snapshot, versions>>
=============================================================================
