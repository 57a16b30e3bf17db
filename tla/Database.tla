------------------------------- MODULE Database -------------------------------
(***************************************************************************)
(* How the server comes up: database.py (init_db with its numbered         *)
(* migrations on SQLite, init_db_postgres on PostgreSQL) and the lifespan  *)
(* of main.py, which seeds its rows and then serves.                       *)
(* What it seeds, clients may change and delete again; each start looks it *)
(* up by name and writes what is missing.  Those rows are left out, and    *)
(* seeding is what it needs of the tables and adds to them.                *)
(*                                                                         *)
(* init_db is one connection in the driver's default mode: DDL commits by  *)
(* itself until the first INSERT or UPDATE opens the transaction that the  *)
(* one commit() at the end closes.  So a crash keeps the statements before *)
(* the first stamp in schema_version and loses all after it.               *)
(*                                                                         *)
(* A table, a column and all the indexes are objects of the database; the  *)
(* rows are the ones that starting up writes: the users and their roles,   *)
(* the workspaces, those with an active API key and the default key's row. *)
(***************************************************************************)
EXTENDS Naturals, Sequences, FiniteSets, SequencesExt

CONSTANTS
    User,
    Dialects,    \* the deployments: "sqlite", "postgres"
    MaxFaults,   \* bound: crashes of the process and runs of alembic upgrade
    None         \* no workspace

Workspace == {"default", "other"}
Role      == {"admin", "member"}
Row       == User \X Workspace \X Role

ASSUME DatabaseAssumption ==
    /\ Dialects \subseteq {"sqlite", "postgres"} /\ Dialects # {}
    /\ MaxFaults \in Nat
    /\ None \notin Workspace

VARIABLES
    dialect,   \* settings.database_url
    phase,     \* of the process: "down", "migrating", "seeding",
               \* "templates", "serving"
    todo,      \* the statements init_db still has to run
    conn,      \* the database as init_db's connection sees it
    inTxn,     \* that connection has a transaction open
    disk,      \* the database as it is committed
    faults     \* crashes and runs of alembic so far

startVars == <<phase, todo, conn, inTxn>>
databaseVars == <<dialect, startVars, disk, faults>>

-----------------------------------------------------------------------------
(* The migrations, each the tables and columns it adds, in this order.     *)
MigrationV1 == << <<"jobs">>, <<"schemas">>, <<"schema_version">> >>

MigrationV2 ==
    << <<"workspaces">>, <<"users">>, <<"api_keys">>, <<"pipelines">>, <<"batches">>,
       <<"batch_items">>, <<"webhooks">>, <<"webhook_deliveries">>, <<"schema_versions">>,
       <<"jobs", "workspace_id">>, <<"jobs", "batch_id">>, <<"jobs", "pipeline_id">>,
       <<"schemas", "workspace_id">>, <<"schemas", "current_version">> >>

MigrationV3 ==
    << <<"extraction_reviews">>, <<"accuracy_metrics">>, <<"schemas", "require_review">> >>

MigrationV4 ==
    << <<"role_assignments">>, <<"approval_policies">>, <<"review_rounds">>,
       <<"review_assignments">>, <<"review_audit_log">>, <<"schemas", "approval_policy_id">> >>

Migrations == <<MigrationV1, MigrationV2, MigrationV3, MigrationV4>>
Latest     == Len(Migrations)

(* What a database of version v has.                                       *)
ObjectsOf(v) == UNION {ToSet(Migrations[k]) : k \in 1..v}

(* The ORM models have no schema_version, and templates besides.           *)
TemplateTable == <<"schema_templates">>
OrmObjects    == (ObjectsOf(Latest) \ {<<"schema_version">>}) \cup {TemplateTable}

(* The columns the indexes are on; making one fails quietly if its table   *)
(* is not there.  They are one object, made by one statement of the model. *)
Indexes == <<"indexes">>

(* A database that the program has used and left at version v: its users   *)
(* are of the default workspace, and at the latest version some of them    *)
(* are admins.  PostgreSQL has the same tables and no version.             *)
Empty == [objects |-> {}, version |-> 0, workspaces |-> {}, unowned |-> FALSE,
          defaultKey |-> FALSE, keyed |-> {}, users |-> [u \in User |-> None],
          roles |-> {}]

Used(v, admins) ==
    [Empty EXCEPT !.objects = IF dialect = "sqlite" THEN ObjectsOf(v) ELSE ObjectsOf(v) \ {<<"schema_version">>},
                  !.version = IF dialect = "sqlite" THEN v ELSE 0, !.unowned = (v = 1),
                  !.workspaces = IF v < 2 THEN {} ELSE {"default"},
                  !.defaultKey = (v >= 2), !.keyed = IF v < 2 THEN {} ELSE {"default"},
                  !.users = [u \in User |-> IF v < 2 THEN None ELSE "default"],
                  !.roles = {<<u, "default", IF u \in admins THEN "admin" ELSE "member">> :
                                u \in IF v < 4 THEN {} ELSE User}]

DatabaseInit ==
    /\ dialect \in Dialects
    /\ \E admins \in (SUBSET User) \ {{}} :
        disk \in {Empty} \cup {Used(v, admins) : v \in 1..Latest}
    /\ phase = "down" /\ todo = <<>> /\ conn = disk /\ inTxn = FALSE
    /\ faults = 0

-----------------------------------------------------------------------------
(* The statements of init_db, given the version it finds.                  *)
Migrate(v) == [i \in 1..Len(Migrations[v]) |-> <<"ddl", Migrations[v][i]>>] \o << <<"stamp", v>> >>

(* The loop over all versions takes those above the current one.           *)
Migrated(current) ==
    LET from(v) == IF v > current THEN Migrate(v) ELSE <<>>
    IN  from(1) \o from(2) \o from(3) \o from(4)

(* Fault: the default workspace is seeded on a new database only.          *)
StatementsFresh(current) ==
    Migrated(current)
    \o (IF current = 0 THEN << <<"workspace">>, <<"backfill">>, <<"api_key">> >> ELSE <<>>)
    \o (IF current < 4 THEN << <<"admin_roles">> >> ELSE <<>>)
    \o << <<"ddl", Indexes>> >>

Statements(current) ==
    Migrated(current)
    \o (IF current < 2 THEN << <<"workspace">>, <<"backfill">>, <<"api_key">> >> ELSE <<>>)
    \o (IF current < 4 THEN << <<"admin_roles">> >> ELSE <<>>)
    \o << <<"ddl", Indexes>> >>

(* SELECT MAX(version), 0 if the table is missing or has no row.           *)
Version == IF <<"schema_version">> \in disk.objects THEN disk.version ELSE 0

StartSqlite ==
    /\ phase = "down" /\ dialect = "sqlite"
    /\ phase' = "migrating"
    /\ todo' = Statements(Version)
    /\ conn' = disk /\ inTxn' = FALSE
    /\ UNCHANGED <<dialect, disk, faults>>

(* What a statement makes of database d.                                   *)
IsDdl(s) == s[1] = "ddl"

AdminOfAll(d) == {<<u, d.users[u], "admin">> : u \in {x \in User : d.users[x] # None}}

SeedDefaultApiKey(d) ==
    IF d.defaultKey THEN d ELSE [d EXCEPT !.defaultKey = TRUE, !.keyed = @ \cup {"default"}]

After(s, d) ==
    CASE IsDdl(s)              -> [d EXCEPT !.objects = @ \cup {s[2]}]
      [] s[1] = "stamp"        -> [d EXCEPT !.version = s[2]]
      [] s[1] = "workspace"    -> [d EXCEPT !.workspaces = @ \cup {"default"}]
      [] s[1] = "backfill"     -> [d EXCEPT !.unowned = FALSE]
      [] s[1] = "api_key"      -> SeedDefaultApiKey(d)
      [] s[1] = "admin_roles"  -> [d EXCEPT !.roles = @ \cup AdminOfAll(d)]

(* Fault: "duplicate column" ends it, too.                                 *)
RefusedTwice(s, d) ==
    IsDdl(s) /\ Len(s[2]) = 2 /\ (<<s[2][1]>> \notin d.objects \/ s[2] \in d.objects)

(* "no such table" ends the start, "duplicate column" does not.            *)
Refused(s, d) ==
    \/ IsDdl(s) /\ Len(s[2]) = 2 /\ <<s[2][1]>> \notin d.objects
    \/ s[1] = "stamp" /\ <<"schema_version">> \notin d.objects

(* Fault: the stamp is committed with the DDL before it, the seeds are not. *)
ExecuteAutocommit ==
    LET s == Head(todo) IN
    /\ phase = "migrating" /\ todo # <<>>
    /\ ~Refused(s, conn)
    /\ todo' = Tail(todo)
    /\ conn' = After(s, conn)
    /\ inTxn' = (inTxn \/ (~IsDdl(s) /\ s[1] # "stamp"))
    /\ disk' = IF inTxn' THEN disk ELSE conn'
    /\ UNCHANGED <<dialect, phase, faults>>

Execute ==
    LET s == Head(todo) IN
    /\ phase = "migrating" /\ todo # <<>>
    /\ ~Refused(s, conn)
    /\ todo' = Tail(todo)
    /\ conn' = After(s, conn)
    /\ inTxn' = (inTxn \/ ~IsDdl(s))
    /\ disk' = IF inTxn' THEN disk ELSE conn'
    /\ UNCHANGED <<dialect, phase, faults>>

CommitMigration ==
    /\ phase = "migrating" /\ dialect = "sqlite" /\ todo = <<>>
    /\ phase' = "seeding"
    /\ disk' = conn /\ inTxn' = FALSE
    /\ UNCHANGED <<dialect, todo, conn, faults>>

(* create_all in one transaction: the tables that are missing, with all    *)
(* their columns.  A table that is there stays as it is.                   *)
NewTables == {o \in OrmObjects : <<o[1]>> \notin disk.objects}

StartPostgres ==
    /\ phase = "down" /\ dialect = "postgres"
    /\ phase' = "migrating"
    /\ disk' = [disk EXCEPT !.objects = @ \cup NewTables]
    /\ conn' = disk'
    /\ UNCHANGED <<dialect, todo, inTxn, faults>>

(* _seed_postgres_defaults, in another one.                                *)
SeedPostgres ==
    /\ phase = "migrating" /\ dialect = "postgres"
    /\ phase' = "seeding"
    /\ disk' = SeedDefaultApiKey(After(<<"workspace">>, disk))
    /\ conn' = disk'
    /\ UNCHANGED <<dialect, todo, inTxn, faults>>

(* The schemas and the default pipeline.  The lookup names every column of *)
(* SchemaORM.                                                              *)
SchemaObjects == {o \in OrmObjects : o[1] = "schemas"}
Outdated      == ~(SchemaObjects \subseteq disk.objects)

SeedStore ==
    /\ phase = "seeding" /\ ~Outdated
    /\ phase' = "templates"
    /\ UNCHANGED <<dialect, todo, conn, inTxn, disk, faults>>

(* ensure_table, the curated templates, and the server starts to serve.    *)
SeedCurated ==
    /\ phase = "templates"
    /\ phase' = "serving"
    /\ disk' = [disk EXCEPT !.objects = @ \cup {TemplateTable}]
    /\ conn' = disk'
    /\ UNCHANGED <<dialect, todo, inTxn, faults>>

(* The process dies, or lifespan ends with an exception: what is not       *)
(* committed is gone.                                                      *)
Die ==
    /\ phase' = "down"
    /\ todo' = <<>> /\ conn' = disk /\ inTxn' = FALSE
    /\ UNCHANGED <<dialect, disk>>

StartFails ==
    /\ \/ phase = "migrating" /\ todo # <<>> /\ Refused(Head(todo), conn)
       \/ phase = "seeding" /\ Outdated
    /\ Die /\ UNCHANGED faults

ProcessDies == phase # "down" /\ faults < MaxFaults /\ faults' = faults + 1 /\ Die

(* alembic upgrade, run by hand on SQLite, also under a server that is up: *)
(* the first revision drops schema_version, which commits by itself, and   *)
(* fails later.  It has to wait while init_db's transaction is open.  On   *)
(* PostgreSQL there is no such table and nothing comes of it.              *)
AlembicUpgrade ==
    /\ dialect = "sqlite" /\ ~inTxn /\ faults < MaxFaults
    /\ <<"schema_version">> \in disk.objects
    /\ faults' = faults + 1
    /\ disk' = [disk EXCEPT !.objects = @ \ {<<"schema_version">>}, !.version = 0]
    /\ conn' = disk'
    /\ UNCHANGED <<dialect, phase, todo, inTxn>>

StartUp ==
    \/ StartSqlite \/ Execute \/ CommitMigration
    \/ StartPostgres \/ SeedPostgres
    \/ SeedStore \/ SeedCurated
    \/ StartFails

-----------------------------------------------------------------------------
(* Properties.                                                             *)

(* A server that serves has every table and column of the program, the     *)
(* default workspace, the default API key (revoked or not) and every row   *)
(* with an owner, however often its start was interrupted.  Also on        *)
(* PostgreSQL, where nothing ever adds a column: there the start of a      *)
(* server over a former version's tables fails.                            *)
ServingIsCurrent ==
    phase = "serving" =>
        /\ OrmObjects \subseteq disk.objects
        /\ "default" \in disk.workspaces
        /\ disk.defaultKey
        /\ ~disk.unowned
=============================================================================
