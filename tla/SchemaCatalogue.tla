---------------------------- MODULE SchemaCatalogue ----------------------------
(***************************************************************************)
(* Saved schemas with their version history: routers/schemas.py and        *)
(* schemas/schema-store.py.  A client is a request under way.              *)
(*                                                                         *)
(* An update reads the schema in one statement, which holds no lock and on *)
(* SQLite starts no transaction, and writes it with its next version in a  *)
(* transaction that is one step: the UPDATE keeps every other one out      *)
(* until the commit.  A delete is one transaction that the first DELETE    *)
(* makes the only writer on SQLite; on PostgreSQL others commit between    *)
(* its statements.  (schema_id, version) and the name are UNIQUE on both,  *)
(* and only SQLite has the foreign key of a version to its schema.         *)
(***************************************************************************)
EXTENDS SchemaVersioning

CONSTANTS
    Id,              \* the ids that uuid4 gives; one is given again when nothing is left of it
    Name,            \* the names of schemas
    Seeded,          \* those of them in TEMPLATES
    TemplateFields,  \* the fields of a seeded schema
    Workspace,
    Client,
    Dialects,        \* the deployments: "sqlite", "postgres"
    MaxVersions,     \* bound: version rows when an update begins
    MaxFaults,       \* bound: restarts of the process
    None

Row == [name : Name, ws : Workspace, fields : FieldLists, version : Version]

ASSUME CatalogueAssumption ==
    /\ Seeded \subseteq Name /\ TemplateFields \in FieldLists
    /\ "default" \in Workspace
    /\ Dialects \subseteq {"sqlite", "postgres"}
    /\ MaxVersions \in Nat /\ MaxFaults \in Nat
    /\ None \notin Row

VARIABLES
    dialect,
    serving,    \* lifespan has seeded the schemas and lets requests in
    schemas,    \* the rows by id, None where there is none
    versions,   \* the rows of schema_versions
    client,     \* each request: what it does and what it has read
    stripped,   \* history: the schemas that another workspace asked to delete
    faults      \* restarts so far

vars == <<dialect, serving, schemas, versions, client, stripped, faults>>

Snapshot == [id : Id, version : Version, fields : FieldLists, warned : BOOLEAN]
Idle     == [op |-> "idle"]
Request  == {Idle}
            \cup [op : {"update"}, id : Id, row : Row, fields : FieldLists]
            \cup [op : {"delete"}, id : Id, ws : Workspace, doomed : SUBSET Snapshot]

Stored        == {i \in Id : schemas[i] # None}
Taken(name)   == \E i \in Stored : schemas[i].name = name
VersionsOf(i) == {v \in versions : v.id = i}
Busy(i)       == \E c \in Client : client[c] # Idle /\ client[c].id = i
Fresh == {i \in Id \ (Stored \cup stripped) : VersionsOf(i) = {} /\ ~Busy(i)}

Finish(c) == client' = [client EXCEPT ![c] = Idle]

Init ==
    /\ dialect \in Dialects
    /\ serving = FALSE
    /\ schemas = [i \in Id |-> None] /\ versions = {}
    /\ client = [c \in Client |-> Idle]
    /\ stripped = {} /\ faults = 0

-----------------------------------------------------------------------------
(* Fault: save_schema leaves current_version out.                          *)
SeedUnversioned(i, name) ==
    /\ ~serving
    /\ name \in Seeded /\ ~Taken(name)
    /\ schemas' = [schemas EXCEPT ![i] = [name |-> name, ws |-> "default",
                                         fields |-> TemplateFields, version |-> <<>>]]
    /\ UNCHANGED <<dialect, serving, versions, client, stripped, faults>>

(* Starting: seed_templates saves each schema that is not there by name,   *)
(* through save_schema and so without a version row.                       *)
SeedSchema(i, name) ==
    /\ ~serving
    /\ name \in Seeded /\ ~Taken(name)
    /\ schemas' = [schemas EXCEPT ![i] = [name |-> name, ws |-> "default",
                                         fields |-> TemplateFields, version |-> FirstVersion]]
    /\ UNCHANGED <<dialect, serving, versions, client, stripped, faults>>

Serve ==
    /\ ~serving /\ \A name \in Seeded : Taken(name)
    /\ serving' = TRUE
    /\ UNCHANGED <<dialect, schemas, versions, client, stripped, faults>>

(* The process dies with its requests and is started again.                *)
Restart ==
    /\ serving /\ faults < MaxFaults
    /\ Cardinality({name \in Seeded : ~Taken(name)}) <= Cardinality(Fresh)
    /\ serving' = FALSE /\ faults' = faults + 1
    /\ client' = [c \in Client |-> Idle]
    /\ UNCHANGED <<dialect, schemas, versions, stripped>>

-----------------------------------------------------------------------------
(* create_schema: both rows in one transaction, unless the name is taken.  *)
Create(i, w, name, fields) ==
    /\ serving /\ Valid(fields) /\ ~Taken(name)
    /\ Cardinality(versions) < MaxVersions
    /\ schemas' = [schemas EXCEPT ![i] = [name |-> name, ws |-> w,
                                         fields |-> fields, version |-> FirstVersion]]
    /\ versions' = versions \cup {[id |-> i, version |-> FirstVersion,
                                   fields |-> fields, warned |-> FALSE]}
    /\ UNCHANGED <<dialect, serving, client, stripped, faults>>

(* update_schema up to its first write.                                    *)
UpdateRead(c, i, fields) ==
    /\ serving /\ client[c] = Idle /\ i \in Stored
    /\ Cardinality(versions) < MaxVersions
    /\ client' = [client EXCEPT ![c] = [op |-> "update", id |-> i,
                                       row |-> schemas[i], fields |-> fields]]
    /\ UNCHANGED <<dialect, serving, schemas, versions, stripped, faults>>

NextVersion(req) == ComputeNextVersion(req.row.fields, req.fields, req.row.version)

SnapshotOf(req) ==
    [id |-> req.id, version |-> NextVersion(req), fields |-> req.fields,
     warned |-> ValidateMigration(req.row.fields, req.fields) # {}]

Bumps(req)    == NextVersion(req) # req.row.version
Collides(req) == \E v \in VersionsOf(req.id) : v.version = NextVersion(req)

(* The insert of the snapshot fails if its version is there, on SQLite     *)
(* also if the schema is not.                                              *)
Accepted(req) ==
    Bumps(req) => ~Collides(req) /\ (dialect = "sqlite" => req.id \in Stored)

(* Its transaction: the row by its id, whatever has become of what was     *)
(* read, and the snapshot if there is a new version.                       *)
Store(req) ==
    schemas' = IF req.id \notin Stored THEN schemas
               ELSE [schemas EXCEPT ![req.id].fields = req.fields, ![req.id].version = NextVersion(req)]

(* Fault: the row is committed before its snapshot.                        *)
UpdateWriteTwice(c) ==
    LET req == client[c] IN
    /\ req.op = "update"
    /\ Store(req)
    /\ versions' = IF Bumps(req) /\ Accepted(req) THEN versions \cup {SnapshotOf(req)} ELSE versions
    /\ Finish(c)
    /\ UNCHANGED <<dialect, serving, stripped, faults>>

UpdateWrite(c) ==
    LET req == client[c] IN
    /\ req.op = "update" /\ Accepted(req)
    /\ Store(req)
    /\ versions' = IF Bumps(req) THEN versions \cup {SnapshotOf(req)} ELSE versions
    /\ Finish(c)
    /\ UNCHANGED <<dialect, serving, stripped, faults>>

(* A request ends without effect: its insert was refused, it got a         *)
(* deadlock or a locked database, and its session rolls back.              *)
Abort(c) ==
    /\ client[c] # Idle
    /\ Finish(c)
    /\ UNCHANGED <<dialect, serving, schemas, versions, stripped, faults>>

(* delete_schema: the versions of the id, whosoever they are, then the     *)
(* schema if it is of the workspace; both are committed even if it is not. *)
(* Bound: another workspace asks for it once.                              *)
MayAsk(i, w) == serving /\ (i \in Stored /\ schemas[i].ws # w => i \notin stripped)

Remove(i, w, doomed) ==
    /\ versions' = versions \ doomed
    /\ IF i \in Stored /\ schemas[i].ws = w
       THEN schemas' = [schemas EXCEPT ![i] = None] /\ UNCHANGED stripped
       ELSE UNCHANGED schemas /\ stripped' = stripped \cup ({i} \cap Stored)

Delete(i, w) ==
    /\ MayAsk(i, w) /\ dialect = "sqlite"
    /\ Remove(i, w, VersionsOf(i))
    /\ UNCHANGED <<dialect, serving, client, faults>>

DeleteVersions(c, i, w) ==
    /\ MayAsk(i, w) /\ dialect = "postgres" /\ client[c] = Idle
    /\ client' = [client EXCEPT ![c] = [op |-> "delete", id |-> i, ws |-> w, doomed |-> VersionsOf(i)]]
    /\ UNCHANGED <<dialect, serving, schemas, versions, stripped, faults>>

DeleteRow(c) ==
    /\ client[c].op = "delete"
    /\ Remove(client[c].id, client[c].ws, client[c].doomed)
    /\ Finish(c)
    /\ UNCHANGED <<dialect, serving, faults>>

-----------------------------------------------------------------------------
Next ==
    \/ \E i \in Fresh, name \in Name :
          \/ SeedSchema(i, name)
          \/ \E w \in Workspace, fields \in FieldLists : Create(i, w, name, fields)
    \/ Serve \/ Restart
    \/ \E i \in Id, w \in Workspace :
          Delete(i, w) \/ \E c \in Client : DeleteVersions(c, i, w)
    \/ \E c \in Client :
          \/ \E i \in Id, fields \in FieldLists : UpdateRead(c, i, fields)
          \/ UpdateWrite(c) \/ Abort(c)
          \/ DeleteRow(c)

Spec == Init /\ [][Next]_vars

-----------------------------------------------------------------------------
(* Properties.                                                             *)

TypeOK ==
    /\ schemas \in [Id -> Row \cup {None}]
    /\ versions \subseteq Snapshot
    /\ client \in [Client -> Request]
    /\ stripped \subseteq Id
    /\ faults \in 0..MaxFaults

(* The same labels, and the same first field with each.                    *)
SameFields(f, g) ==
    Labels(f) = Labels(g) /\ \A name \in Labels(f) : FirstOf(f, name) = FirstOf(g, name)

(* What a schema says is its current version can be looked up in its       *)
(* history and has the fields the schema has, although updates that read   *)
(* the same version write one after the other; a seeded schema has no      *)
(* version row until it is changed.  Only a delete by another workspace    *)
(* breaks this.                                                            *)
CurrentIsSnapshot ==
    \A i \in Stored \ stripped :
        \/ \E v \in VersionsOf(i) :
              v.version = schemas[i].version /\ SameFields(v.fields, schemas[i].fields)
        \/ /\ schemas[i].name \in Seeded /\ schemas[i].version = FirstVersion
           /\ SameFields(schemas[i].fields, TemplateFields)

(* A version number keeps its word: of two versions in the history with    *)
(* the same major number, the newer has every label of the older with the  *)
(* same type and occurrence, also when they stem from updates that did not *)
(* know of each other.                                                     *)
SemverTruthful ==
    \A i \in Stored \ stripped : \A v, w \in VersionsOf(i) :
        v.version[1] = w.version[1] /\ Older(v.version, w.version) =>
            \A name \in Labels(v.fields) :
                /\ name \in Labels(w.fields)
                /\ SameKind(FirstOf(v.fields, name), FirstOf(w.fields, name))

(* The three places that tell a breaking change agree: the major bump of   *)
(* compute_next_version, is_backward_compatible and the warnings that      *)
(* become the changelog, for fields in which no label occurs twice.        *)
Major(v) == v[2] = 0 /\ v[3] = 0

BumpsAgree ==
    [][\A c \in Client :
          client[c].op = "update" /\ client'[c] = Idle =>
              LET old == client[c].row.fields  new == client[c].fields IN
              \A v \in versions' \ versions :
                  Valid(old) /\ Valid(new) =>
                      /\ Major(v.version) <=> ~IsBackwardCompatible(old, new)
                      /\ Major(v.version) <=> v.warned]_vars
=============================================================================
