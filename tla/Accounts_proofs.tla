----------------------------- MODULE Accounts_proofs -----------------------------
(***************************************************************************)
(* Proofs about Accounts and the Database it extends, for every number of  *)
(* users, requests, tokens and faults, and for both databases.             *)
(***************************************************************************)
EXTENDS Accounts, SequenceTheorems, TLAPS

-----------------------------------------------------------------------------
(* The statements of init_db                                               *)

LEMMA ToSetConcat ==
    ASSUME NEW S, NEW s \in Seq(S), NEW t \in Seq(S)
    PROVE  s \o t \in Seq(S) /\ ToSet(s \o t) = ToSet(s) \cup ToSet(t)
<1>1. s \o t \in Seq(S)
  BY ConcatProperties
<1>2. Range(s \o t) = Range(s) \cup Range(t)
  BY RangeConcatenation
<1>3. \A f : ToSet(f) = Range(f)
  BY DEF ToSet, Range
<1> QED BY <1>1, <1>2, <1>3

LEMMA ToSetConcats ==
    ASSUME NEW S, NEW a \in Seq(S), NEW b \in Seq(S), NEW c \in Seq(S), NEW d \in Seq(S)
    PROVE  /\ a \o b \o c \o d \in Seq(S)
           /\ ToSet(a \o b \o c \o d) = ToSet(a) \cup ToSet(b) \cup ToSet(c) \cup ToSet(d)
<1> DEFINE ab  == a \o b
           abc == ab \o c
<1>1. ab \in Seq(S) /\ ToSet(ab) = ToSet(a) \cup ToSet(b)
  BY ToSetConcat
<1> HIDE DEF ab
<1>2. abc \in Seq(S) /\ ToSet(abc) = ToSet(ab) \cup ToSet(c)
  BY <1>1, ToSetConcat
<1> HIDE DEF abc
<1>3. abc \o d \in Seq(S) /\ ToSet(abc \o d) = ToSet(abc) \cup ToSet(d)
  BY <1>2, ToSetConcat
<1> QED BY <1>1, <1>2, <1>3 DEF ab, abc

LEMMA ToSetOfTuples ==
    ASSUME NEW S
    PROVE  /\ <<>> \in Seq(S) /\ ToSet(<<>>) = {}
           /\ \A a \in S : <<a>> \in Seq(S) /\ ToSet(<<a>>) = {a}
           /\ \A a, b, c \in S : <<a, b, c>> \in Seq(S) /\ ToSet(<<a, b, c>>) = {a, b, c}
<1>1. <<>> \in Seq(S) /\ ToSet(<<>>) = {}
  BY DEF ToSet
<1>2. ASSUME NEW a \in S PROVE <<a>> \in Seq(S) /\ ToSet(<<a>>) = {a}
  BY DEF ToSet
<1>3. ASSUME NEW a \in S, NEW b \in S, NEW c \in S
      PROVE  <<a, b, c>> \in Seq(S) /\ ToSet(<<a, b, c>>) = {a, b, c}
  BY DEF ToSet
<1> QED BY <1>1, <1>2, <1>3

LEMMA ToSetTail ==
    ASSUME NEW S, NEW s \in Seq(S), s # <<>>
    PROVE  /\ Head(s) \in S /\ Tail(s) \in Seq(S)
           /\ ToSet(s) = {Head(s)} \cup ToSet(Tail(s))
<1>1. /\ Head(s) \in S /\ Tail(s) \in Seq(S)
      /\ Len(Tail(s)) = Len(s) - 1 /\ Len(s) \in Nat /\ Len(s) > 0
      /\ \A i \in 1..Len(Tail(s)) : Tail(s)[i] = s[i + 1]
  BY HeadTailProperties
<1>2. Head(s) = s[1] /\ DOMAIN s = 1..Len(s) /\ DOMAIN Tail(s) = 1..Len(Tail(s))
  BY <1>1
<1>3. ASSUME NEW x \in ToSet(s) PROVE x = Head(s) \/ x \in ToSet(Tail(s))
  <2>1. PICK i \in 1..Len(s) : x = s[i]
    BY <1>2 DEF ToSet
  <2>2. CASE i # 1
    <3>1. i - 1 \in 1..Len(Tail(s)) /\ Tail(s)[i - 1] = s[i]
      BY <1>1, <2>2
    <3> QED BY <1>2, <2>1, <3>1 DEF ToSet
  <2> QED BY <1>2, <2>1, <2>2
<1>4. ASSUME NEW x \in ToSet(Tail(s)) PROVE x \in ToSet(s)
  <2>1. PICK i \in 1..Len(Tail(s)) : x = Tail(s)[i]
    BY <1>2 DEF ToSet
  <2>2. i + 1 \in 1..Len(s) /\ x = s[i + 1]
    BY <1>1, <2>1
  <2> QED BY <1>2, <2>2 DEF ToSet
<1>5. Head(s) \in ToSet(s)
  BY <1>1, <1>2 DEF ToSet
<1> QED BY <1>1, <1>3, <1>4, <1>5

LEMMA LatestIsFour == Latest = 4
  BY DEF Latest, Migrations

LEMMA MigrationLists ==
    ASSUME NEW k \in 1..Latest
    PROVE  Len(Migrations[k]) \in Nat /\ DOMAIN Migrations[k] = 1..Len(Migrations[k])
<1>1. k = 1 \/ k = 2 \/ k = 3 \/ k = 4
  BY LatestIsFour
<1> QED BY <1>1 DEF Migrations, MigrationV1, MigrationV2, MigrationV3, MigrationV4

Objects   == ObjectsOf(Latest) \cup {Indexes, TemplateTable}
Seeding   == {<<"workspace">>, <<"backfill">>, <<"api_key">>}
Statement == {<<"ddl", o>> : o \in Objects} \cup {<<"stamp", v>> : v \in 1..Latest}
             \cup Seeding \cup {<<"admin_roles">>}

LEMMA MigrateCovers ==
    ASSUME NEW k \in 1..Latest
    PROVE  /\ Migrate(k) \in Seq(Statement)
           /\ \A o \in ToSet(Migrations[k]) : <<"ddl", o>> \in ToSet(Migrate(k))
           /\ \A s \in ToSet(Migrate(k)) : s[1] \in {"ddl", "stamp"}
<1> DEFINE m   == Migrations[k]
           ddl == [i \in 1..Len(m) |-> <<"ddl", m[i]>>]
           end == << <<"stamp", k>> >>
<1>1. Len(m) \in Nat /\ DOMAIN m = 1..Len(m)
  BY MigrationLists
<1>2. \A i \in 1..Len(m) : m[i] \in Objects
  BY <1>1 DEF Objects, ObjectsOf, ToSet
<1> HIDE DEF m
<1>3. ddl \in Seq(Statement)
  BY <1>1, <1>2 DEF Statement
<1>4. end \in Seq(Statement) /\ ToSet(end) = {<<"stamp", k>>}
  BY DEF Statement, ToSet
<1>5. ToSet(ddl) = {<<"ddl", o>> : o \in ToSet(m)}
  BY <1>1 DEF ToSet
<1>6. Migrate(k) = ddl \o end
  BY DEF Migrate, m
<1> HIDE DEF ddl, end
<1>7. Migrate(k) \in Seq(Statement) /\ ToSet(Migrate(k)) = ToSet(ddl) \cup ToSet(end)
  BY <1>3, <1>4, <1>6, ToSetConcat
<1>8. \A s \in ToSet(Migrate(k)) : s[1] \in {"ddl", "stamp"}
  BY <1>4, <1>5, <1>7
<1> QED BY <1>5, <1>7, <1>8 DEF m

(* What init_db still has to run at a version makes all that this version  *)
(* does not have.                                                          *)
LEMMA StatementsCover ==
    ASSUME NEW v \in 0..Latest
    PROVE  /\ Statements(v) \in Seq(Statement)
           /\ \A o \in ObjectsOf(Latest) \ ObjectsOf(v) : <<"ddl", o>> \in ToSet(Statements(v))
           /\ v < 2 => Seeding \subseteq ToSet(Statements(v))
           /\ <<"admin_roles">> \in ToSet(Statements(v)) <=> v < 4
           /\ v = Latest => <<"stamp", Latest>> \notin ToSet(Statements(v))
<1> DEFINE From(k) == IF k > v THEN Migrate(k) ELSE <<>>
           seeding == IF v < 2 THEN << <<"workspace">>, <<"backfill">>, <<"api_key">> >> ELSE <<>>
           roles   == IF v < 4 THEN << <<"admin_roles">> >> ELSE <<>>
           indexes == << <<"ddl", Indexes>> >>
<1>0. <<>> \in Seq(Statement) /\ ToSet(<<>>) = {}
  BY ToSetOfTuples
<1>1. ASSUME NEW k \in 1..Latest
      PROVE  /\ From(k) \in Seq(Statement)
             /\ k > v => \A o \in ToSet(Migrations[k]) : <<"ddl", o>> \in ToSet(From(k))
             /\ \A s \in ToSet(From(k)) : s[1] \in {"ddl", "stamp"}
  BY <1>0, MigrateCovers
<1>2. seeding \in Seq(Statement) /\ ToSet(seeding) = IF v < 2 THEN Seeding ELSE {}
  <2>1. Seeding \subseteq Statement
    BY DEF Statement
  <2>2. /\ << <<"workspace">>, <<"backfill">>, <<"api_key">> >> \in Seq(Statement)
        /\ ToSet(<< <<"workspace">>, <<"backfill">>, <<"api_key">> >>) = Seeding
    BY <2>1, ToSetOfTuples DEF Seeding
  <2> QED BY <1>0, <2>2
<1>3. roles \in Seq(Statement) /\ ToSet(roles) = IF v < 4 THEN {<<"admin_roles">>} ELSE {}
  <2>1. <<"admin_roles">> \in Statement
    BY DEF Statement
  <2> QED BY <1>0, <2>1, ToSetOfTuples
<1>4. indexes \in Seq(Statement) /\ ToSet(indexes) = {<<"ddl", Indexes>>}
  <2>1. <<"ddl", Indexes>> \in Statement
    BY DEF Statement, Objects
  <2> QED BY <2>1, ToSetOfTuples
<1>5. 1 \in 1..Latest /\ 2 \in 1..Latest /\ 3 \in 1..Latest /\ 4 \in 1..Latest
  BY LatestIsFour
<1>6. Migrated(v) = From(1) \o From(2) \o From(3) \o From(4)
  BY DEF Migrated
<1>7. Statements(v) = Migrated(v) \o seeding \o roles \o indexes
  BY DEF Statements
<1> HIDE DEF From, seeding, roles, indexes
<1>8. /\ Migrated(v) \in Seq(Statement)
      /\ ToSet(Migrated(v)) = ToSet(From(1)) \cup ToSet(From(2)) \cup ToSet(From(3)) \cup ToSet(From(4))
  BY <1>1, <1>5, <1>6, ToSetConcats
<1>9. /\ Statements(v) \in Seq(Statement)
      /\ ToSet(Statements(v)) =
            ToSet(Migrated(v)) \cup ToSet(seeding) \cup ToSet(roles) \cup ToSet(indexes)
  BY <1>2, <1>3, <1>4, <1>7, <1>8, ToSetConcats
<1>10. ASSUME NEW o \in ObjectsOf(Latest) \ ObjectsOf(v) PROVE <<"ddl", o>> \in ToSet(Statements(v))
  <2>1. PICK k \in 1..Latest : o \in ToSet(Migrations[k])
    BY DEF ObjectsOf
  <2>2. k > v
    BY <2>1, LatestIsFour DEF ObjectsOf
  <2>3. k = 1 \/ k = 2 \/ k = 3 \/ k = 4
    BY LatestIsFour
  <2> QED BY <1>1, <1>8, <1>9, <2>1, <2>2, <2>3
<1>11. \A s \in ToSet(Migrated(v)) : s[1] \in {"ddl", "stamp"}
  BY <1>1, <1>5, <1>8
<1>12. <<"admin_roles">> \in ToSet(Statements(v)) <=> v < 4
  <2>1. <<"admin_roles">> \notin ToSet(Migrated(v)) \cup ToSet(indexes) \cup ToSet(seeding)
    <3>1. <<"admin_roles">>[1] = "admin_roles"
      OBVIOUS
    <3>2. <<"admin_roles">> \notin ToSet(Migrated(v))
      BY <1>11, <3>1
    <3>3. <<"admin_roles">> # <<"ddl", Indexes>> /\ <<"admin_roles">> \notin Seeding
      BY DEF Seeding
    <3> QED BY <1>2, <1>4, <3>2, <3>3
  <2> QED BY <1>3, <1>9, <2>1
<1>13. v < 2 => Seeding \subseteq ToSet(Statements(v))
  BY <1>2, <1>9
<1>14. ASSUME v = Latest PROVE <<"stamp", Latest>> \notin ToSet(Statements(v))
  <2>1. \A k \in 1..Latest : From(k) = <<>>
    BY <1>14, LatestIsFour DEF From
  <2>2. ToSet(Migrated(v)) = {} /\ ToSet(seeding) = {} /\ ToSet(roles) = {}
    BY <1>0, <1>2, <1>3, <1>5, <1>8, <1>14, <2>1, LatestIsFour
  <2>3. ToSet(Statements(v)) = {<<"ddl", Indexes>>}
    BY <1>4, <1>9, <2>2
  <2>4. <<"stamp", Latest>>[1] # <<"ddl", Indexes>>[1]
    OBVIOUS
  <2> QED BY <2>3, <2>4
<1> QED BY <1>9, <1>10, <1>12, <1>13, <1>14

-----------------------------------------------------------------------------
(* The invariant                                                           *)

Db == [objects : SUBSET Objects, version : 0..Latest, workspaces : SUBSET Workspace,
       unowned : BOOLEAN, defaultKey : BOOLEAN, keyed : SUBSET Workspace,
       users : [User -> Workspace \cup {None}], roles : SUBSET Row]

DatabaseType ==
    /\ dialect \in {"sqlite", "postgres"}
    /\ phase \in {"down", "migrating", "seeding", "templates", "serving"}
    /\ inTxn \in BOOLEAN
    /\ disk \in Db /\ conn \in Db

HandlerType ==
    /\ req \in [Request -> Handler] /\ tokens \subseteq Token
    /\ alone \subseteq Request /\ led \subseteq Workspace /\ cut \subseteq User

Ready(d) == "default" \in d.workspaces /\ d.defaultKey /\ ~d.unowned

(* A committed database has what its version says it has.                  *)
Upgraded(d) == ObjectsOf(d.version) \subseteq d.objects /\ (d.version >= 2 => Ready(d))

(* What init_db's connection does not see yet, it still has to run, but    *)
(* for what alembic drops; and what is committed is there, too.            *)
Unstamped == conn.version # Latest /\ <<"stamp", Latest>> \notin ToSet(todo)
Seated    == AdminOfAll(disk) \subseteq conn.roles \/ <<"admin_roles">> \in ToSet(todo)

Covered ==
    /\ todo \in Seq(Statement)
    /\ ~inTxn => conn = disk
    /\ \A o \in ObjectsOf(Latest) \ {<<"schema_version">>} :
          o \in conn.objects \/ <<"ddl", o>> \in ToSet(todo)
    /\ conn.version # 0 => <<"schema_version">> \in conn.objects
    /\ "default" \in conn.workspaces \/ <<"workspace">> \in ToSet(todo)
    /\ conn.defaultKey \/ <<"api_key">> \in ToSet(todo)
    /\ ~conn.unowned \/ <<"backfill">> \in ToSet(todo)
    /\ conn.users = disk.users
    /\ disk.roles \subseteq conn.roles /\ disk.workspaces \subseteq conn.workspaces
    /\ disk.version = Latest =>
          /\ conn.roles = disk.roles
          /\ <<"admin_roles">> \notin ToSet(todo) /\ <<"stamp", Latest>> \notin ToSet(todo)
    /\ disk.version # Latest => Seated \/ Unstamped

(* On PostgreSQL the tables of a former version stay what they are, and    *)
(* those of this one are complete but for the table that a start makes.    *)
Whole  == OrmObjects \ {TemplateTable} \subseteq disk.objects
Former == <<"schemas">> \in disk.objects /\ Outdated

DatabaseInv ==
    /\ Upgraded(disk)
    /\ dialect = "postgres" =>
          /\ disk.version = 0
          /\ Former \/ (~disk.unowned /\ (Whole \/ (disk.objects = {} /\ phase = "down")))
    /\ phase = "migrating" => IF dialect = "sqlite" THEN Covered ELSE todo = <<>>
    /\ phase # "migrating" => todo = <<>>
    /\ phase = "seeding" =>
          /\ "default" \in disk.workspaces /\ disk.defaultKey
          /\ dialect = "sqlite" => Whole /\ ~disk.unowned
    /\ phase \in {"templates", "serving"} => Whole /\ Ready(disk)
    /\ phase = "serving" => TemplateTable \in disk.objects

(* A workspace with users has had an admin, unless the registration of one *)
(* is on its way to it or died on it.                                      *)
Asking(u, w) ==
    \E r \in Request : req[r].step \in {"check", "grant"} /\ req[r].by = None
                        /\ req[r].row = <<u, w, "admin">>

Founded(w) == UsersOf(w) # {} => w \in led \/ \E u \in UsersOf(w) : u \in cut \/ Asking(u, w)

(* Who registers as a member does so because there was a user.             *)
Answered(r) ==
    req[r].step = "insert" =>
        req[r].by = None /\ (req[r].row[3] = "admin" \/ UsersOf(req[r].row[2]) # {})

(* Databases whose workspaces have had their admins: those of the latest   *)
(* version, and those that a start has come so far with.                   *)
Settled ==
    \/ phase \in {"templates", "serving"}
    \/ dialect = "sqlite" /\ phase = "seeding"
    \/ dialect = "postgres" /\ ~Former
    \/ disk.version = Latest

Grounded == Settled \/ (dialect = "sqlite" /\ phase = "migrating" /\ ~Seated)

(* An admin who is alone in removing roles leaves another one: himself, or *)
(* whoever let him in.                                                     *)
LeavesOne(r) ==
    /\ req[r].step = "remove"
    /\ \A q \in Request : Removing(q, req[r].row[2]) => q = r
    /\ req[r].row[3] = "admin" => \E v \in Admins(req[r].row[2]) : v # UserOf(req[r].row)

AccountsInv ==
    /\ phase # "serving" => req = [r \in Request |-> Idle] /\ alone = {}
    /\ \A row \in disk.roles : row[3] = "admin" => row[2] \in led
    /\ \A r \in Request : Answered(r)
    /\ ForeignKeys => \A u \in User : disk.users[u] # None => disk.users[u] \in disk.workspaces
    /\ Grounded => \A w \in Workspace : Founded(w)
    /\ \A r \in alone : LeavesOne(r)

Inv == DatabaseType /\ HandlerType /\ DatabaseInv /\ AccountsInv

-----------------------------------------------------------------------------
(* Databases                                                               *)

LEMMA RoleRows ==
    ASSUME NEW d \in Db
    PROVE  AdminOfAll(d) \in SUBSET Row
<1>1. ASSUME NEW u \in User, d.users[u] # None PROVE <<u, d.users[u], "admin">> \in Row
  BY <1>1 DEF Db, Row, Role
<1> QED BY <1>1 DEF AdminOfAll

(* What a statement does to a database, and that it takes nothing away.    *)
LEMMA AfterFacts ==
    ASSUME NEW d \in Db, NEW s \in Statement
    PROVE  LET a == After(s, d) IN
           /\ a \in Db
           /\ d.objects \subseteq a.objects /\ d.workspaces \subseteq a.workspaces
           /\ d.roles \subseteq a.roles /\ a.users = d.users
           /\ d.defaultKey => a.defaultKey
           /\ a.unowned => d.unowned
           /\ \A o : s = <<"ddl", o>> => o \in a.objects
           /\ s = <<"workspace">> => "default" \in a.workspaces
           /\ s = <<"api_key">> => a.defaultKey
           /\ s = <<"backfill">> => ~a.unowned
           /\ s = <<"admin_roles">> => AdminOfAll(d) \subseteq a.roles
           /\ s # <<"admin_roles">> => a.roles = d.roles
           /\ IsDdl(s) => a.version = d.version /\ a.workspaces = d.workspaces
                          /\ a.unowned = d.unowned
           /\ a.version = d.version \/ (s = <<"stamp", a.version>> /\ a.version # 0)
<1> USE DEF After, IsDdl, Db
<1>1. CASE \E o \in Objects : s = <<"ddl", o>>
  BY <1>1
<1>2. CASE \E v \in 1..Latest : s = <<"stamp", v>>
  <2>1. PICK v \in 1..Latest : s = <<"stamp", v>>
    BY <1>2
  <2>2. v \in 0..Latest /\ v # 0 /\ After(s, d) = [d EXCEPT !.version = v]
    BY <2>1, LatestIsFour
  <2> QED BY <2>1, <2>2
<1>3. CASE s = <<"workspace">>
  BY <1>3 DEF Workspace
<1>4. CASE s = <<"backfill">>
  BY <1>4
<1>5. CASE s = <<"api_key">>
  BY <1>5 DEF Workspace, SeedDefaultApiKey
<1>6. CASE s = <<"admin_roles">>
  BY <1>6, RoleRows
<1> QED BY <1>1, <1>2, <1>3, <1>4, <1>5, <1>6 DEF Statement, Seeding

LEMMA NothingAtZero == ObjectsOf(0) = {}
  BY DEF ObjectsOf

LEMMA ObjectsOfLatest == ASSUME NEW v \in 0..Latest PROVE ObjectsOf(v) \subseteq ObjectsOf(Latest)
  BY LatestIsFour DEF ObjectsOf

LEMMA VersionFound ==
    ASSUME DatabaseType, DatabaseInv PROVE Version = disk.version /\ disk.version \in 0..Latest
<1>1. disk.version \in 0..Latest
  BY DEF DatabaseType, Db
<1>2. CASE disk.version = 0
  BY <1>1, <1>2 DEF Version
<1>3. CASE disk.version # 0
  <2>1. <<"schema_version">> \in ToSet(Migrations[1])
    BY DEF Migrations, MigrationV1, ToSet
  <2>2. 1 \in 1..disk.version
    BY <1>1, <1>3, LatestIsFour
  <2>3. <<"schema_version">> \in ObjectsOf(disk.version)
    BY <2>1, <2>2 DEF ObjectsOf
  <2> QED BY <1>1, <2>3 DEF Version, DatabaseInv, Upgraded
<1> QED BY <1>1, <1>2, <1>3

-----------------------------------------------------------------------------
(* Starting                                                                *)

LEMMA FormerObjects ==
    /\ \A v \in 1..Latest : <<"schemas">> \in ObjectsOf(v)
    /\ \A v \in 1..3 : <<"schemas", "approval_policy_id">> \notin ObjectsOf(v)
    /\ <<"schemas", "approval_policy_id">> \in SchemaObjects
<1> DEFINE c == <<"schemas", "approval_policy_id">>
<1>1. <<"schemas">> \in ToSet(Migrations[1])
  BY DEF Migrations, MigrationV1, ToSet
<1>2. c \in ToSet(Migrations[4])
  BY DEF Migrations, MigrationV4, ToSet
<1>3. c \notin ToSet(MigrationV1)
  BY DEF MigrationV1, ToSet
<1>4. c \notin ToSet(MigrationV2)
  BY DEF MigrationV2, ToSet
<1>5. c \notin ToSet(MigrationV3)
  BY DEF MigrationV3, ToSet
<1>6. Migrations[1] = MigrationV1 /\ Migrations[2] = MigrationV2 /\ Migrations[3] = MigrationV3
  BY DEF Migrations
<1>7. \A v \in 1..Latest : 1 \in 1..v
  BY LatestIsFour
<1>8. \A v \in 1..3 : \A k \in 1..v : k = 1 \/ k = 2 \/ k = 3
  OBVIOUS
<1>9. c[1] = "schemas" /\ c # <<"schema_version">>
  OBVIOUS
<1>10. 4 \in 1..Latest
  BY LatestIsFour
<1> HIDE DEF c
<1>11. c \in SchemaObjects
  BY <1>2, <1>9, <1>10 DEF SchemaObjects, OrmObjects, ObjectsOf
<1>12. \A v \in 1..3 : c \notin ObjectsOf(v)
  BY <1>3, <1>4, <1>5, <1>6, <1>8 DEF ObjectsOf
<1>13. \A v \in 1..Latest : <<"schemas">> \in ObjectsOf(v)
  BY <1>1, <1>7 DEF ObjectsOf
<1> QED BY <1>11, <1>12, <1>13 DEF c

LEMMA OrmParts ==
    /\ OrmObjects \subseteq Objects
    /\ <<"schema_version">> \notin OrmObjects
    /\ TemplateTable # <<"schema_version">> /\ TemplateTable[1] # "schemas"
<1>1. TemplateTable # <<"schema_version">> /\ TemplateTable[1] # "schemas"
  BY DEF TemplateTable
<1> QED BY <1>1 DEF OrmObjects, Objects

LEMMA InitDatabase == ASSUME Init PROVE DatabaseType /\ DatabaseInv
<1>0. DatabaseInit
  BY DEF Init
<1>1. /\ dialect \in {"sqlite", "postgres"} /\ phase = "down" /\ todo = <<>> /\ conn = disk
      /\ inTxn \in BOOLEAN
  BY <1>0, DatabaseAssumption DEF DatabaseInit
<1>2. CASE disk = Empty
  <2>1. Empty \in Db /\ Empty.version = 0 /\ ~Empty.unowned /\ Empty.objects = {}
    BY LatestIsFour DEF Empty, Db
  <2> QED BY <1>1, <1>2, <2>1, NothingAtZero DEF DatabaseType, DatabaseInv, Upgraded
<1>3. CASE disk # Empty
  <2>1. PICK admins \in SUBSET User, v \in 1..Latest : disk = Used(v, admins)
    BY <1>0, <1>3 DEF DatabaseInit
  <2>2. v \in 0..Latest /\ 0 \in 0..Latest /\ ObjectsOf(v) \subseteq Objects
    BY ObjectsOfLatest, LatestIsFour DEF Objects
  <2>3. /\ disk.objects = IF dialect = "sqlite" THEN ObjectsOf(v) ELSE ObjectsOf(v) \ {<<"schema_version">>}
        /\ disk.version = IF dialect = "sqlite" THEN v ELSE 0
        /\ v >= 2 => disk.workspaces = {"default"} /\ disk.defaultKey /\ ~disk.unowned
    <3>1. /\ disk.objects = IF dialect = "sqlite" THEN ObjectsOf(v) ELSE ObjectsOf(v) \ {<<"schema_version">>}
          /\ disk.version = IF dialect = "sqlite" THEN v ELSE 0
      BY <2>1 DEF Used, Empty
    <3>2. ASSUME v >= 2 PROVE disk.workspaces = {"default"} /\ disk.defaultKey /\ ~disk.unowned
      <4>1. (v >= 2) = TRUE /\ (v = 1) = FALSE /\ ~(v < 2)
        BY <3>2
      <4> QED BY <2>1, <4>1 DEF Used, Empty
    <3> QED BY <3>1, <3>2
  <2>4. disk \in Db
    <3>1. {<<u, "default", IF u \in admins THEN "admin" ELSE "member">> :
              u \in IF v < 4 THEN {} ELSE User} \in SUBSET Row
      BY DEF Row, Workspace, Role
    <3>2. [u \in User |-> IF v < 2 THEN None ELSE "default"] \in [User -> Workspace \cup {None}]
      BY DEF Workspace
    <3>3. (v >= 2) \in BOOLEAN /\ (v = 1) \in BOOLEAN
      OBVIOUS
    <3>4. (IF dialect = "sqlite" THEN ObjectsOf(v) ELSE ObjectsOf(v) \ {<<"schema_version">>}) \in SUBSET Objects
      BY <2>2
    <3>5. (IF dialect = "sqlite" THEN v ELSE 0) \in 0..Latest
      BY <2>2
    <3> QED BY <2>1, <3>1, <3>2, <3>3, <3>4, <3>5 DEF Used, Empty, Db, Workspace
  <2>5. Upgraded(disk)
    BY <2>3, NothingAtZero DEF Upgraded, Ready
  <2>6. ASSUME dialect = "postgres" PROVE disk.version = 0 /\ (Former \/ (~disk.unowned /\ Whole))
    <3>0. dialect # "sqlite"
      BY <2>6
    <3>1. disk.version = 0 /\ disk.objects = ObjectsOf(v) \ {<<"schema_version">>}
      BY <2>3, <3>0
    <3>2. CASE v = 4
      <4>1. Whole
        BY <3>1, <3>2, LatestIsFour DEF Whole, OrmObjects
      <4> QED BY <2>3, <3>1, <3>2, <4>1
    <3>3. CASE v # 4
      <4>1. v \in 1..3
        BY <3>3, LatestIsFour
      <4>2. <<"schemas">> # <<"schema_version">>
        OBVIOUS
      <4>3. Former
        BY <3>1, <4>1, <4>2, FormerObjects DEF Former, Outdated
      <4> QED BY <3>1, <4>3
    <3> QED BY <3>2, <3>3
  <2> QED BY <1>1, <2>4, <2>5, <2>6 DEF DatabaseType, DatabaseInv
<1> QED BY <1>2, <1>3

(* What starting does to users and roles: it takes nothing, gives nothing  *)
(* to a database of the latest version, and makes all users admins or      *)
(* finds their workspaces founded when it comes to that version or serves. *)
StartKeeps ==
    /\ dialect' = dialect /\ disk'.users = disk.users
    /\ disk.roles \subseteq disk'.roles /\ disk.workspaces \subseteq disk'.workspaces
    /\ disk.version = Latest => disk'.roles = disk.roles
    /\ disk'.version = Latest => disk.version = Latest \/ AdminOfAll(disk) \subseteq disk'.roles
    /\ Grounded' => Grounded \/ AdminOfAll(disk) \subseteq disk'.roles

LEMMA StartSqliteCovers ==
    ASSUME DatabaseType, DatabaseInv, StartSqlite
    PROVE  DatabaseType' /\ DatabaseInv' /\ StartKeeps
<1>1. /\ phase = "down" /\ phase' = "migrating" /\ dialect = "sqlite" /\ todo' = Statements(disk.version)
      /\ conn' = disk /\ UNCHANGED <<dialect, disk>> /\ inTxn' = FALSE
  BY VersionFound DEF StartSqlite
<1>2. disk.version \in 0..Latest /\ disk.version \in Nat
  BY VersionFound, LatestIsFour
<1>3. /\ todo' \in Seq(Statement)
      /\ \A o \in ObjectsOf(Latest) : o \in disk.objects \/ <<"ddl", o>> \in ToSet(todo')
      /\ disk.version < 2 => Seeding \subseteq ToSet(todo')
      /\ <<"admin_roles">> \in ToSet(todo') <=> disk.version < 4
      /\ disk.version = Latest => <<"stamp", Latest>> \notin ToSet(todo')
  BY <1>1, <1>2, StatementsCover DEF DatabaseInv, Upgraded
<1>4. Ready(disk) \/ Seeding \subseteq ToSet(todo')
  BY <1>2, <1>3 DEF DatabaseInv, Upgraded
<1>5. disk.version # 0 => <<"schema_version">> \in disk.objects
  BY VersionFound DEF Version
<1>6. disk.version # Latest => Seated'
  BY <1>1, <1>2, <1>3, LatestIsFour DEF Seated
<1>7. Covered'
  BY <1>1, <1>2, <1>3, <1>4, <1>5, <1>6, LatestIsFour DEF Covered, Ready, Seeding
<1>8. Grounded' => Grounded
  BY <1>1, <1>6 DEF Grounded, Settled
<1> QED BY <1>1, <1>7, <1>8 DEF DatabaseType, DatabaseInv, StartKeeps, Upgraded, Ready

LEMMA ExecuteCovers ==
    ASSUME DatabaseType, DatabaseInv, Execute PROVE DatabaseType' /\ DatabaseInv' /\ StartKeeps
<1> DEFINE s == Head(todo)
<1>1. /\ phase = "migrating" /\ phase' = "migrating" /\ todo # <<>> /\ dialect' = dialect
      /\ todo' = Tail(todo) /\ conn' = After(s, conn) /\ ~Refused(s, conn)
      /\ inTxn' = (inTxn \/ ~IsDdl(s)) /\ disk' = IF inTxn' THEN disk ELSE conn'
  BY DEF Execute
<1>2. dialect = "sqlite" /\ Covered
  BY <1>1 DEF DatabaseInv, DatabaseType
<1>3. s \in Statement /\ todo' \in Seq(Statement) /\ ToSet(todo) = {s} \cup ToSet(todo')
  BY <1>1, <1>2, ToSetTail DEF Covered
<1>4. disk \in Db /\ conn \in Db
  BY DEF DatabaseType
<1> DEFINE a == After(s, conn)
<1>5. /\ a \in Db
      /\ conn.objects \subseteq a.objects /\ conn.workspaces \subseteq a.workspaces
      /\ conn.roles \subseteq a.roles /\ a.users = conn.users
      /\ conn.defaultKey => a.defaultKey
      /\ a.unowned => conn.unowned
      /\ \A o : s = <<"ddl", o>> => o \in a.objects
      /\ s = <<"workspace">> => "default" \in a.workspaces
      /\ s = <<"api_key">> => a.defaultKey
      /\ s = <<"backfill">> => ~a.unowned
      /\ s = <<"admin_roles">> => AdminOfAll(conn) \subseteq a.roles
      /\ s # <<"admin_roles">> => a.roles = conn.roles
      /\ IsDdl(s) => a.version = conn.version /\ a.workspaces = conn.workspaces
                     /\ a.unowned = conn.unowned
      /\ a.version = conn.version \/ (s = <<"stamp", a.version>> /\ a.version # 0)
  BY <1>3, <1>4, AfterFacts
<1>6. AdminOfAll(conn) = AdminOfAll(disk)
  BY <1>2 DEF Covered, AdminOfAll
<1>7. conn' = a
  BY <1>1
<1>8. a.version # 0 => <<"schema_version">> \in a.objects
  <2>1. CASE a.version = conn.version
    BY <1>2, <1>5, <2>1 DEF Covered
  <2>2. CASE s = <<"stamp", a.version>>
    <3>1. s[1] = "stamp"
      BY <2>2
    <3>2. <<"schema_version">> \in conn.objects
      BY <1>1, <3>1 DEF Refused
    <3> QED BY <1>5, <3>2
  <2> QED BY <1>5, <2>1, <2>2
<1> HIDE DEF s, a
<1>9. \/ disk' = disk /\ inTxn'
      \/ /\ disk' = conn' /\ ~inTxn' /\ IsDdl(s) /\ conn = disk
         /\ s # <<"admin_roles">>
  <2>1. CASE inTxn'
    BY <1>1, <2>1
  <2>2. CASE ~inTxn'
    <3>1. ~inTxn /\ IsDdl(s)
      BY <1>1, <2>2
    <3>2. s # <<"admin_roles">>
      BY <3>1 DEF IsDdl
    <3> QED BY <1>1, <1>2, <2>2, <3>1, <3>2 DEF Covered
  <2> QED BY <2>1, <2>2
<1>10. /\ disk'.version = disk.version /\ disk'.users = disk.users
       /\ disk'.roles = disk.roles /\ disk'.unowned = disk.unowned
       /\ disk.objects \subseteq disk'.objects /\ disk.workspaces \subseteq disk'.workspaces
       /\ (disk.defaultKey => disk'.defaultKey) /\ disk' \in Db
  BY <1>4, <1>5, <1>7, <1>9
<1>11. AdminOfAll(disk') = AdminOfAll(disk)
  BY <1>10 DEF AdminOfAll
<1>12. Seated => Seated'
  BY <1>3, <1>5, <1>6, <1>7, <1>11 DEF Seated
<1>13. Unstamped => Unstamped'
  BY <1>3, <1>5, <1>7 DEF Unstamped
<1>14. Covered'
  <2>1. \A o \in ObjectsOf(Latest) \ {<<"schema_version">>} : o \in a.objects \/ <<"ddl", o>> \in ToSet(todo')
    BY <1>2, <1>3, <1>5 DEF Covered
  <2>2. /\ "default" \in a.workspaces \/ <<"workspace">> \in ToSet(todo')
        /\ a.defaultKey \/ <<"api_key">> \in ToSet(todo')
        /\ ~a.unowned \/ <<"backfill">> \in ToSet(todo')
    BY <1>2, <1>3, <1>5 DEF Covered
  <2>3. disk.version = Latest =>
          /\ a.roles = disk.roles
          /\ <<"admin_roles">> \notin ToSet(todo') /\ <<"stamp", Latest>> \notin ToSet(todo')
    BY <1>2, <1>3, <1>5 DEF Covered
  <2>4. disk.version # Latest => Seated' \/ Unstamped'
    BY <1>2, <1>12, <1>13 DEF Covered
  <2>5. a.users = disk.users /\ disk'.workspaces \subseteq a.workspaces /\ disk.roles \subseteq a.roles
    BY <1>2, <1>5, <1>7, <1>9 DEF Covered
  <2>6. ~inTxn' => conn' = disk'
    BY <1>9
  <2> QED BY <1>3, <1>7, <1>8, <1>10, <2>1, <2>2, <2>3, <2>4, <2>5, <2>6 DEF Covered
<1>15. Upgraded(disk')
  BY <1>10 DEF DatabaseInv, Upgraded, Ready
<1>16. DatabaseType'
  <2>1. inTxn' \in BOOLEAN
    BY <1>1
  <2> QED BY <1>1, <1>5, <1>7, <1>10, <2>1 DEF DatabaseType
<1>17. Grounded' => Grounded
  BY <1>1, <1>2, <1>10, <1>12 DEF Grounded, Settled
<1>18. StartKeeps
  BY <1>1, <1>10, <1>17 DEF StartKeeps
<1> QED BY <1>1, <1>2, <1>14, <1>15, <1>16, <1>18 DEF DatabaseInv

LEMMA CommitReady ==
    ASSUME DatabaseType, DatabaseInv, CommitMigration
    PROVE  DatabaseType' /\ DatabaseInv' /\ StartKeeps
<1>1. /\ phase = "migrating" /\ dialect = "sqlite" /\ todo = <<>> /\ phase' = "seeding"
      /\ disk' = conn /\ conn' = conn /\ UNCHANGED <<dialect, todo>> /\ inTxn' = FALSE
  BY DEF CommitMigration
<1>2. Covered /\ ToSet(todo) = {}
  BY <1>1 DEF DatabaseInv, ToSet
<1>3. ObjectsOf(Latest) \ {<<"schema_version">>} \subseteq conn.objects /\ Ready(conn)
  BY <1>2 DEF Covered, Ready
<1>4. conn \in Db /\ conn.version \in 0..Latest
  BY DEF DatabaseType, Db
<1>5. Upgraded(conn)
  <2>1. CASE conn.version = 0
    BY <1>3, <2>1, NothingAtZero DEF Upgraded
  <2>2. CASE conn.version # 0
    <3>1. <<"schema_version">> \in conn.objects
      BY <1>2, <2>2 DEF Covered
    <3>2. ObjectsOf(Latest) \subseteq conn.objects
      BY <1>3, <3>1
    <3> QED BY <1>3, <1>4, <3>2, ObjectsOfLatest DEF Upgraded
  <2> QED BY <2>1, <2>2
<1>6. Whole'
  BY <1>1, <1>3 DEF Whole, OrmObjects
<1>7. DatabaseType' /\ DatabaseInv'
  BY <1>1, <1>3, <1>4, <1>5, <1>6 DEF DatabaseType, DatabaseInv, Ready
<1>8. /\ disk.roles \subseteq disk'.roles /\ disk.workspaces \subseteq disk'.workspaces
      /\ disk'.users = disk.users
      /\ disk.version = Latest => disk'.roles = disk.roles
  BY <1>1, <1>2 DEF Covered
<1>9. disk'.version = Latest => disk.version = Latest \/ AdminOfAll(disk) \subseteq disk'.roles
  BY <1>1, <1>2 DEF Covered, Seated, Unstamped
<1>10. Grounded \/ AdminOfAll(disk) \subseteq disk'.roles
  BY <1>1, <1>2 DEF Grounded, Seated
<1> QED BY <1>1, <1>7, <1>8, <1>9, <1>10 DEF StartKeeps

LEMMA StartPostgresReady ==
    ASSUME DatabaseType, DatabaseInv, StartPostgres
    PROVE  DatabaseType' /\ DatabaseInv' /\ StartKeeps
<1>1. /\ disk' = [disk EXCEPT !.objects = @ \cup NewTables] /\ phase = "down" /\ phase' = "migrating"
      /\ conn' = disk' /\ UNCHANGED <<dialect, todo, inTxn>> /\ dialect = "postgres"
  BY DEF StartPostgres
<1>2. disk \in Db /\ todo = <<>> /\ disk.version = 0 /\ inTxn \in BOOLEAN
  BY <1>1 DEF DatabaseType, DatabaseInv
<1>3. NewTables \subseteq Objects
  BY OrmParts DEF NewTables
<1>4. /\ disk' \in Db /\ disk'.objects = disk.objects \cup NewTables /\ disk'.version = 0
      /\ disk'.unowned = disk.unowned /\ disk'.users = disk.users /\ disk'.roles = disk.roles
      /\ disk'.workspaces = disk.workspaces
  BY <1>1, <1>2, <1>3 DEF Db
<1>5. Former => Former'
  <2> SUFFICES ASSUME Former PROVE Former'
    OBVIOUS
  <2>1. PICK o \in SchemaObjects : o \notin disk.objects
    BY DEF Former, Outdated
  <2>2. <<o[1]>> \in disk.objects
    BY DEF Former, SchemaObjects
  <2>3. o \notin disk'.objects
    BY <1>4, <2>1, <2>2 DEF NewTables
  <2> QED BY <1>4, <2>1, <2>3 DEF Former, Outdated
<1>6. Whole \/ disk.objects = {} => Whole'
  BY <1>4 DEF Whole, NewTables
<1>7. Upgraded(disk')
  BY <1>4, NothingAtZero DEF Upgraded
<1>8. Grounded' => Grounded
  BY <1>1, <1>4, <1>5, LatestIsFour DEF Grounded, Settled
<1>9. DatabaseInv'
  BY <1>1, <1>2, <1>4, <1>5, <1>6, <1>7 DEF DatabaseInv
<1>10. DatabaseType'
  BY <1>1, <1>2, <1>4 DEF DatabaseType
<1> QED BY <1>1, <1>2, <1>4, <1>8, <1>9, <1>10, LatestIsFour DEF StartKeeps

LEMMA SeedPostgresReady ==
    ASSUME DatabaseType, DatabaseInv, SeedPostgres
    PROVE  DatabaseType' /\ DatabaseInv' /\ StartKeeps
<1> DEFINE d == [disk EXCEPT !.workspaces = @ \cup {"default"}]
<1>1. /\ disk' = SeedDefaultApiKey(d) /\ phase' = "seeding" /\ phase = "migrating"
      /\ conn' = disk' /\ UNCHANGED <<dialect, todo, inTxn>> /\ dialect = "postgres"
  BY DEF SeedPostgres, After, IsDdl
<1>2. disk \in Db /\ todo = <<>> /\ disk.version = 0 /\ inTxn \in BOOLEAN
  BY <1>1 DEF DatabaseType, DatabaseInv
<1>3. /\ d \in Db /\ "default" \in d.workspaces /\ disk.workspaces \subseteq d.workspaces
      /\ d.version = 0 /\ d.objects = disk.objects /\ d.unowned = disk.unowned
      /\ d.users = disk.users /\ d.roles = disk.roles
  BY <1>2 DEF Db, Workspace
<1> HIDE DEF d
<1>4. /\ disk' \in Db /\ disk'.defaultKey /\ disk'.workspaces = d.workspaces
      /\ disk'.version = 0 /\ disk'.objects = disk.objects /\ disk'.unowned = disk.unowned
      /\ disk'.users = disk.users /\ disk'.roles = disk.roles
  BY <1>1, <1>3 DEF SeedDefaultApiKey, Db, Workspace
<1>5. Former' = Former /\ Whole' = Whole
  BY <1>4 DEF Former, Outdated, Whole
<1>6. Upgraded(disk')
  BY <1>4, NothingAtZero DEF Upgraded
<1>7. Grounded' => Grounded
  BY <1>1, <1>4, <1>5, LatestIsFour DEF Grounded, Settled
<1>8. DatabaseInv'
  BY <1>1, <1>2, <1>3, <1>4, <1>5, <1>6 DEF DatabaseInv
<1>9. DatabaseType'
  BY <1>1, <1>2, <1>4 DEF DatabaseType
<1> QED BY <1>1, <1>2, <1>3, <1>4, <1>7, <1>8, <1>9, LatestIsFour DEF StartKeeps

LEMMA SeedStoreReady ==
    ASSUME DatabaseType, DatabaseInv, SeedStore PROVE DatabaseType' /\ DatabaseInv' /\ StartKeeps
<1>1. /\ phase = "seeding" /\ phase' = "templates" /\ ~Outdated
      /\ UNCHANGED <<dialect, todo, conn, inTxn, disk>>
  BY DEF SeedStore
<1>2. dialect = "postgres" => ~Former /\ Whole /\ ~disk.unowned
  BY <1>1 DEF Former, DatabaseInv
<1>3. Whole /\ Ready(disk)
  BY <1>1, <1>2 DEF DatabaseInv, DatabaseType, Ready
<1>4. Grounded
  BY <1>1, <1>2 DEF Grounded, Settled, DatabaseType
<1>5. Whole' /\ Ready(disk') /\ Upgraded(disk')
  BY <1>1, <1>3 DEF Whole, DatabaseInv
<1> QED BY <1>1, <1>2, <1>4, <1>5 DEF DatabaseType, DatabaseInv, StartKeeps

LEMMA SeedCuratedReady ==
    ASSUME DatabaseType, DatabaseInv, SeedCurated PROVE DatabaseType' /\ DatabaseInv' /\ StartKeeps
<1>1. /\ disk' = [disk EXCEPT !.objects = @ \cup {TemplateTable}] /\ phase = "templates" /\ phase' = "serving"
      /\ conn' = disk' /\ UNCHANGED <<dialect, todo, inTxn>>
  BY DEF SeedCurated
<1>2. disk \in Db /\ TemplateTable \in Objects /\ Whole /\ Ready(disk) /\ Upgraded(disk) /\ todo = <<>>
  BY <1>1 DEF DatabaseType, DatabaseInv, Objects
<1>3. /\ disk' \in Db /\ disk'.version = disk.version /\ disk'.objects = disk.objects \cup {TemplateTable}
      /\ disk'.unowned = disk.unowned /\ disk'.users = disk.users /\ disk'.roles = disk.roles
      /\ disk'.workspaces = disk.workspaces /\ disk'.defaultKey = disk.defaultKey
  BY <1>1, <1>2 DEF Db
<1>4. Upgraded(disk') /\ Ready(disk') /\ Whole'
  BY <1>2, <1>3 DEF Upgraded, Ready, Whole
<1>5. Grounded
  BY <1>1 DEF Grounded, Settled
<1> QED BY <1>1, <1>2, <1>3, <1>4, <1>5 DEF DatabaseType, DatabaseInv, StartKeeps, Ready

LEMMA DieReady ==
    ASSUME DatabaseType, DatabaseInv, Die
    PROVE  /\ DatabaseType' /\ DatabaseInv' /\ StartKeeps
           /\ Grounded' => Grounded
<1>1. /\ phase' = "down" /\ todo' = <<>> /\ conn' = disk /\ inTxn' = FALSE
      /\ dialect' = dialect /\ disk' = disk
  BY DEF Die
<1>2. Whole' = Whole /\ Former' = Former /\ Upgraded(disk')
  BY <1>1 DEF Whole, Former, Outdated, DatabaseInv
<1>3. Grounded' => Grounded
  BY <1>1, <1>2 DEF Grounded, Settled
<1> QED BY <1>1, <1>2, <1>3 DEF DatabaseType, DatabaseInv, StartKeeps

LEMMA AlembicReady ==
    ASSUME DatabaseType, DatabaseInv, AlembicUpgrade
    PROVE  /\ DatabaseType' /\ DatabaseInv'
           /\ disk'.users = disk.users /\ disk'.roles = disk.roles /\ disk'.version = 0
           /\ disk'.workspaces = disk.workspaces
           /\ Grounded' => Grounded
<1>1. /\ disk' = [disk EXCEPT !.objects = @ \ {<<"schema_version">>}, !.version = 0]
      /\ ~inTxn /\ conn' = disk' /\ UNCHANGED <<dialect, phase, todo, inTxn>> /\ dialect = "sqlite"
  BY DEF AlembicUpgrade
<1>2. /\ disk' \in Db /\ disk'.version = 0 /\ disk'.users = disk.users /\ disk'.roles = disk.roles
      /\ disk'.workspaces = disk.workspaces /\ disk'.objects = disk.objects \ {<<"schema_version">>}
      /\ disk'.unowned = disk.unowned /\ disk'.defaultKey = disk.defaultKey
  <2> DEFINE kept == disk.objects \ {<<"schema_version">>}
  <2>1. disk \in Db
    BY DEF DatabaseType
  <2>2. kept \in SUBSET Objects /\ 0 \in 0..Latest
    BY <2>1, LatestIsFour DEF Db
  <2>3. disk' = [disk EXCEPT !.objects = kept, !.version = 0]
    BY <1>1
  <2> HIDE DEF kept
  <2>4. /\ disk' \in Db /\ disk'.version = 0 /\ disk'.users = disk.users /\ disk'.roles = disk.roles
        /\ disk'.workspaces = disk.workspaces /\ disk'.objects = kept
        /\ disk'.unowned = disk.unowned /\ disk'.defaultKey = disk.defaultKey
    BY <2>1, <2>2, <2>3 DEF Db
  <2> QED BY <2>4 DEF kept
<1>3. Upgraded(disk')
  BY <1>2, NothingAtZero DEF Upgraded
<1>4. /\ Whole => Whole'
      /\ TemplateTable \in disk.objects => TemplateTable \in disk'.objects
      /\ Ready(disk) => Ready(disk')
  BY <1>2, OrmParts DEF Whole, Ready
<1>5. ASSUME phase = "migrating" PROVE Covered' /\ Seated' = Seated
  <2>1. Covered /\ conn = disk
    BY <1>1, <1>5 DEF DatabaseInv, Covered
  <2>2. Seated' = Seated
    BY <1>1, <1>2, <2>1 DEF Seated, AdminOfAll
  <2>3. Seated' \/ Unstamped'
    <3>1. conn'.version # Latest
      BY <1>1, <1>2, LatestIsFour
    <3>2. <<"stamp", Latest>> \notin ToSet(todo) \/ Seated
      BY <2>1 DEF Covered, Unstamped
    <3> QED BY <1>1, <2>2, <3>1, <3>2 DEF Unstamped
  <2>4. disk'.version # Latest
    BY <1>2, LatestIsFour
  <2>5. \A o \in ObjectsOf(Latest) \ {<<"schema_version">>} :
          o \in disk'.objects \/ <<"ddl", o>> \in ToSet(todo)
    BY <1>2, <2>1 DEF Covered
  <2> QED BY <1>1, <1>2, <2>1, <2>2, <2>3, <2>4, <2>5 DEF Covered
<1>6. Grounded' => Grounded
  BY <1>1, <1>2, <1>5, LatestIsFour DEF Grounded, Settled
<1>7. DatabaseType'
  BY <1>1, <1>2 DEF DatabaseType
<1>8. DatabaseInv'
  BY <1>1, <1>2, <1>3, <1>4, <1>5 DEF DatabaseInv, Ready
<1> QED BY <1>2, <1>6, <1>7, <1>8

LEMMA StartUpReady ==
    ASSUME DatabaseType, DatabaseInv, StartUp PROVE DatabaseType' /\ DatabaseInv' /\ StartKeeps
  BY StartSqliteCovers, ExecuteCovers, CommitReady, StartPostgresReady, SeedPostgresReady, SeedStoreReady,
     SeedCuratedReady, DieReady DEF StartUp, StartFails

LEMMA Triple ==
    ASSUME NEW S, NEW a \in S, NEW b \in S, NEW c \in S
    PROVE  <<a, b, c>> \in Seq(S) /\ Len(<<a, b, c>>) = 3
  OBVIOUS

-----------------------------------------------------------------------------
(* Requests: what they do to the database                                  *)

LEMMA RowParts ==
    ASSUME NEW row \in Row
    PROVE  /\ row = <<row[1], row[2], row[3]>>
           /\ row[1] \in User /\ row[2] \in Workspace /\ row[3] \in Role
           /\ UserOf(row) = row[1]
  BY DEF Row, UserOf

LEMMA HandlerParts ==
    ASSUME HandlerType, NEW r \in Request, req[r].step # "idle"
    PROVE  /\ req[r].row \in Row /\ req[r].by \in {"api-key", None}
           /\ req[r].step \in {"insert", "check", "grant", "remove"}
           /\ req[r] = [step |-> req[r].step, row |-> req[r].row, by |-> req[r].by]
  BY DEF HandlerType, Handler, Idle

LEMMA AppendToPair ==
    ASSUME NEW a, NEW b, NEW c PROVE Append(<<a, b>>, c) = <<a, b, c>>
<1> DEFINE S == {a, b, c}
           s == <<a, b>>
           t == Append(s, c)
<1>1. s \in Seq(S) /\ Len(s) = 2 /\ s[1] = a /\ s[2] = b /\ c \in S
  OBVIOUS
<1> HIDE DEF s, S
<1>2. t \in Seq(S) /\ Len(t) = 3 /\ t[1] = a /\ t[2] = b /\ t[3] = c
  <2>1. t \in Seq(S) /\ Len(t) = Len(s) + 1
    BY <1>1, AppendProperties
  <2>2. t[Len(s) + 1] = c
    BY <1>1, AppendProperties
  <2>3. \A i \in 1..Len(s) : t[i] = s[i]
    BY <1>1, AppendProperties
  <2> HIDE DEF t
  <2> QED BY <1>1, <2>1, <2>2, <2>3
<1> HIDE DEF t
<1>3. <<a, b, c>> \in Seq(S) /\ Len(<<a, b, c>>) = 3
  BY Triple DEF S
<1>4. t = <<a, b, c>>
  BY <1>2, <1>3
<1> QED BY <1>4 DEF t, s

LEMMA AppliedRow ==
    ASSUME NEW p \in Applicant, NEW x \in Role PROVE Append(p, x) = <<p[1], p[2], x>> /\ Append(p, x) \in Row
<1>1. PICK u \in User, w \in Workspace : p = <<u, w>>
  BY AccountsAssumption
<1>2. Append(<<u, w>>, x) = <<u, w, x>>
  BY AppendToPair
<1> QED BY <1>1, <1>2 DEF Row

LEMMA ActorParts ==
    ASSUME DatabaseType, HandlerType, NEW a \in Actors
    PROVE  a.ws \in Workspace
  BY DEF Actors, KeyUsers, DatabaseType, HandlerType, Token, Db

(* A request changes users, roles, keys and workspaces only, and leaves    *)
(* the default workspace in place.                                         *)
RequestKeeps ==
    /\ disk' \in Db
    /\ disk'.objects = disk.objects /\ disk'.version = disk.version /\ disk'.unowned = disk.unowned
    /\ disk'.defaultKey = disk.defaultKey
    /\ "default" \in disk.workspaces => "default" \in disk'.workspaces

LEMMA SameDisk == ASSUME DatabaseType, disk' = disk PROVE RequestKeeps
  BY DEF DatabaseType, RequestKeeps

LEMMA RolesOnly ==
    ASSUME DatabaseType, NEW s \in SUBSET Row, disk' = [disk EXCEPT !.roles = s]
    PROVE  /\ RequestKeeps /\ disk'.roles = s
           /\ disk'.users = disk.users /\ disk'.workspaces = disk.workspaces
  BY DEF DatabaseType, RequestKeeps, Db

LEMMA UsersOnly ==
    ASSUME DatabaseType, NEW s \in [User -> Workspace \cup {None}], disk' = [disk EXCEPT !.users = s]
    PROVE  /\ RequestKeeps /\ disk'.users = s
           /\ disk'.roles = disk.roles /\ disk'.workspaces = disk.workspaces
  BY DEF DatabaseType, RequestKeeps, Db

LEMMA KeysOnly ==
    ASSUME DatabaseType, NEW s \in SUBSET Workspace, disk' = [disk EXCEPT !.keyed = s]
    PROVE  /\ RequestKeeps /\ disk'.users = disk.users
           /\ disk'.roles = disk.roles /\ disk'.workspaces = disk.workspaces
  BY DEF DatabaseType, RequestKeeps, Db

LEMMA WorkspacesOnly ==
    ASSUME DatabaseType, NEW s \in SUBSET Workspace, disk' = [disk EXCEPT !.workspaces = s],
           "default" \in disk.workspaces => "default" \in s
    PROVE  /\ RequestKeeps /\ disk'.users = disk.users
           /\ disk'.roles = disk.roles /\ disk'.workspaces = s
  BY DEF DatabaseType, RequestKeeps, Db

-----------------------------------------------------------------------------
(* Requests: who has an admin                                              *)

(* What every part of a request does to the invariant, once serving.       *)
Kept == RequestKeeps /\ HandlerType' /\ (phase' = "serving" => AccountsInv')

(* The removals that were alone stay so when no other one starts, their    *)
(* handlers stay what they are and no admin's role is taken.               *)
LEMMA AloneKeeps ==
    ASSUME Inv, alone' \subseteq alone, disk.roles \subseteq disk'.roles,
           \A r \in alone : req'[r] = req[r],
           \A q \in Request : req'[q].step = "remove" => req'[q] = req[q]
    PROVE  \A r \in alone' : LeavesOne(r)'
<1> SUFFICES ASSUME NEW r \in alone' PROVE LeavesOne(r)'
  OBVIOUS
<1>1. LeavesOne(r) /\ req'[r] = req[r]
  BY DEF Inv, AccountsInv
<1>2. \A q \in Request : Removing(q, req[r].row[2])' => Removing(q, req[r].row[2])
  BY <1>1 DEF Removing
<1>4. \A q \in Request : req'[q].step = "remove" /\ req'[q].row[2] = req'[r].row[2] => q = r
  BY <1>1, <1>2 DEF LeavesOne, Removing
<1>5. ASSUME req'[r].row[3] = "admin"
      PROVE  \E v \in User : <<v, req'[r].row[2], "admin">> \in disk'.roles /\ v # UserOf(req'[r].row)
  <2>1. PICK v \in Admins(req[r].row[2]) : v # UserOf(req[r].row)
    BY <1>1, <1>5 DEF LeavesOne
  <2> QED BY <1>1, <2>1 DEF Admins
<1> QED BY <1>1, <1>4, <1>5 DEF LeavesOne, Removing, Admins

(* A request that changes no user, starts no registration and gives no     *)
(* role: it may take roles, keys and workspaces that nobody is in.         *)
LEMMA TakingKeeps ==
    ASSUME Inv, phase = "serving", dialect' = dialect, RequestKeeps, HandlerType',
           \A r \in Request : req'[r] # req[r] => req[r].step \notin {"check", "grant"}
                                                  /\ req'[r].step # "insert",
           led' = led, cut' = cut, \A r \in alone' : LeavesOne(r)',
           disk'.users = disk.users, disk'.roles \subseteq disk.roles,
           ForeignKeys => \A u \in User : disk.users[u] # None => disk.users[u] \in disk'.workspaces
    PROVE  Kept
<1>1. /\ \A w \in Workspace : Founded(w)
      /\ \A row \in disk.roles : row[3] = "admin" => row[2] \in led
      /\ \A r \in Request : Answered(r)
  BY DEF Inv, AccountsInv, Grounded, Settled
<1>2. ASSUME NEW w \in Workspace PROVE Founded(w)'
  <2>1. Founded(w) /\ UsersOf(w)' = UsersOf(w)
    BY <1>1 DEF UsersOf
  <2>2. \A u : Asking(u, w) => Asking(u, w)'
    BY DEF Asking
  <2>3. CASE UsersOf(w) = {} \/ w \in led
    BY <2>1, <2>3 DEF Founded
  <2>4. CASE \E u \in UsersOf(w) : u \in cut \/ Asking(u, w)
    BY <2>1, <2>2, <2>4 DEF Founded
  <2> QED BY <2>1, <2>3, <2>4 DEF Founded
<1>3. \A r \in Request : Answered(r)'
  BY <1>1 DEF Answered, UsersOf
<1>4. ForeignKeys' => \A u \in User : disk'.users[u] # None => disk'.users[u] \in disk'.workspaces
  BY DEF ForeignKeys
<1> QED BY <1>1, <1>2, <1>3, <1>4 DEF Kept, AccountsInv

(* A request that changes only one handler, which is not on its way to     *)
(* give a role and did not lose its way to one.                            *)
LEMMA HandlerKeeps ==
    ASSUME Inv, phase = "serving", dialect' = dialect, disk' = disk, tokens' = tokens,
           alone' = alone, led' = led, cut' = cut,
           NEW r \in Request, NEW h \in Handler, req' = [req EXCEPT ![r] = h],
           req[r].step # "remove", h.step # "remove",
           h.step = "insert" => h.by = None /\ (h.row[3] = "admin" \/ UsersOf(h.row[2]) # {}),
           \A u \in User, w \in Workspace :
              /\ req[r].step \in {"check", "grant"} /\ req[r].by = None
              /\ req[r].row = <<u, w, "admin">> /\ u \in UsersOf(w)
              => w \in led \/ (h.step \in {"check", "grant"} /\ h.by = None /\ h.row = req[r].row)
    PROVE  Kept
<1>1. RequestKeeps /\ HandlerType'
  BY SameDisk DEF Inv, HandlerType
<1>2. \A q \in Request : req'[q] = IF q = r THEN h ELSE req[q]
  BY DEF Inv, HandlerType
<1>3. /\ \A row \in disk'.roles : row[3] = "admin" => row[2] \in led'
      /\ ForeignKeys' => \A u \in User : disk'.users[u] # None => disk'.users[u] \in disk'.workspaces
  BY DEF Inv, AccountsInv, ForeignKeys
<1>4. \A q \in Request : Answered(q)'
  BY <1>2 DEF Inv, AccountsInv, Answered, UsersOf
<1>5. ASSUME NEW w \in Workspace PROVE Founded(w)'
  <2>1. Founded(w) /\ UsersOf(w)' = UsersOf(w)
    BY DEF Inv, AccountsInv, UsersOf, Grounded, Settled
  <2>2. ASSUME NEW u \in UsersOf(w), Asking(u, w) PROVE w \in led \/ Asking(u, w)'
    <3>1. PICK q \in Request : /\ req[q].step \in {"check", "grant"} /\ req[q].by = None
                               /\ req[q].row = <<u, w, "admin">>
      BY <2>2 DEF Asking
    <3>2. u \in User
      BY DEF UsersOf
    <3>3. CASE q = r
      <4>1. w \in led \/ /\ req'[r].step \in {"check", "grant"} /\ req'[r].by = None
                         /\ req'[r].row = <<u, w, "admin">>
        BY <1>2, <3>1, <3>2, <3>3
      <4> QED BY <4>1 DEF Asking
    <3>4. CASE q # r
      <4>1. req'[q] = req[q]
        BY <1>2, <3>4
      <4> QED BY <3>1, <4>1 DEF Asking
    <3> QED BY <3>3, <3>4
  <2>3. CASE UsersOf(w) = {}
    BY <2>1, <2>3 DEF Founded
  <2>4. CASE w \in led
    BY <2>4 DEF Founded
  <2>5. CASE \E u \in UsersOf(w) : u \in cut \/ Asking(u, w)
    BY <2>1, <2>2, <2>5 DEF Founded
  <2> QED BY <2>1, <2>3, <2>4, <2>5 DEF Founded
<1>6. \A q \in alone : q \in Request /\ req[q].step = "remove"
  BY DEF Inv, HandlerType, AccountsInv, LeavesOne
<1>7. \A q \in alone' : LeavesOne(q)'
  BY <1>2, <1>6, AloneKeeps
<1> QED BY <1>1, <1>3, <1>4, <1>5, <1>7 DEF Kept, AccountsInv

LEMMA IdleIsHandler == Idle \in Handler /\ Idle.step = "idle" /\ Idle.by = None
  BY DEF Idle, Handler

LEMMA RegisterReadKeeps ==
    ASSUME Inv, phase = "serving", dialect' = dialect, NEW r \in Request, RegisterRead(r)
    PROVE  Kept
<1>1. PICK p \in Applicant :
         req' = [req EXCEPT ![r] = [step |-> "insert",
                                    row  |-> Append(p, IF UsersOf(p[2]) = {} THEN "admin" ELSE "member"),
                                    by   |-> None]]
  BY DEF RegisterRead
<1> DEFINE x == IF UsersOf(p[2]) = {} THEN "admin" ELSE "member"
           h == [step |-> "insert", row |-> Append(p, x), by |-> None]
<1>2. x \in Role
  BY DEF Role
<1>3. Append(p, x) = <<p[1], p[2], x>> /\ Append(p, x) \in Row
  BY <1>2, AppliedRow
<1>4. h \in Handler /\ h.step = "insert" /\ h.row = <<p[1], p[2], x>> /\ h.by = None
  BY <1>3 DEF Handler
<1>5. x = "admin" \/ UsersOf(p[2]) # {}
  BY DEF x
<1>6. h.by = None /\ (h.row[3] = "admin" \/ UsersOf(h.row[2]) # {})
  <2> HIDE DEF h, x
  <2>1. h.row[3] = x /\ h.row[2] = p[2]
    BY <1>4
  <2> QED BY <1>4, <1>5, <2>1
<1>7. req' = [req EXCEPT ![r] = h]
  BY <1>1
<1>8. req[r].step = "idle"
  BY IdleIsHandler DEF RegisterRead
<1> HIDE DEF x, h
<1>9. disk' = disk /\ tokens' = tokens /\ alone' = alone /\ led' = led /\ cut' = cut
  BY DEF RegisterRead, historyVars
<1> QED BY <1>4, <1>6, <1>7, <1>8, <1>9, HandlerKeeps

LEMMA AssignRoleKeeps ==
    ASSUME Inv, phase = "serving", dialect' = dialect, NEW r \in Request, NEW a \in Actors,
           NEW u \in User, NEW x \in Role, AssignRole(r, a, u, x)
    PROVE  Kept
<1> DEFINE g == IF a.user \in User THEN None ELSE a.user
           h == [step |-> "check", row |-> <<u, a.ws, x>>, by |-> g]
<1>1. a.ws \in Workspace
  BY ActorParts DEF Inv
<1>0. g \in {"api-key", None}
  BY DEF Actors, KeyUsers, Inv, HandlerType, Token
<1>2. h \in Handler /\ h.step = "check"
  <2> HIDE DEF g
  <2> QED BY <1>0, <1>1 DEF Handler, Row
<1>3. /\ req' = [req EXCEPT ![r] = h] /\ disk' = disk /\ tokens' = tokens
      /\ alone' = alone /\ led' = led /\ cut' = cut
  BY DEF AssignRole, historyVars
<1>4. req[r].step = "idle"
  BY IdleIsHandler DEF AssignRole
<1> HIDE DEF h
<1> QED BY <1>2, <1>3, <1>4, HandlerKeeps

LEMMA AssignCheckKeeps ==
    ASSUME Inv, phase = "serving", dialect' = dialect, NEW r \in Request, AssignCheck(r)
    PROVE  Kept
<1> DEFINE h == IF req[r].row \in disk.roles THEN Idle ELSE [req[r] EXCEPT !.step = "grant"]
<1>1. /\ req' = [req EXCEPT ![r] = h] /\ disk' = disk /\ tokens' = tokens
      /\ alone' = alone /\ led' = led /\ cut' = cut
  BY DEF AssignCheck, historyVars
<1>2. /\ req[r].row \in Row /\ req[r].by \in {"api-key", None} /\ req[r].step = "check"
      /\ req[r] = [step |-> "check", row |-> req[r].row, by |-> req[r].by]
  BY HandlerParts DEF Inv, AssignCheck
<1>3. IF req[r].row \in disk.roles THEN h = Idle
      ELSE h = [step |-> "grant", row |-> req[r].row, by |-> req[r].by]
  BY <1>2
<1>4. h \in Handler /\ h.step \notin {"insert", "remove"}
  BY <1>2, <1>3, IdleIsHandler DEF Handler
<1> HIDE DEF h
<1>5. ASSUME NEW u \in User, NEW w \in Workspace,
             /\ req[r].step \in {"check", "grant"} /\ req[r].by = None
             /\ req[r].row = <<u, w, "admin">> /\ u \in UsersOf(w)
      PROVE  w \in led \/ (h.step \in {"check", "grant"} /\ h.by = None /\ h.row = req[r].row)
  <2>1. CASE req[r].row \in disk.roles
    BY <1>5, <2>1 DEF Inv, AccountsInv
  <2>2. CASE req[r].row \notin disk.roles
    BY <1>3, <1>5, <2>2
  <2> QED BY <2>1, <2>2
<1> QED BY <1>1, <1>2, <1>4, <1>5, HandlerKeeps

(* The handler whose user is in place has the role it asks for, or a user  *)
(* of the same workspace was there before it.                              *)
LEMMA RegisterInsertKeeps ==
    ASSUME Inv, phase = "serving", dialect' = dialect, NEW r \in Request, RegisterInsert(r)
    PROVE  Kept
<1>1. PICK u \in User, w \in Workspace :
         /\ req[r].step = "insert" /\ req[r].row \in Row
         /\ req[r] = [step |-> "insert", row |-> req[r].row, by |-> None]
         /\ req[r].row = <<u, w, req[r].row[3]>> /\ UserOf(req[r].row) = u /\ req[r].row[2] = w
  BY HandlerParts, RowParts DEF Inv, RegisterInsert, AccountsInv, Answered
<1>2. CASE disk.users[u] = None /\ KnownWorkspace(w)
  <2> DEFINE h == [step |-> "check", row |-> req[r].row, by |-> None]
             us == [disk.users EXCEPT ![u] = w]
  <2>1. /\ disk' = [disk EXCEPT !.users = us] /\ req' = [req EXCEPT ![r] = h]
        /\ tokens' = tokens /\ alone' = alone /\ led' = led /\ cut' = cut
    <3>1. [req[r] EXCEPT !.step = "check"] = h
      BY <1>1
    <3>2. req \in [Request -> Handler]
      BY DEF Inv, HandlerType
    <3> HIDE DEF h
    <3>3. [req EXCEPT ![r].step = "check"] = [req EXCEPT ![r] = h]
      BY <3>1, <3>2
    <3> QED BY <1>1, <1>2, <3>3 DEF RegisterInsert, historyVars
  <2>2. disk.users \in [User -> Workspace \cup {None}] /\ us \in [User -> Workspace \cup {None}]
    BY <1>1 DEF Inv, DatabaseType, Db
  <2>3. h \in Handler
    BY <1>1 DEF Handler
  <2> HIDE DEF h, us
  <2>4. /\ RequestKeeps /\ disk'.users = us
        /\ disk'.roles = disk.roles /\ disk'.workspaces = disk.workspaces
    BY <2>1, <2>2, UsersOnly DEF Inv
  <2>5. HandlerType'
    BY <2>1, <2>3 DEF Inv, HandlerType
  <2>6. \A q \in Request : req'[q] = IF q = r THEN h ELSE req[q]
    BY <2>1 DEF Inv, HandlerType
  <2>7. \A v \in User : us[v] = IF v = u THEN w ELSE disk.users[v]
    BY <1>1, <2>2 DEF us
  <2>8. ASSUME NEW v \in Workspace
        PROVE  UsersOf(v)' = IF v = w THEN UsersOf(v) \cup {u} ELSE UsersOf(v)
    BY <1>1, <1>2, <2>4, <2>7, DatabaseAssumption DEF UsersOf
  <2>9. \A row \in disk'.roles : row[3] = "admin" => row[2] \in led'
    BY <2>1, <2>4 DEF Inv, AccountsInv
  <2>10. ASSUME NEW q \in Request PROVE Answered(q)'
    <3>1. CASE q = r
      BY <2>6, <3>1 DEF h, Answered
    <3>2. CASE q # r
      <4>1. Answered(q) /\ req'[q] = req[q]
        BY <2>6, <3>2 DEF Inv, AccountsInv
      <4>2. \A v \in Workspace : UsersOf(v) \subseteq UsersOf(v)'
        BY <2>8
      <4>3. req[q].step = "insert" => req[q].row[2] \in Workspace
        BY HandlerParts, RowParts DEF Inv
      <4>4. \A v \in Workspace : {x \in User : disk.users[x] = v} \subseteq {x \in User : disk'.users[x] = v}
        BY <4>2 DEF UsersOf
      <4> QED BY <4>1, <4>3, <4>4 DEF Answered, UsersOf
    <3> QED BY <3>1, <3>2
  <2>11. ForeignKeys' => \A v \in User : disk'.users[v] # None => disk'.users[v] \in disk'.workspaces
    BY <1>2, <2>4, <2>7 DEF Inv, AccountsInv, ForeignKeys, KnownWorkspace
  <2>12. ASSUME NEW v \in Workspace PROVE Founded(v)'
    <3>1. Founded(v)
      BY DEF Inv, AccountsInv, Grounded, Settled
    <3>2. ASSUME NEW y, Asking(y, v) PROVE Asking(y, v)'
      <4>1. PICK q \in Request : /\ req[q].step \in {"check", "grant"} /\ req[q].by = None
                                 /\ req[q].row = <<y, v, "admin">>
        BY <3>2 DEF Asking
      <4>2. req'[q] = req[q]
        BY <1>1, <2>6, <4>1
      <4> QED BY <4>1, <4>2 DEF Asking
    <3>3. UsersOf(v) # {} => Founded(v)'
      BY <2>1, <2>8, <3>1, <3>2 DEF Founded
    <3>4. CASE v # w
      BY <2>8, <3>3, <3>4 DEF Founded
    <3>5. CASE v = w /\ UsersOf(v) = {}
      <4>1. req[r].row[3] = "admin"
        BY <1>1, <3>5 DEF Inv, AccountsInv, Answered
      <4>2. req'[r].step = "check" /\ req'[r].by = None /\ req'[r].row = <<u, v, "admin">>
        BY <1>1, <2>6, <3>5, <4>1 DEF h
      <4>3. Asking(u, v)'
        BY <4>2 DEF Asking
      <4>4. u \in UsersOf(v)'
        BY <2>8, <3>5
      <4> QED BY <4>3, <4>4 DEF Founded
    <3> QED BY <3>3, <3>4, <3>5
  <2>13. \A q \in Request : req[q].step = "remove" => q # r
    BY <1>1
  <2>14. \A q \in alone : q \in Request /\ req[q].step = "remove"
    BY DEF Inv, HandlerType, AccountsInv, LeavesOne
  <2>15. h.step # "remove"
    BY DEF h
  <2>16. \A q \in alone' : LeavesOne(q)'
    BY <2>1, <2>4, <2>6, <2>13, <2>14, <2>15, AloneKeeps
  <2> QED BY <2>4, <2>5, <2>9, <2>10, <2>11, <2>12, <2>16 DEF Kept, AccountsInv
<1>3. CASE ~(disk.users[u] = None /\ KnownWorkspace(w))
  <2>1. /\ req' = [req EXCEPT ![r] = Idle] /\ disk' = disk
        /\ tokens' = tokens /\ alone' = alone /\ led' = led /\ cut' = cut
    BY <1>1, <1>3 DEF RegisterInsert, historyVars
  <2> QED BY <1>1, <2>1, IdleIsHandler, HandlerKeeps
<1> QED BY <1>2, <1>3

(* The role is written, or somebody of the workspace has had it, or the    *)
(* user or the workspace is gone: never the last two for a user who is in, *)
(* and whoever registers is given his role by nobody.                      *)
LEMMA AssignInsertKeeps ==
    ASSUME Inv, phase = "serving", dialect' = dialect, NEW r \in Request, AssignInsert(r)
    PROVE  Kept
<1> DEFINE row == req[r].row
<1>1. /\ req[r].step = "grant" /\ row \in Row /\ row[1] \in User /\ row[2] \in Workspace
      /\ req' = [req EXCEPT ![r] = Idle] /\ tokens' = tokens /\ alone' = alone /\ cut' = cut
      /\ row = <<row[1], row[2], row[3]>> /\ UserOf(row) = row[1]
  BY HandlerParts, RowParts DEF Inv, AssignInsert
<1>2. CASE row \notin disk.roles /\ KnownUser(UserOf(row)) /\ KnownWorkspace(row[2])
           /\ KnownGranter(req[r].by)
  <2> DEFINE s == disk.roles \cup {row}
  <2>1. disk' = [disk EXCEPT !.roles = s] /\ Record({row})
    BY <1>2 DEF AssignInsert
  <2>2. s \in SUBSET Row
    BY <1>1 DEF Inv, DatabaseType, Db
  <2> HIDE DEF s
  <2>3. /\ RequestKeeps /\ disk'.roles = s
        /\ disk'.users = disk.users /\ disk'.workspaces = disk.workspaces
    BY <2>1, <2>2, RolesOnly DEF Inv
  <2>4. led' = IF row[3] = "admin" THEN led \cup {row[2]} ELSE led
    BY <2>1 DEF Record
  <2>5. HandlerType'
    BY <1>1, <2>4, IdleIsHandler DEF Inv, HandlerType
  <2>6. \A q \in Request : req'[q] = IF q = r THEN Idle ELSE req[q]
    BY <1>1 DEF Inv, HandlerType
  <2>7. \A x \in disk'.roles : x[3] = "admin" => x[2] \in led'
    BY <2>3, <2>4 DEF Inv, AccountsInv, s
  <2>8. \A q \in Request : Answered(q)'
    BY <2>3, <2>6, IdleIsHandler DEF Inv, AccountsInv, Answered, UsersOf
  <2>9. ForeignKeys' => \A v \in User : disk'.users[v] # None => disk'.users[v] \in disk'.workspaces
    BY <2>3 DEF Inv, AccountsInv, ForeignKeys
  <2>10. ASSUME NEW v \in Workspace PROVE Founded(v)'
    <3>1. Founded(v) /\ UsersOf(v)' = UsersOf(v) /\ led \subseteq led'
      BY <2>3, <2>4 DEF Inv, AccountsInv, UsersOf, Grounded, Settled
    <3>2. ASSUME NEW y, Asking(y, v) PROVE v \in led' \/ Asking(y, v)'
      <4>1. PICK q \in Request : /\ req[q].step \in {"check", "grant"} /\ req[q].by = None
                                 /\ req[q].row = <<y, v, "admin">>
        BY <3>2 DEF Asking
      <4>2. CASE q = r
        BY <2>4, <4>1, <4>2
      <4>3. CASE q # r
        <5>1. req'[q] = req[q]
          BY <2>6, <4>3
        <5> QED BY <4>1, <5>1 DEF Asking
      <4> QED BY <4>2, <4>3
    <3> QED BY <1>1, <3>1, <3>2 DEF Founded
  <2>11. disk.roles \subseteq disk'.roles
    BY <2>3 DEF s
  <2>12. \A q \in alone : q \in Request /\ req[q].step = "remove"
    BY DEF Inv, HandlerType, AccountsInv, LeavesOne
  <2>13. \A q \in alone' : LeavesOne(q)'
    BY <1>1, <2>6, <2>11, <2>12, IdleIsHandler, AloneKeeps
  <2> QED BY <2>3, <2>5, <2>7, <2>8, <2>9, <2>10, <2>13 DEF Kept, AccountsInv
<1>3. CASE ~(row \notin disk.roles /\ KnownUser(UserOf(row)) /\ KnownWorkspace(row[2])
             /\ KnownGranter(req[r].by))
  <2>1. disk' = disk /\ led' = led
    BY <1>3 DEF AssignInsert
  <2>2. ASSUME NEW u \in User, NEW w \in Workspace, row = <<u, w, "admin">>, u \in UsersOf(w),
               req[r].by = None
        PROVE  w \in led
    <3>1. row[1] = u /\ row[2] = w /\ row[3] = "admin" /\ disk.users[u] = w
      BY <2>2 DEF UsersOf
    <3>2. KnownUser(UserOf(row)) /\ KnownWorkspace(row[2]) /\ KnownGranter(req[r].by)
      BY <1>1, <2>2, <3>1, DatabaseAssumption DEF KnownUser, KnownWorkspace, KnownGranter, Inv, AccountsInv
    <3>3. row \in disk.roles
      BY <1>3, <3>2
    <3> QED BY <3>1, <3>3 DEF Inv, AccountsInv
  <2> QED BY <1>1, <2>1, <2>2, IdleIsHandler, HandlerKeeps
<1> QED BY <1>2, <1>3

(* A removal under way takes the marks of the others in its workspace.     *)
LEMMA RemoveRoleKeeps ==
    ASSUME Inv, phase = "serving", dialect' = dialect, NEW r \in Request, NEW a \in Actors,
           NEW u \in User, NEW x \in Role, RemoveRole(r, a, u, x)
    PROVE  Kept
<1> DEFINE h == [step |-> "remove", row |-> <<u, a.ws, x>>, by |-> None]
<1>1. a.ws \in Workspace
  BY ActorParts DEF Inv
<1>2. h \in Handler /\ h.step = "remove" /\ h.row = <<u, a.ws, x>>
  BY <1>1 DEF Handler, Row
<1>3. /\ req' = [req EXCEPT ![r] = h] /\ disk' = disk /\ tokens' = tokens
      /\ led' = led /\ cut' = cut /\ ~(u = a.user /\ x = "admin") /\ req[r] = Idle
      /\ alone' = {q \in alone : ~Removing(q, a.ws)}
                   \cup {q \in {r} : a.user \in Admins(a.ws) /\ ~\E p \in Request : Removing(p, a.ws)}
  BY DEF RemoveRole, RemovalStarts
<1> HIDE DEF h
<1>4. RequestKeeps /\ HandlerType'
  BY <1>2, <1>3, SameDisk DEF Inv, HandlerType
<1>5. \A q \in Request : req'[q] = IF q = r THEN h ELSE req[q]
  BY <1>3 DEF Inv, HandlerType
<1>6. ASSUME NEW q \in alone' PROVE LeavesOne(q)'
  <2>1. \A w : Admins(w)' = Admins(w)
    BY <1>3 DEF Admins
  <2>2. CASE q \in alone /\ ~Removing(q, a.ws)
    <3>1. LeavesOne(q) /\ q \in Request
      BY <2>2 DEF Inv, HandlerType, AccountsInv
    <3>2. q # r /\ req[q].row[2] # a.ws
      BY <1>3, <2>2, <3>1, IdleIsHandler DEF LeavesOne, Removing
    <3>3. req'[q] = req[q]
      BY <1>5, <3>1, <3>2
    <3>4. ASSUME NEW p \in Request, req'[p].step = "remove" /\ req'[p].row[2] = req'[q].row[2] PROVE p = q
      <4>1. p # r
        <5>1. h.row[2] = a.ws
          BY <1>2
        <5> QED BY <1>5, <3>2, <3>3, <3>4, <5>1
      <4>2. Removing(p, req[q].row[2])
        BY <1>5, <3>3, <3>4, <4>1 DEF Removing
      <4> QED BY <3>1, <4>2 DEF LeavesOne
    <3>5. ASSUME req'[q].row[3] = "admin"
          PROVE  \E v \in User : <<v, req'[q].row[2], "admin">> \in disk'.roles /\ v # UserOf(req'[q].row)
      <4>1. PICK v \in Admins(req[q].row[2]) : v # UserOf(req[q].row)
        BY <3>1, <3>3, <3>5 DEF LeavesOne
      <4> QED BY <1>3, <3>3, <4>1 DEF Admins
    <3>6. req'[q].step = "remove"
      BY <3>1, <3>3 DEF LeavesOne
    <3> QED BY <3>4, <3>5, <3>6 DEF LeavesOne, Removing, Admins
  <2>3. CASE q = r /\ a.user \in Admins(a.ws) /\ ~\E p \in Request : Removing(p, a.ws)
    <3>1. req'[q].step = "remove" /\ req'[q].row = <<u, a.ws, x>>
      BY <1>2, <1>5, <2>3
    <3>2. req'[q].row[2] = a.ws /\ req'[q].row[3] = x /\ UserOf(req'[q].row) = u
      BY <3>1 DEF UserOf
    <3>3. ASSUME NEW p \in Request, Removing(p, a.ws)' PROVE p = q
      BY <1>5, <2>3, <3>3 DEF Removing
    <3>4. x = "admin" => \E v \in Admins(a.ws)' : v # u
      BY <1>3, <2>1, <2>3
    <3> QED BY <3>1, <3>2, <3>3, <3>4 DEF LeavesOne, Removing, Admins
  <2> QED BY <1>3, <2>2, <2>3
<1>7. \A q \in Request : req'[q] # req[q] => req[q].step \notin {"check", "grant"} /\ req'[q].step # "insert"
  BY <1>2, <1>3, <1>5, IdleIsHandler
<1>8. ForeignKeys => \A v \in User : disk.users[v] # None => disk.users[v] \in disk'.workspaces
  BY <1>3 DEF Inv, AccountsInv
<1> QED BY <1>3, <1>4, <1>6, <1>7, <1>8, TakingKeeps

LEMMA RemoveCommitKeeps ==
    ASSUME Inv, phase = "serving", dialect' = dialect, NEW r \in Request, RemoveCommit(r)
    PROVE  Kept
<1> DEFINE s == disk.roles \ {req[r].row}
<1>1. /\ disk' = [disk EXCEPT !.roles = s] /\ req' = [req EXCEPT ![r] = Idle] /\ req[r].step = "remove"
      /\ alone' = alone \ {r} /\ tokens' = tokens /\ led' = led /\ cut' = cut
  BY DEF RemoveCommit
<1>2. s \in SUBSET Row /\ s \subseteq disk.roles
  BY DEF Inv, DatabaseType, Db
<1>3. s = disk.roles \ {req[r].row}
  OBVIOUS
<1> HIDE DEF s
<1>4. RequestKeeps /\ disk'.roles = s /\ disk'.users = disk.users /\ disk'.workspaces = disk.workspaces
  BY <1>1, <1>2, RolesOnly DEF Inv
<1>5. HandlerType'
  BY <1>1, IdleIsHandler DEF Inv, HandlerType
<1>6. \A q \in Request : req'[q] = IF q = r THEN Idle ELSE req[q]
  BY <1>1 DEF Inv, HandlerType
<1>7. ASSUME NEW q \in alone' PROVE LeavesOne(q)'
  <2>1. LeavesOne(q) /\ q \in Request /\ q # r /\ req'[q] = req[q]
    BY <1>1, <1>6 DEF Inv, HandlerType, AccountsInv
  <2> DEFINE w == req[q].row[2]
  <2>2. req[r].row[2] # w
    BY <1>1, <2>1 DEF LeavesOne, Removing
  <2>3. Admins(w)' = Admins(w)
    <3>1. ASSUME NEW v \in User PROVE <<v, w, "admin">> # req[r].row
      BY <2>2
    <3> QED BY <1>3, <1>4, <2>1, <3>1 DEF Admins
  <2>4. \A p \in Request : Removing(p, w)' => Removing(p, w)
    BY <1>6, <2>1, IdleIsHandler DEF Removing
  <2> QED BY <2>1, <2>3, <2>4 DEF LeavesOne, Removing, Admins
<1>8. \A q \in Request : req'[q] # req[q] => req[q].step \notin {"check", "grant"} /\ req'[q].step # "insert"
  BY <1>1, <1>6, IdleIsHandler
<1>9. ForeignKeys => \A v \in User : disk.users[v] # None => disk.users[v] \in disk'.workspaces
  BY <1>4 DEF Inv, AccountsInv
<1> QED BY <1>1, <1>2, <1>4, <1>5, <1>7, <1>8, <1>9, TakingKeeps

(* A request of one step, which changes tokens, keys or workspaces only.   *)
LEMMA OneStepKeeps ==
    ASSUME Inv, phase = "serving", dialect' = dialect, RequestKeeps, HandlerType',
           req' = req, alone' = alone, led' = led, cut' = cut,
           disk'.users = disk.users, disk'.roles = disk.roles,
           ForeignKeys => \A u \in User : disk.users[u] # None => disk.users[u] \in disk'.workspaces
    PROVE  Kept
<1>1. \A r \in alone' : LeavesOne(r)'
  BY AloneKeeps
<1> QED BY <1>1, TakingKeeps

LEMMA OtherRequestsKeep ==
    ASSUME Inv, phase = "serving", dialect' = dialect,
           \/ \E u \in User : Login(u)
           \/ \E t \in tokens : Expire(t)
           \/ \E w \in Workspace : CreateKey(w) \/ RevokeKey(w) \/ CreateWorkspace(w) \/ DeleteWorkspace(w)
    PROVE  Kept
<1>0. DatabaseType /\ HandlerType /\ disk \in Db
      /\ (ForeignKeys => \A u \in User : disk.users[u] # None => disk.users[u] \in disk.workspaces)
  BY DEF Inv, AccountsInv, DatabaseType
<1>1. CASE \E u \in User : Login(u)
  <2>1. PICK u \in User : Login(u)
    BY <1>1
  <2>2. disk' = disk /\ req' = req /\ alone' = alone /\ led' = led /\ cut' = cut
        /\ tokens' = tokens \cup {[user |-> u, ws |-> disk.users[u]]} /\ disk.users[u] # None
    BY <2>1 DEF Login, historyVars
  <2>3. [user |-> u, ws |-> disk.users[u]] \in Token
    BY <1>0, <2>2 DEF Token, Db
  <2>4. RequestKeeps /\ HandlerType'
    BY <1>0, <2>2, <2>3, SameDisk DEF HandlerType
  <2> QED BY <1>0, <2>2, <2>4, OneStepKeeps
<1>2. CASE \E t \in tokens : Expire(t)
  <2>1. disk' = disk /\ req' = req /\ alone' = alone /\ led' = led /\ cut' = cut /\ tokens' \subseteq tokens
    BY <1>2 DEF Expire, historyVars
  <2>2. RequestKeeps /\ HandlerType'
    BY <1>0, <2>1, SameDisk DEF HandlerType
  <2> QED BY <1>0, <2>1, <2>2, OneStepKeeps
<1>3. CASE \E w \in Workspace : CreateKey(w) \/ RevokeKey(w)
  <2>1. PICK w \in Workspace, s \in SUBSET Workspace : disk' = [disk EXCEPT !.keyed = s]
    <3>1. PICK w \in Workspace : CreateKey(w) \/ RevokeKey(w)
      BY <1>3
    <3>2. disk.keyed \cup {w} \in SUBSET Workspace /\ disk.keyed \ {w} \in SUBSET Workspace
      BY <1>0 DEF Db
    <3> QED BY <3>1, <3>2 DEF CreateKey, RevokeKey
  <2>2. req' = req /\ alone' = alone /\ led' = led /\ cut' = cut /\ tokens' = tokens
    BY <1>3 DEF CreateKey, RevokeKey, historyVars, handlerVars
  <2>3. RequestKeeps /\ HandlerType' /\ disk'.roles = disk.roles /\ disk'.users = disk.users
        /\ disk'.workspaces = disk.workspaces
    BY <1>0, <2>1, <2>2, KeysOnly DEF HandlerType
  <2> QED BY <1>0, <2>2, <2>3, OneStepKeeps
<1>4. CASE \E w \in Workspace : CreateWorkspace(w)
  <2>1. PICK w \in Workspace : CreateWorkspace(w)
    BY <1>4
  <2> DEFINE s == disk.workspaces \cup {w}
  <2>2. disk' = [disk EXCEPT !.workspaces = s]
        /\ req' = req /\ alone' = alone /\ led' = led /\ cut' = cut /\ tokens' = tokens
    BY <2>1 DEF CreateWorkspace, historyVars, handlerVars
  <2>3. s \in SUBSET Workspace /\ disk.workspaces \subseteq s
    BY <1>0 DEF Db
  <2> HIDE DEF s
  <2>4. RequestKeeps /\ HandlerType' /\ disk'.roles = disk.roles /\ disk'.users = disk.users
        /\ disk'.workspaces = s
    BY <1>0, <2>2, <2>3, WorkspacesOnly DEF HandlerType
  <2> QED BY <1>0, <2>2, <2>3, <2>4, OneStepKeeps
<1>5. CASE \E w \in Workspace : DeleteWorkspace(w)
  <2>1. PICK w \in Workspace : DeleteWorkspace(w)
    BY <1>5
  <2> DEFINE s == disk.workspaces \ {w}
  <2>2. disk' = [disk EXCEPT !.workspaces = s] /\ w # "default"
        /\ req' = req /\ alone' = alone /\ led' = led /\ cut' = cut /\ tokens' = tokens
        /\ (ForeignKeys => UsersOf(w) = {})
    BY <2>1 DEF DeleteWorkspace, historyVars, handlerVars
  <2>3. s \in SUBSET Workspace /\ ("default" \in disk.workspaces => "default" \in s)
    BY <1>0, <2>2 DEF Db
  <2>4. ForeignKeys => \A u \in User : disk.users[u] # None => disk.users[u] \in s
    BY <1>0, <2>2 DEF UsersOf
  <2> HIDE DEF s
  <2>5. RequestKeeps /\ HandlerType' /\ disk'.roles = disk.roles /\ disk'.users = disk.users
        /\ disk'.workspaces = s
    BY <1>0, <2>2, <2>3, WorkspacesOnly DEF HandlerType
  <2> QED BY <1>0, <2>2, <2>4, <2>5, OneStepKeeps
<1> QED BY <1>1, <1>2, <1>3, <1>4, <1>5

LEMMA HandleInv == ASSUME Inv, Handle PROVE Inv'
<1>1. /\ phase = "serving" /\ phase' = "serving" /\ dialect' = dialect /\ todo' = todo
      /\ conn' = disk'
  BY DEF Handle
<1>2. Kept
  <2>1. CASE \E r \in Request : RegisterRead(r) \/ Progress(r)
    BY <1>1, <2>1, RegisterReadKeeps, RegisterInsertKeeps, AssignCheckKeeps, AssignInsertKeeps,
       RemoveCommitKeeps DEF Progress
  <2>2. CASE \E r \in Request, a \in Actors, u \in User, x \in Managed :
                AssignRole(r, a, u, x) \/ RemoveRole(r, a, u, x)
    BY <1>1, <2>2, AccountsAssumption, AssignRoleKeeps, RemoveRoleKeeps
  <2>3. CASE \/ \E u \in User : Login(u)
             \/ \E t \in tokens : Expire(t)
             \/ \E w \in Workspace : CreateKey(w) \/ RevokeKey(w) \/ CreateWorkspace(w) \/ DeleteWorkspace(w)
    BY <1>1, <2>3, OtherRequestsKeep
  <2> QED BY <2>1, <2>2, <2>3 DEF Handle
<1>3. DatabaseType'
  BY <1>1, <1>2 DEF Kept, RequestKeeps, DatabaseType, Inv, Handle
<1>4. Upgraded(disk) /\ Ready(disk) => Upgraded(disk') /\ Ready(disk')
  BY <1>2 DEF Kept, RequestKeeps, Upgraded, Ready
<1>5. Whole' = Whole /\ Former' = Former
  BY <1>2 DEF Kept, RequestKeeps, Whole, Former, Outdated
<1>6. DatabaseInv'
  BY <1>1, <1>2, <1>4, <1>5 DEF Kept, RequestKeeps, DatabaseInv, Inv
<1> QED BY <1>1, <1>2, <1>3, <1>6 DEF Kept, Inv

-----------------------------------------------------------------------------
(* Starting, dying and alembic                                             *)

LEMMA StartsOutside == ASSUME StartUp PROVE phase # "serving"
  BY DEF StartUp, StartSqlite, Execute, CommitMigration, StartPostgres, SeedPostgres, SeedStore,
         SeedCurated, StartFails

(* With no request under way and the same users, a workspace keeps what it *)
(* was founded on.                                                         *)
LEMMA StartInv == ASSUME Inv, Start PROVE Inv'
<1>0. /\ phase # "serving" /\ StartUp /\ Record(disk'.roles)
      /\ req' = req /\ tokens' = tokens /\ alone' = alone /\ cut' = cut
  BY StartsOutside DEF Start, handlerVars
<1>1. DatabaseType' /\ DatabaseInv' /\ StartKeeps
  BY <1>0, StartUpReady DEF Inv
<1>2. led' = led \cup {row[2] : row \in {x \in disk'.roles : x[3] = "admin"}}
  BY <1>0 DEF Record
<1>3. HandlerType'
  <2>1. \A row \in disk'.roles : row[2] \in Workspace
    BY <1>1, RowParts DEF DatabaseType, Db
  <2> QED BY <1>0, <1>2, <2>1 DEF Inv, HandlerType
<1>4. /\ req = [r \in Request |-> Idle] /\ \A r \in Request : req[r] = Idle /\ req[r].step = "idle"
      /\ alone = {}
  BY <1>0, IdleIsHandler DEF Inv, AccountsInv
<1>5. \A row \in disk'.roles : row[3] = "admin" => row[2] \in led'
  BY <1>2
<1>6. \A r \in Request : Answered(r)'
  BY <1>0, <1>4 DEF Answered
<1>7. ForeignKeys' => \A u \in User : disk'.users[u] # None => disk'.users[u] \in disk'.workspaces
  BY <1>1 DEF StartKeeps, ForeignKeys, Inv, AccountsInv
<1>8. ASSUME Grounded', NEW w \in Workspace PROVE Founded(w)'
  <2>1. UsersOf(w)' = UsersOf(w) /\ led \subseteq led'
    BY <1>1, <1>2 DEF StartKeeps, UsersOf
  <2>2. CASE Grounded
    <3>1. Founded(w)
      BY <2>2 DEF Inv, AccountsInv
    <3> QED BY <1>0, <1>4, <2>1, <3>1 DEF Founded, Asking
  <2>3. CASE AdminOfAll(disk) \subseteq disk'.roles
    <3>1. ASSUME NEW u \in UsersOf(w) PROVE w \in led'
      <4>1. u \in User /\ disk.users[u] = w /\ disk.users[u] # None
        BY DatabaseAssumption DEF UsersOf
      <4>2. <<u, w, "admin">> \in disk'.roles
        BY <2>3, <4>1 DEF AdminOfAll
      <4>3. <<u, w, "admin">>[3] = "admin" /\ <<u, w, "admin">>[2] = w
        OBVIOUS
      <4> QED BY <1>5, <4>2, <4>3
    <3> QED BY <2>1, <3>1 DEF Founded
  <2> QED BY <1>1, <1>8, <2>2, <2>3 DEF StartKeeps
<1>9. AccountsInv'
  BY <1>0, <1>4, <1>5, <1>6, <1>7, <1>8 DEF AccountsInv
<1> QED BY <1>1, <1>3, <1>9 DEF Inv

(* Whoever was registering and is cut off leaves its mark.                 *)
LEMMA CrashInv == ASSUME Inv, Crash PROVE Inv'
<1>0. /\ Die /\ led' = led /\ req' = [r \in Request |-> Idle] /\ tokens' \subseteq tokens
      /\ cut' = cut \cup {u \in User : Registering(u) /\ disk.users[u] # None}
      /\ disk' = disk /\ dialect' = dialect /\ phase' = "down" /\ alone' = {}
  BY DEF Crash, ProcessDies, Die
<1>1. DatabaseType' /\ DatabaseInv' /\ (Grounded' => Grounded)
  BY <1>0, DieReady DEF Inv
<1>2. HandlerType'
  BY <1>0, IdleIsHandler DEF Inv, HandlerType
<1>3. \A r \in Request : req'[r] = Idle /\ req'[r].step = "idle"
  BY <1>0, IdleIsHandler
<1>4. \A r \in Request : Answered(r)'
  BY <1>3 DEF Answered
<1>5. ASSUME NEW w \in Workspace, Founded(w) PROVE Founded(w)'
  <2>1. UsersOf(w)' = UsersOf(w)
    BY <1>0 DEF UsersOf
  <2>2. ASSUME NEW u \in UsersOf(w), Asking(u, w) PROVE u \in cut'
    <3>1. u \in User /\ disk.users[u] # None
      BY DatabaseAssumption DEF UsersOf
    <3>2. Registering(u)
      BY <2>2 DEF Asking, Registering, UserOf
    <3> QED BY <1>0, <3>1, <3>2
  <2>3. cut \subseteq cut'
    BY <1>0
  <2> QED BY <1>0, <1>5, <2>1, <2>2, <2>3 DEF Founded
<1>6. AccountsInv'
  BY <1>0, <1>1, <1>3, <1>4, <1>5 DEF AccountsInv, Inv, ForeignKeys
<1> QED BY <1>1, <1>2, <1>6 DEF Inv

(* Alembic takes the version, and whoever was founded stays so.            *)
LEMMA AlembicInv == ASSUME Inv, Alembic PROVE Inv'
<1>0. /\ AlembicUpgrade /\ req' = req /\ tokens' = tokens /\ led' = led /\ cut' = cut /\ alone' = alone
      /\ phase' = phase /\ dialect' = dialect
  BY DEF Alembic, AlembicUpgrade, accountVars, handlerVars, historyVars
<1>1. /\ DatabaseType' /\ DatabaseInv'
      /\ disk'.users = disk.users /\ disk'.roles = disk.roles /\ disk'.version = 0
      /\ disk'.workspaces = disk.workspaces /\ (Grounded' => Grounded)
  BY <1>0, AlembicReady DEF Inv
<1>2. HandlerType'
  BY <1>0 DEF Inv, HandlerType
<1>3. \A r \in Request : Answered(r)'
  BY <1>0, <1>1 DEF Answered, UsersOf, Inv, AccountsInv
<1>4. \A w \in Workspace : Founded(w) => Founded(w)'
  BY <1>0, <1>1 DEF Founded, UsersOf, Asking
<1>5. \A r \in alone' : LeavesOne(r)'
  <2>1. \A r \in alone : LeavesOne(r)
    BY DEF Inv, AccountsInv
  <2> QED BY <1>0, <1>1, <2>1 DEF LeavesOne, Removing, Admins
<1>6. AccountsInv'
  BY <1>0, <1>1, <1>3, <1>4, <1>5 DEF AccountsInv, Inv, ForeignKeys
<1> QED BY <1>1, <1>2, <1>6 DEF Inv

LEMMA StutterInv == ASSUME Inv, UNCHANGED vars PROVE Inv'
<1>1. DatabaseType' /\ HandlerType'
  BY DEF Inv, DatabaseType, HandlerType, vars, databaseVars, startVars, accountVars, handlerVars, historyVars
<1>2. DatabaseInv'
  BY DEF Inv, DatabaseInv, Covered, Seated, Unstamped, Whole, Former, Outdated, vars, databaseVars, startVars
<1>3. AccountsInv'
  <2>1. /\ dialect' = dialect /\ phase' = phase /\ disk' = disk /\ conn' = conn /\ todo' = todo
        /\ req' = req /\ led' = led /\ cut' = cut /\ alone' = alone
    BY DEF vars, databaseVars, startVars, accountVars, handlerVars, historyVars
  <2>2. \A w \in Workspace : Founded(w)' = Founded(w)
    BY <2>1 DEF Founded, Asking, UsersOf
  <2>3. \A r \in Request : Answered(r)' = Answered(r)
    BY <2>1 DEF Answered, UsersOf
  <2>4. Grounded' = Grounded
    BY <2>1 DEF Grounded, Settled, Seated, Former, Outdated
  <2>5. \A r \in alone : LeavesOne(r)' = LeavesOne(r)
    BY <2>1 DEF LeavesOne, Removing, Admins
  <2> QED BY <2>1, <2>2, <2>3, <2>4, <2>5 DEF Inv, AccountsInv, ForeignKeys
<1> QED BY <1>1, <1>2, <1>3 DEF Inv

(* Every database there can be at the first start: the users of one of the *)
(* latest version have an admin among them.                                *)
LEMMA InitInv == ASSUME Init PROVE Inv
<1>0. /\ DatabaseInit /\ req = [r \in Request |-> Idle] /\ tokens = {} /\ cut = {} /\ alone = {}
      /\ led = {row[2] : row \in {x \in disk.roles : x[3] = "admin"}}
      /\ phase = "down"
  BY DEF Init, DatabaseInit
<1>1. DatabaseType /\ DatabaseInv
  BY InitDatabase
<1>2. HandlerType
  <2>1. \A row \in disk.roles : row[2] \in Workspace
    BY <1>1, RowParts DEF DatabaseType, Db
  <2> QED BY <1>0, <2>1, IdleIsHandler DEF HandlerType
<1>3. \A r \in Request : Answered(r)
  BY <1>0, IdleIsHandler DEF Answered
<1>4. \A row \in disk.roles : row[3] = "admin" => row[2] \in led
  BY <1>0
<1>5. /\ ForeignKeys => \A u \in User : disk.users[u] # None => disk.users[u] \in disk.workspaces
      /\ Grounded => \A w \in Workspace : Founded(w)
  <2>1. CASE disk = Empty
    <3>1. \A u \in User : disk.users[u] = None
      BY <2>1 DEF Empty
    <3>2. \A w \in Workspace : UsersOf(w) = {}
      BY <3>1, DatabaseAssumption DEF UsersOf
    <3> QED BY <3>1, <3>2 DEF Founded
  <2>2. CASE disk # Empty
    <3>1. PICK admins \in (SUBSET User) \ {{}}, v \in 1..Latest : disk = Used(v, admins)
      BY <1>0, <2>2 DEF DatabaseInit
    <3>2. /\ disk.users = [u \in User |-> IF v < 2 THEN None ELSE "default"]
          /\ disk.workspaces = IF v < 2 THEN {} ELSE {"default"}
          /\ disk.version = IF dialect = "sqlite" THEN v ELSE 0
          /\ disk.objects = IF dialect = "sqlite" THEN ObjectsOf(v) ELSE ObjectsOf(v) \ {<<"schema_version">>}
          /\ disk.roles = {<<u, "default", IF u \in admins THEN "admin" ELSE "member">> :
                              u \in IF v < 4 THEN {} ELSE User}
      BY <3>1 DEF Used, Empty
    <3>3. \A u \in User : disk.users[u] # None => disk.users[u] \in disk.workspaces
      BY <3>2
    <3>4. ASSUME Grounded, NEW w \in Workspace PROVE Founded(w)
      <4>0. v = Latest
        <5>1. (dialect = "sqlite" /\ disk.version = Latest) \/ (dialect = "postgres" /\ ~Former)
          BY <1>0, <3>2, <3>4, DatabaseAssumption, LatestIsFour DEF Grounded, Settled, DatabaseInit
        <5>2. ASSUME v # 4, dialect = "postgres" PROVE Former
          <6>1. v \in 1..3 /\ dialect # "sqlite"
            BY <5>2, LatestIsFour
          <6>2. <<"schemas">> # <<"schema_version">>
            OBVIOUS
          <6> QED BY <3>2, <6>1, <6>2, FormerObjects DEF Former, Outdated
        <5> QED BY <3>2, <5>1, <5>2, LatestIsFour
      <4>1. PICK u \in admins : u \in User
        BY <3>1
      <4>2. <<u, "default", "admin">> \in disk.roles
        BY <3>2, <4>0, <4>1, LatestIsFour
      <4>3. <<u, "default", "admin">>[3] = "admin" /\ <<u, "default", "admin">>[2] = "default"
        OBVIOUS
      <4>4. "default" \in led
        BY <1>4, <4>2, <4>3
      <4>5. UsersOf(w) # {} => w = "default"
        BY <3>2, <4>0, LatestIsFour DEF UsersOf
      <4> QED BY <4>4, <4>5 DEF Founded
    <3> QED BY <3>1, <3>3, <3>4
  <2> QED BY <2>1, <2>2
<1>6. AccountsInv
  BY <1>0, <1>3, <1>4, <1>5 DEF AccountsInv
<1> QED BY <1>1, <1>2, <1>6 DEF Inv

LEMMA NextInv == ASSUME Inv, [Next]_vars PROVE Inv'
  BY StartInv, HandleInv, CrashInv, AlembicInv, StutterInv DEF Next

LEMMA Invariance == Spec => []Inv
<1>1. Init => Inv
  BY InitInv
<1>2. Inv /\ [Next]_vars => Inv'
  BY NextInv
<1> QED BY <1>1, <1>2, PTL DEF Spec

-----------------------------------------------------------------------------
(* Theorems                                                                *)

(* The tables, the handlers and the tokens have their types.               *)
THEOREM TypeCorrect == Spec => []TypeOK
<1>1. Inv => TypeOK
  BY DEF Inv, DatabaseType, HandlerType, Db, TypeOK
<1> QED BY <1>1, Invariance, PTL

(* However often and wherever its start was interrupted, whatever alembic  *)
(* left, and whichever version the database is of, on either engine: a     *)
(* server that serves has every table, column and row the program needs.   *)
THEOREM ServesCurrentDatabase == Spec => []ServingIsCurrent
<1>1. Inv => ServingIsCurrent
  BY DEF Inv, DatabaseInv, Whole, Ready, ServingIsCurrent
<1> QED BY <1>1, Invariance, PTL

(* A workspace with users has had an admin, unless one is registering, or  *)
(* the process died under one that was.                                    *)
THEOREM FirstUserIsAdmin == Spec => []FirstIsAdmin
<1>1. Inv => FirstIsAdmin
  <2> SUFFICES ASSUME Inv, phase = "serving", NEW w \in Workspace, UsersOf(w) # {}
               PROVE  w \in led \/ \E u \in UsersOf(w) : Registering(u) \/ u \in cut
    BY DEF FirstIsAdmin
  <2>1. Founded(w)
    BY DEF Inv, AccountsInv, Grounded, Settled
  <2>2. ASSUME NEW u, Asking(u, w) PROVE Registering(u)
    BY <2>2 DEF Asking, Registering, UserOf
  <2> QED BY <2>1, <2>2 DEF Founded
<1> QED BY <1>1, Invariance, PTL

(* A start takes no role, and gives roles only on the way to the latest    *)
(* version: to all users, as admins.                                       *)
THEOREM StartsSeedRolesOnce == Spec => RolesSeededOnce
<1>1. ASSUME Inv, [Next]_vars, phase # "serving"
      PROVE  /\ disk.roles \subseteq disk'.roles
             /\ disk.version = Latest => disk'.roles = disk.roles
             /\ disk.version < Latest /\ disk'.version = Latest => AdminOfAll(disk) \subseteq disk'.roles
  <2>0. disk.version \in 0..Latest
    BY <1>1 DEF Inv, DatabaseType, Db
  <2>1. CASE Start
    <3>1. StartKeeps
      BY <2>1, <1>1, StartUpReady DEF Start, Inv
    <3> QED BY <2>0, <3>1, LatestIsFour DEF StartKeeps
  <2>2. CASE Handle
    BY <1>1, <2>2 DEF Handle
  <2>3. CASE Crash
    BY <2>0, <2>3 DEF Crash, ProcessDies, Die
  <2>4. CASE Alembic
    BY <1>1, <2>4, AlembicReady, LatestIsFour DEF Alembic, Inv
  <2>5. CASE UNCHANGED vars
    BY <2>0, <2>5 DEF vars, databaseVars
  <2> QED BY <1>1, <2>1, <2>2, <2>3, <2>4, <2>5 DEF Next
<1> QED BY <1>1, Invariance, PTL DEF Spec, RolesSeededOnce

(* An admin who removes roles with no other removal in the workspace under *)
(* way leaves it an admin, whatever becomes of his token before the DELETE *)
(* and whatever else is going on.                                          *)
THEOREM AloneNeverLocksOut == Spec => NoLockoutAlone
<1>1. ASSUME Inv, [Next]_vars, NEW w \in Workspace, Admins(w) # {},
             \A r \in Request : Removing(r, w) => r \in alone
      PROVE  Admins(w)' # {}
  <2>1. CASE disk.roles \subseteq disk'.roles
    BY <1>1, <2>1 DEF Admins
  <2>2. CASE Start
    BY <1>1, <2>1, <2>2, StartUpReady DEF Start, Inv, StartKeeps
  <2>3. CASE Crash
    BY <2>1, <2>3 DEF Crash, ProcessDies, Die
  <2>4. CASE Alembic
    BY <1>1, <2>1, <2>4, AlembicReady DEF Alembic, Inv
  <2>5. CASE UNCHANGED vars
    BY <2>1, <2>5 DEF vars, databaseVars
  <2>6. CASE Handle
    <3>0. disk \in Db
      BY <1>1 DEF Inv, DatabaseType
    <3>1. CASE \E r \in Request : RemoveCommit(r)
      <4>1. PICK r \in Request : RemoveCommit(r)
        BY <3>1
      <4>2. disk'.roles = disk.roles \ {req[r].row} /\ req[r].step = "remove"
        BY <3>0, <4>1 DEF RemoveCommit, Db
      <4>3. req[r].row \in Row
        BY <1>1, <4>2, HandlerParts DEF Inv
      <4>4. CASE req[r].row[2] = w
        <5>1. LeavesOne(r)
          BY <1>1, <4>2, <4>4 DEF Removing, Inv, AccountsInv
        <5>2. CASE req[r].row[3] = "admin"
          <6>1. PICK v \in Admins(w) : v # UserOf(req[r].row)
            BY <4>4, <5>1, <5>2 DEF LeavesOne
          <6>2. <<v, w, "admin">> # req[r].row
            BY <6>1 DEF UserOf
          <6>3. v \in Admins(w)'
            BY <4>2, <6>1, <6>2 DEF Admins
          <6> QED BY <6>3
        <5>3. CASE req[r].row[3] # "admin"
          <6>1. ASSUME NEW v \in User PROVE <<v, w, "admin">> # req[r].row
            BY <5>3
          <6> QED BY <1>1, <4>2, <6>1 DEF Admins
        <5> QED BY <5>2, <5>3
      <4>5. CASE req[r].row[2] # w
        <5>1. ASSUME NEW v \in User PROVE <<v, w, "admin">> # req[r].row
          BY <4>5
        <5> QED BY <1>1, <4>2, <5>1 DEF Admins
      <4> QED BY <4>4, <4>5
    <3>2. CASE \E r \in Request : AssignInsert(r)
      BY <2>1, <3>0, <3>2 DEF AssignInsert, Db
    <3>3. CASE \E r \in Request : RegisterInsert(r)
      BY <2>1, <3>0, <3>3 DEF RegisterInsert, Db
    <3>4. CASE \E v \in Workspace : CreateKey(v) \/ RevokeKey(v) \/ CreateWorkspace(v) \/ DeleteWorkspace(v)
      BY <2>1, <3>0, <3>4 DEF CreateKey, RevokeKey, CreateWorkspace, DeleteWorkspace, Db
    <3>5. CASE UNCHANGED disk
      BY <2>1, <3>5
    <3>6. \/ \E r \in Request : RegisterRead(r) \/ AssignCheck(r)
          \/ \E u \in User : Login(u)
          \/ \E t \in tokens : Expire(t)
          \/ \E r \in Request, a \in Actors, u \in User, x \in Managed :
                AssignRole(r, a, u, x) \/ RemoveRole(r, a, u, x)
          => UNCHANGED disk
      BY DEF RegisterRead, AssignCheck, Login, Expire, AssignRole, RemoveRole, RemovalStarts
    <3> QED BY <2>6, <3>1, <3>2, <3>3, <3>4, <3>5, <3>6 DEF Handle, Progress
  <2> QED BY <1>1, <2>2, <2>3, <2>4, <2>5, <2>6 DEF Next
<1>2. Inv /\ [Next]_vars =>
        [\A w \in Workspace :
            Admins(w) # {} /\ (\A r \in Request : Removing(r, w) => r \in alone) => Admins(w)' # {}]_vars
  BY <1>1
<1> QED BY <1>2, Invariance, PTL DEF Spec, NoLockoutAlone

=================================================================================
