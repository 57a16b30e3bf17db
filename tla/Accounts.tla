------------------------------- MODULE Accounts -------------------------------
(***************************************************************************)
(* Users, their roles, tokens, API keys and workspaces on the database     *)
(* that Database starts: services/auth-service.py, role-service.py and     *)
(* workspace-service.py with the routers over them and the role check of   *)
(* the middleware.  A request is a handler that may be between two of its  *)
(* sessions when another one commits; every handler dies with the process. *)
(*                                                                         *)
(* A token carries the roles its user had at login, and no request looks   *)
(* them up again.  An API key is an admin of its workspace.  The tables    *)
(* have foreign keys on SQLite and none on PostgreSQL.  Roles are the two  *)
(* that registration gives: reviewers and approvers are assigned like      *)
(* members.  Nothing makes a user inactive.                                *)
(***************************************************************************)
EXTENDS Database

CONSTANTS
    Request,    \* the handlers that may be under way at once
    Applicant,  \* who may register where
    Managed,    \* bound: the roles that admins give and take
    MaxTokens   \* bound: tokens not expired

ASSUME AccountsAssumption ==
    /\ Applicant \subseteq User \X Workspace /\ Managed \subseteq Role
    /\ MaxTokens \in Nat
    /\ "api-key" \notin User

VARIABLES
    req,      \* each handler: its step, its row, a granter who is no user
    tokens,   \* the tokens not expired that say admin: no other opens anything here
    alone,    \* history: the removals under way of callers who were admins when
              \* they were checked, with no other removal in the workspace since
    led,      \* history: the workspaces that have had an admin
    cut       \* history: the users whose registration died before its role

Token   == [user : User, ws : Workspace]
Idle    == [step |-> "idle", row |-> None, by |-> None]
Handler == {Idle} \cup [step : {"insert", "check", "grant", "remove"}, row : Row, by : {"api-key", None}]

handlerVars == <<req, tokens>>
historyVars == <<alone, led, cut>>
accountVars == <<handlerVars, historyVars>>
vars == <<databaseVars, accountVars>>

UserOf(row) == row[1]
Admins(w)   == {u \in User : <<u, w, "admin">> \in disk.roles}
UsersOf(w)  == {u \in User : disk.users[u] = w}
Registering(u) == \E r \in Request : req[r].step \in {"check", "grant"} /\ UserOf(req[r].row) = u

(* The foreign keys of the tables that init_db made.                       *)
ForeignKeys == dialect = "sqlite"
KnownUser(u)      == ForeignKeys => disk.users[u] # None
KnownWorkspace(w) == ForeignKeys => w \in disk.workspaces
KnownGranter(g)   == ForeignKeys => g = None

Removing(r, w) == req[r].step = "remove" /\ req[r].row[2] = w

Record(rows) ==
    led' = led \cup {row[2] : row \in {x \in rows : x[3] = "admin"}}

Init ==
    /\ DatabaseInit
    /\ req = [r \in Request |-> Idle]
    /\ tokens = {} /\ alone = {}
    /\ led = {row[2] : row \in {x \in disk.roles : x[3] = "admin"}}
    /\ cut = {}

-----------------------------------------------------------------------------
(* Registration: register_user and the role it ends with.                  *)

(* Fault: a later user is given a role the program does not have.          *)
RegisterReadUser(r) ==
    /\ req[r] = Idle
    /\ \E p \in Applicant :
        req' = [req EXCEPT ![r] = [step |-> "insert",
                                   row  |-> Append(p, IF UsersOf(p[2]) = {} THEN "admin" ELSE "user"),
                                   by   |-> None]]
    /\ UNCHANGED <<disk, tokens, historyVars>>

(* bcrypt, then SELECT any user of the workspace, which decides the role.  *)
RegisterRead(r) ==
    /\ req[r] = Idle
    /\ \E p \in Applicant :
        req' = [req EXCEPT ![r] = [step |-> "insert",
                                   row  |-> Append(p, IF UsersOf(p[2]) = {} THEN "admin" ELSE "member"),
                                   by   |-> None]]
    /\ UNCHANGED <<disk, tokens, historyVars>>

(* Fault: whether there are users yet is asked after the insert.           *)
RegisterInsertFirst(r) ==
    LET u == UserOf(req[r].row)  w == req[r].row[2] IN
    /\ req[r].step = "insert"
    /\ IF disk.users[u] = None /\ KnownWorkspace(w)
       THEN /\ disk' = [disk EXCEPT !.users[u] = w]
            /\ req' = [req EXCEPT ![r].step = "check", ![r].row[3] = "member"]
       ELSE /\ req' = [req EXCEPT ![r] = Idle]
            /\ UNCHANGED disk
    /\ UNCHANGED <<tokens, historyVars>>

(* INSERT and commit: the email is UNIQUE, the workspace may have to be    *)
(* there; either error ends the handler, or else assign_role follows.      *)
RegisterInsert(r) ==
    LET u == UserOf(req[r].row)  w == req[r].row[2] IN
    /\ req[r].step = "insert"
    /\ IF disk.users[u] = None /\ KnownWorkspace(w)
       THEN /\ disk' = [disk EXCEPT !.users[u] = w]
            /\ req' = [req EXCEPT ![r].step = "check"]
       ELSE /\ req' = [req EXCEPT ![r] = Idle]
            /\ UNCHANGED disk
    /\ UNCHANGED <<tokens, historyVars>>

(* assign_role: SELECT the assignment, ...                                 *)
AssignCheck(r) ==
    /\ req[r].step = "check"
    /\ req' = [req EXCEPT ![r] = IF req[r].row \in disk.roles THEN Idle ELSE [@ EXCEPT !.step = "grant"]]
    /\ UNCHANGED <<disk, tokens, historyVars>>

(* ... then INSERT and commit: an assignment that came in between, or a    *)
(* user or a granter who is not there, fails it.  The router gives a user  *)
(* for the granter, whom nothing deletes, or "api-key", which is none.     *)
AssignInsert(r) ==
    LET row == req[r].row IN
    /\ req[r].step = "grant"
    /\ req' = [req EXCEPT ![r] = Idle]
    /\ IF row \notin disk.roles /\ KnownUser(UserOf(row)) /\ KnownWorkspace(row[2])
          /\ KnownGranter(req[r].by)
       THEN disk' = [disk EXCEPT !.roles = @ \cup {row}] /\ Record({row})
       ELSE UNCHANGED <<disk, led>>
    /\ UNCHANGED <<tokens, alone, cut>>

-----------------------------------------------------------------------------
(* Sessions and the requests of admins.                                    *)

Login(u) ==
    /\ disk.users[u] # None /\ <<u, disk.users[u], "admin">> \in disk.roles
    /\ tokens' = tokens \cup {[user |-> u, ws |-> disk.users[u]]}
    /\ Cardinality(tokens') <= MaxTokens
    /\ UNCHANGED <<disk, req, historyVars>>

Expire(t) ==
    /\ tokens' = tokens \ {t}
    /\ UNCHANGED <<disk, req, historyVars>>

(* Whom require_role("admin") lets through: by a token, or by a key.       *)
KeyUsers == {[user |-> "api-key", ws |-> w] : w \in disk.keyed}
Actors   == tokens \cup KeyUsers

(* The workspaces get_workspace_id gives: of a key, or the default one.    *)
Callers == {"default"} \cup disk.keyed

AssignRole(r, a, u, x) ==
    /\ req[r] = Idle
    /\ req' = [req EXCEPT ![r] = [step |-> "check", row |-> <<u, a.ws, x>>, by |-> IF a.user \in User THEN None ELSE a.user]]
    /\ UNCHANGED <<disk, tokens, historyVars>>

(* The caller is let through, ...                                          *)
RemovalStarts(r, a, u, x) ==
    /\ req[r] = Idle
    /\ req' = [req EXCEPT ![r] = [step |-> "remove", row |-> <<u, a.ws, x>>, by |-> None]]
    /\ alone' = {q \in alone : ~Removing(q, a.ws)}
                 \cup {q \in {r} : a.user \in Admins(a.ws) /\ ~\E p \in Request : Removing(p, a.ws)}
    /\ UNCHANGED <<disk, tokens, led, cut>>

(* Fault: without a look at the caller.                                    *)
RemoveRoleOfAnyone(r, a, u, x) == RemovalStarts(r, a, u, x)

(* ... who may not name himself, ...                                       *)
RemoveRole(r, a, u, x) == ~(u = a.user /\ x = "admin") /\ RemovalStarts(r, a, u, x)

(* ... and one DELETE in a later session asks for nothing else.            *)
RemoveCommit(r) ==
    /\ req[r].step = "remove"
    /\ disk' = [disk EXCEPT !.roles = @ \ {req[r].row}]
    /\ req' = [req EXCEPT ![r] = Idle]
    /\ alone' = alone \ {r}
    /\ UNCHANGED <<tokens, led, cut>>

CreateKey(w) ==
    /\ w \in Callers
    /\ disk' = [disk EXCEPT !.keyed = @ \cup {w}]
    /\ UNCHANGED <<handlerVars, historyVars>>

(* The last active one of a workspace.                                     *)
RevokeKey(w) ==
    /\ w \in disk.keyed
    /\ disk' = [disk EXCEPT !.keyed = @ \ {w}]
    /\ UNCHANGED <<handlerVars, historyVars>>

CreateWorkspace(w) ==
    /\ w \notin disk.workspaces
    /\ disk' = [disk EXCEPT !.workspaces = @ \cup {w}]
    /\ UNCHANGED <<handlerVars, historyVars>>

(* Users, keys and roles that refer to it hold it back on SQLite.          *)
DeleteWorkspace(w) ==
    /\ w # "default" /\ w \in disk.workspaces
    /\ ForeignKeys => /\ UsersOf(w) = {} /\ w \notin disk.keyed
                      /\ \A row \in disk.roles : row[2] # w
    /\ disk' = [disk EXCEPT !.workspaces = @ \ {w}]
    /\ UNCHANGED <<handlerVars, historyVars>>

-----------------------------------------------------------------------------
(* The process with its handlers.                                          *)

Progress(r) == RegisterInsert(r) \/ AssignCheck(r) \/ AssignInsert(r) \/ RemoveCommit(r)

Handle ==
    /\ phase = "serving"
    /\ \/ \E r \in Request : RegisterRead(r) \/ Progress(r)
       \/ \E u \in User : Login(u)
       \/ \E t \in tokens : Expire(t)
       \/ \E r \in Request, a \in Actors, u \in User, x \in Managed :
            AssignRole(r, a, u, x) \/ RemoveRole(r, a, u, x)
       \/ \E w \in Workspace :
            CreateKey(w) \/ RevokeKey(w) \/ CreateWorkspace(w) \/ DeleteWorkspace(w)
    /\ UNCHANGED <<dialect, phase, todo, inTxn, faults>>
    /\ conn' = disk'

(* A jwt_secret that is not configured is made up at each start.           *)
Crash ==
    /\ ProcessDies
    /\ cut' = cut \cup {u \in User : Registering(u) /\ disk.users[u] # None}
    /\ req' = [r \in Request |-> Idle]
    /\ tokens' \in {tokens, {}}
    /\ alone' = {}
    /\ UNCHANGED led

Start == StartUp /\ Record(disk'.roles) /\ UNCHANGED <<handlerVars, alone, cut>>
Alembic == AlembicUpgrade /\ UNCHANGED accountVars

Next == Start \/ Handle \/ Crash \/ Alembic

Spec == Init /\ [][Next]_vars

(* The process is started again whenever it is down, and runs on.          *)
FairSpec == Spec /\ WF_vars(Start)

-----------------------------------------------------------------------------
(* Properties.                                                             *)

TypeOK ==
    /\ phase \in {"down", "migrating", "seeding", "templates", "serving"}
    /\ disk.roles \subseteq Row /\ disk.keyed \subseteq Workspace
    /\ disk.users \in [User -> Workspace \cup {None}]
    /\ req \in [Request -> Handler]
    /\ tokens \subseteq Token
    /\ alone \subseteq Request /\ led \subseteq Workspace /\ cut \subseteq User

(* The server comes up for good once it no longer crashes: a start never   *)
(* trips over what an interrupted one, or alembic, has left behind.  Only  *)
(* over a former version's schemas on PostgreSQL it never does.            *)
ComesUp ==
    \/ dialect = "postgres" /\ <<"schemas">> \in disk.objects /\ Outdated
    \/ <>[](phase = "serving")

(* Starting again takes roles from nobody, and gives none to a database    *)
(* that is stamped with the latest version: only the upgrade to that       *)
(* version makes its users admins, and it makes all of them.               *)
RolesSeededOnce ==
    [][phase # "serving" =>
          /\ disk.roles \subseteq disk'.roles
          /\ disk.version = Latest => disk'.roles = disk.roles
          /\ disk.version < Latest /\ disk'.version = Latest => AdminOfAll(disk) \subseteq disk'.roles]_vars

(* The users of a workspace have had an admin among them once none of them *)
(* is registering: of several first ones, at least one found it empty.     *)
FirstIsAdmin ==
    phase = "serving" =>
        \A w \in Workspace : UsersOf(w) # {} =>
            \/ w \in led
            \/ \E u \in UsersOf(w) : Registering(u) \/ u \in cut

(* An admin who removes roles while nobody else in the workspace does,     *)
(* locks nobody out, whatever becomes of tokens and keys between the check *)
(* and the DELETE.  Taking the last admin takes an API key, the token of   *)
(* one who was an admin no more, or two removals under way at once.        *)
NoLockoutAlone ==
    [][\A w \in Workspace :
          Admins(w) # {} /\ (\A r \in Request : Removing(r, w) => r \in alone) => Admins(w)' # {}]_vars
=============================================================================
