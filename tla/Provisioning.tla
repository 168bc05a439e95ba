---------------------------- MODULE Provisioning ----------------------------
(***************************************************************************)
(* What an app owns in the shared Postgres instance: a role with a password*)
(* of its own, and a database (pg_admin.py), made by create_app and dropped*)
(* by delete_app and by the rollback of a create_app that failed (main.py).*)
(*                                                                         *)
(* Unlike AppLifecycle this module has several apps, whose requests        *)
(* interleave, and lets two of them name one database; of their lives it   *)
(* keeps registration and deletion.  Requests on one app do not overlap    *)
(* here.  Postgres and Snowflake are external: a statement that needs an   *)
(* object that is not there fails, and any other may.                      *)
(***************************************************************************)
CONSTANTS
    Apps,          \* names
    Databases,     \* what requests give as pg_database
    Faults,        \* what fails: "make", "drop", "postgres", "restart"
    Nothing        \* no database

ASSUME ProvisioningAssumption ==
    /\ Faults \subseteq {"make", "drop", "postgres", "restart"}
    /\ Nothing \notin Databases

VARIABLES
    role,       \* the app's Postgres role
    database,   \* the databases of the instance
    schema,     \* the app's Snowflake schema, with the secret PG_PASS
    rows,       \* the databases the registry's rows of an app name
    op,         \* the create or delete of the app that is under way
    past        \* for the properties: what has happened to the apps

provisioningVars == <<role, database, schema, rows, op, past>>

\* A role without a password has NOLOGIN.
RoleStates == {"absent", "nologin", "login"}

\* A generated password is the one the app's role has, or one it had.
Passwords == {"none", "current", "old"}

\* public: PUBLIC may connect.  granted: the apps whose role may, and may make
\* its tables in the schema public.
NoDatabase == [exists |-> FALSE, public |-> FALSE, granted |-> {}]

NoSchema == [exists |-> FALSE, password |-> "none"]

\* failed: whether a cleanup step has failed.
NoOp == [pc |-> "idle", kind |-> "create", db |-> Nothing, password |-> "none",
         failed |-> FALSE]

Making == {"schema", "role", "alter", "database", "revoke", "grant", "secret", "insert"}
Dropping == {"drop_schema", "reach", "drop_database", "drop_role"}

\* robbed: the app's database was dropped by a request on another app.
\* halfDeleted: a delete of the app failed, or got lost, on the way.
ProvisioningTypeOK ==
    /\ role \in [Apps -> RoleStates]
    /\ database \in [Databases -> [exists : BOOLEAN, public : BOOLEAN,
                                   granted : SUBSET Apps]]
    /\ schema \in [Apps -> [exists : BOOLEAN, password : Passwords]]
    /\ rows \in [Apps -> SUBSET Databases]
    /\ op \in [Apps -> [pc : {"idle", "delete_row"} \cup Making \cup Dropping,
                        kind : {"create", "delete"}, db : Databases \cup {Nothing},
                        password : Passwords, failed : BOOLEAN]]
    /\ \A a \in Apps :
          /\ op[a].pc = "idle" <=> op[a].db = Nothing
          /\ op[a].pc = "delete_row" => op[a].kind = "delete"
          /\ op[a].pc \in Making => op[a].kind = "create"
    /\ past \in [robbed : SUBSET Apps, halfDeleted : SUBSET Apps]

ProvisioningInit ==
    /\ role = [a \in Apps |-> "absent"]
    /\ database = [d \in Databases |-> NoDatabase]
    /\ schema = [a \in Apps |-> NoSchema]
    /\ rows = [a \in Apps |-> {}]
    /\ op = [a \in Apps |-> NoOp]
    /\ past = [robbed |-> {}, halfDeleted |-> {}]

OpBecomes(a, next) == op' = [op EXCEPT ![a] = next]
OpAt(a, pc) == op[a].pc = pc
OpGoes(a, pc) == OpBecomes(a, [op[a] EXCEPT !.pc = pc])

-----------------------------------------------------------------------------
(* create_app and provision_app.                                           *)

\* There is no row of the name; pg_database is whatever the request says.
BeginCreate(a) ==
    /\ OpAt(a, "idle")
    /\ rows[a] = {}
    /\ \E d \in Databases :
           OpBecomes(a, [NoOp EXCEPT !.pc = "schema", !.db = d])
    /\ past' = [past EXCEPT !.robbed = @ \ {a}]
    /\ UNCHANGED <<role, database, schema, rows>>

\* Statements on what is not there.
Refused(a) ==
    \/ op[a].pc \in {"alter", "grant"} /\ role[a] = "absent"
    \/ op[a].pc \in {"revoke", "grant"} /\ ~database[op[a].db].exists
    \/ op[a].pc = "secret" /\ ~schema[a].exists

\* Any step may raise, the service's and the row's included, and then
\* create_app cleans up.
CreateFails(a) ==
    /\ op[a].pc \in Making
    /\ "make" \in Faults \/ Refused(a)
    /\ OpBecomes(a, [op[a] EXCEPT !.pc = "drop_schema", !.password = "none"])
    /\ UNCHANGED <<role, database, schema, rows, past>>

\* IF NOT EXISTS; the stage goes with the schema.
MakeSchema(a) ==
    /\ OpAt(a, "schema")
    /\ schema' = [schema EXCEPT ![a].exists = TRUE]
    /\ OpGoes(a, "role")
    /\ UNCHANGED <<role, database, rows, past>>

\* A role that is there is left as it is; a new one cannot log in yet.
EnsureRole(a) ==
    /\ OpAt(a, "role")
    /\ role' = [role EXCEPT ![a] = IF @ = "absent" THEN "nologin" ELSE @]
    /\ OpGoes(a, "alter")
    /\ UNCHANGED <<database, schema, rows, past>>

\* The secret keeps what is no longer the password of the role.
SecretOutdated(a) ==
    schema' = [schema EXCEPT ![a].password = IF @ = "current" THEN "old" ELSE @]

\* Mutant: a role that can log in keeps its password.
AlterRoleOnce(a) ==
    /\ OpAt(a, "alter")
    /\ ~Refused(a)
    /\ IF role[a] = "login"
       THEN /\ OpBecomes(a, [op[a] EXCEPT !.pc = "database", !.password = "old"])
            /\ UNCHANGED <<role, schema>>
       ELSE /\ role' = [role EXCEPT ![a] = "login"]
            /\ SecretOutdated(a)
            /\ OpBecomes(a, [op[a] EXCEPT !.pc = "database", !.password = "current"])
    /\ UNCHANGED <<database, rows, past>>

\* ALTER ROLE ... WITH LOGIN PASSWORD, also of a role that was there.
AlterRole(a) ==
    /\ OpAt(a, "alter")
    /\ ~Refused(a)
    /\ role' = [role EXCEPT ![a] = "login"]
    /\ SecretOutdated(a)
    /\ OpBecomes(a, [op[a] EXCEPT !.pc = "database", !.password = "current"])
    /\ UNCHANGED <<database, rows, past>>

\* Mutant: the privileges of a database that was there are taken to be right.
AfterDatabaseTrusting(d) == IF database[d].exists THEN "grant" ELSE "revoke"

\* The REVOKE is issued for a database that was there as well.
AfterDatabase(d) == "revoke"

\* A new database is open to PUBLIC.  (When another request creates it between
\* the SELECT and the CREATE, the latter fails.)
EnsureDatabase(a) ==
    LET d == op[a].db
    IN  /\ OpAt(a, "database")
        /\ database' = IF database[d].exists THEN database
                       ELSE [database EXCEPT ![d] =
                                [NoDatabase EXCEPT !.exists = TRUE, !.public = TRUE]]
        /\ OpGoes(a, AfterDatabase(d))
        /\ UNCHANGED <<role, schema, rows, past>>

RevokePublic(a) ==
    /\ OpAt(a, "revoke")
    /\ ~Refused(a)
    /\ database' = [database EXCEPT ![op[a].db].public = FALSE]
    /\ OpGoes(a, "grant")
    /\ UNCHANGED <<role, schema, rows, past>>

\* GRANT CONNECT and, over a second connection, ALL on the schema public.
Grant(a) ==
    /\ OpAt(a, "grant")
    /\ ~Refused(a)
    /\ database' = [database EXCEPT ![op[a].db].granted = @ \cup {a}]
    /\ OpGoes(a, "secret")
    /\ UNCHANGED <<role, schema, rows, past>>

\* PG_PASS; the app's other secrets and its service do not concern Postgres.
StorePassword(a) ==
    /\ OpAt(a, "secret")
    /\ ~Refused(a)
    /\ schema' = [schema EXCEPT ![a].password = op[a].password]
    /\ OpGoes(a, "insert")
    /\ UNCHANGED <<role, database, rows, past>>

InsertApp(a) ==
    /\ OpAt(a, "insert")
    /\ rows' = [rows EXCEPT ![a] = @ \cup {op[a].db}]
    /\ OpBecomes(a, NoOp)
    /\ UNCHANGED <<role, database, schema, past>>

-----------------------------------------------------------------------------
(* delete_app, _teardown_app_objects and deprovision_app.                  *)

\* The suspension that comes first concerns the service only.
BeginDelete(a) ==
    /\ OpAt(a, "idle")
    /\ \E d \in rows[a] :
           OpBecomes(a, [NoOp EXCEPT !.pc = "drop_schema", !.kind = "delete", !.db = d])
    /\ UNCHANGED <<role, database, schema, rows, past>>

\* CASCADE: with the secrets.
DropSchema(a) ==
    /\ OpAt(a, "drop_schema")
    /\ schema' = [schema EXCEPT ![a] = NoSchema]
    /\ OpGoes(a, "reach")
    /\ UNCHANGED <<role, database, rows, past>>

\* One of Snowflake's objects cannot be dropped; the other steps follow.
DropFails(a) ==
    /\ "drop" \in Faults
    /\ OpAt(a, "drop_schema")
    /\ OpBecomes(a, [op[a] EXCEPT !.failed = TRUE, !.pc = "reach"])
    /\ UNCHANGED <<role, database, schema, rows, past>>

HalfDeleted(a) == [past EXCEPT !.halfDeleted = @ \cup {a}]

\* delete_app keeps the row when a step has failed; a create is over.
TornDown(a) ==
    IF op[a].kind = "delete" /\ ~op[a].failed
    THEN [op[a] EXCEPT !.pc = "delete_row"] ELSE NoOp

\* The row of a delete that failed is all that tells of what is left.
Left(a) == IF op[a].kind = "delete" /\ op[a].failed THEN HalfDeleted(a) ELSE past

\* Reading the credentials, whose failure counts, and connecting, which
\* deprovision_app gives up silently.
Reach(a) ==
    /\ OpAt(a, "reach")
    /\ \/ OpGoes(a, "drop_database") /\ past' = past
       \/ "drop" \in Faults /\ OpBecomes(a, NoOp)
              /\ past' = IF op[a].kind = "delete" THEN HalfDeleted(a) ELSE past
       \/ "postgres" \in Faults /\ OpBecomes(a, TornDown(a)) /\ past' = Left(a)
    /\ UNCHANGED <<role, database, schema, rows>>

Others(d, a) == {b \in Apps \ {a} : d \in rows[b] \cup {op[b].db}}

\* The sessions are ended and the database is dropped; failures are swallowed.
DropDatabase(a) ==
    LET d == op[a].db
    IN  /\ OpAt(a, "drop_database")
        /\ \/ /\ database' = [database EXCEPT ![d] = NoDatabase]
              /\ past' = [past EXCEPT !.robbed =
                             IF database[d].exists THEN @ \cup Others(d, a) ELSE @]
           \/ "postgres" \in Faults /\ UNCHANGED <<database, past>>
        /\ OpGoes(a, "drop_role")
        /\ UNCHANGED <<role, schema, rows>>

\* Postgres refuses to drop a role that has privileges anywhere.
DropRole(a) ==
    /\ OpAt(a, "drop_role")
    /\ \/ /\ \A d \in Databases : a \notin database[d].granted
          /\ role' = [role EXCEPT ![a] = "absent"]
          /\ SecretOutdated(a)
       \/ /\ "postgres" \in Faults \/ \E d \in Databases : a \in database[d].granted
          /\ UNCHANGED <<role, schema>>
    /\ OpBecomes(a, TornDown(a))
    /\ past' = Left(a)
    /\ UNCHANGED <<database, rows>>

\* registry.delete_app
DeleteRows(a) ==
    /\ OpAt(a, "delete_row")
    /\ \/ /\ rows' = [rows EXCEPT ![a] = {}]
          /\ past' = [past EXCEPT !.halfDeleted = @ \ {a}]
       \/ "drop" \in Faults /\ rows' = rows /\ past' = HalfDeleted(a)
    /\ OpBecomes(a, NoOp)
    /\ UNCHANGED <<role, database, schema>>

-----------------------------------------------------------------------------

\* The Controller restarts: a create that has no row yet leaves all it has made.
LoseRequests ==
    /\ "restart" \in Faults
    /\ \E a \in Apps : ~OpAt(a, "idle")
    /\ op' = [a \in Apps |-> NoOp]
    /\ past' = [past EXCEPT !.halfDeleted = @ \cup {a \in Apps : op[a].kind = "delete"}]
    /\ UNCHANGED <<role, database, schema, rows>>

AppStep(a) ==
    \/ BeginCreate(a) \/ CreateFails(a) \/ MakeSchema(a) \/ EnsureRole(a)
    \/ AlterRole(a) \/ EnsureDatabase(a) \/ RevokePublic(a) \/ Grant(a)
    \/ StorePassword(a) \/ InsertApp(a)
    \/ BeginDelete(a) \/ DropSchema(a) \/ DropFails(a) \/ Reach(a)
    \/ DropDatabase(a) \/ DropRole(a) \/ DeleteRows(a)

ProvisioningNext == LoseRequests \/ \E a \in Apps : AppStep(a)

ProvisioningSpec ==
    ProvisioningInit /\ [][ProvisioningNext]_provisioningVars

-----------------------------------------------------------------------------
(* Properties.                                                             *)

\* Registered, and not being deleted, half deleted or robbed.
Sound(a) ==
    /\ rows[a] # {}
    /\ op[a].pc = "idle"
    /\ a \notin past.robbed \cup past.halfDeleted

\* Whatever an earlier life of the name has left behind, and whoever shares
\* the database: the password in the app's secret is that of its role, and
\* the role may connect to the app's database and make its tables there.
CredentialsWork ==
    \A a \in Apps : Sound(a) =>
        /\ role[a] = "login"
        /\ schema[a].password = "current"
        /\ \A d \in rows[a] : database[d].exists /\ a \in database[d].granted

\* PUBLIC may not connect to the database of a registered app, even when the
\* database is what a create that failed or got lost half way has left.
PublicShutOut ==
    \A a \in Apps : Sound(a) => \A d \in rows[a] : ~database[d].public

\* "Roll back every object we made", with drops that are "safe to call
\* whether or not the object was created": the rollback of a create that
\* failed drops no other app's database.
RollbackSparesOthers ==
    [][ \A a \in Apps :
            OpAt(a, "drop_database") /\ op[a].kind = "create" =>
                \A b \in Apps \ {a} : op[a].db \in rows[b] =>
                    database'[op[a].db] = database[op[a].db] ]_provisioningVars
=============================================================================
