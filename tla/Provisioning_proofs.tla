------------------------- MODULE Provisioning_proofs -------------------------
(***************************************************************************)
(* Theorems about the Postgres objects of the apps: for any number of apps *)
(* and databases, and whatever fails, an app that is registered has working*)
(* credentials and a database that is closed to PUBLIC, unless another app *)
(* has dropped it.                                                         *)
(***************************************************************************)
EXTENDS Provisioning, TLAPS

Ops == [pc : {"idle", "delete_row"} \cup Making \cup Dropping,
        kind : {"create", "delete"}, db : Databases \cup {Nothing},
        password : Passwords, failed : BOOLEAN]

Fits(o) ==
    /\ o.pc = "idle" <=> o.db = Nothing
    /\ o.pc = "delete_row" => o.kind = "delete"
    /\ o.pc \in Making => o.kind = "create"

OpsOK == op \in [Apps -> Ops] /\ \A a \in Apps : Fits(op[a])

DatabaseStates == [exists : BOOLEAN, public : BOOLEAN, granted : SUBSET Apps]
SchemaStates == [exists : BOOLEAN, password : Passwords]

ObjectsOK ==
    /\ role \in [Apps -> RoleStates]
    /\ database \in [Databases -> DatabaseStates]
    /\ schema \in [Apps -> SchemaStates]
    /\ rows \in [Apps -> SUBSET Databases]
    /\ past \in [robbed : SUBSET Apps, halfDeleted : SUBSET Apps]

\* What the creation of an app has established by the statement it stands at.
Established(a) ==
    /\ op[a].kind = "create" /\ op[a].pc # "idle" => rows[a] = {}
    /\ op[a].pc \in {"database", "revoke", "grant", "secret", "insert"} =>
           role[a] = "login" /\ op[a].password = "current"
    /\ op[a].pc = "insert" => schema[a].password = "current"
    /\ a \notin past.robbed =>
           /\ op[a].pc \in {"revoke", "grant", "secret", "insert"} =>
                  database[op[a].db].exists
           /\ op[a].pc \in {"grant", "secret", "insert"} => ~database[op[a].db].public
           /\ op[a].pc \in {"secret", "insert"} => a \in database[op[a].db].granted

\* What both properties say of one app.
Works(a) ==
    Sound(a) =>
        /\ role[a] = "login"
        /\ schema[a].password = "current"
        /\ \A d \in rows[a] :
              database[d].exists /\ a \in database[d].granted /\ ~database[d].public

Life(a) == Established(a) /\ Works(a)

ProvisioningInv == OpsOK /\ ObjectsOK /\ \A a \in Apps : Life(a)

\* A step of a leaves the others' objects alone, but for a database that it
\* drops, and then it has robbed them.
Spares(a) ==
    \A b \in Apps \ {a} :
        /\ op'[b] = op[b] /\ rows'[b] = rows[b]
        /\ role'[b] = role[b] /\ schema'[b] = schema[b]
        /\ b \in past'.halfDeleted <=> b \in past.halfDeleted
        /\ b \in past.robbed => b \in past'.robbed
        /\ \A d \in Databases :
              d \in rows[b] \cup {op[b].db} /\ database[d].exists /\ b \notin past'.robbed =>
                  /\ database'[d].exists
                  /\ database'[d].public => database[d].public
                  /\ database[d].granted \subseteq database'[d].granted

-----------------------------------------------------------------------------

LEMMA TypeParts == ProvisioningTypeOK <=> OpsOK /\ ObjectsOK
BY DEF ProvisioningTypeOK, OpsOK, ObjectsOK, Ops, Fits, DatabaseStates, SchemaStates

LEMMA ProvisioningInitOK == ProvisioningInit => ProvisioningInv
<1> SUFFICES ASSUME ProvisioningInit PROVE ProvisioningInv
    OBVIOUS
<1>1. NoOp \in Ops /\ Fits(NoOp) /\ NoOp.pc = "idle"
    BY DEF NoOp, Ops, Fits, Passwords, Making
<1>2. OpsOK
    BY <1>1 DEF ProvisioningInit, OpsOK
<1>3. ObjectsOK
    BY DEF ProvisioningInit, ObjectsOK, RoleStates, DatabaseStates, NoDatabase,
           SchemaStates, NoSchema, Passwords
<1>4. ASSUME NEW a \in Apps PROVE Life(a)
    BY <1>1 DEF ProvisioningInit, Life, Established, Works, Sound
<1> QED
    BY <1>2, <1>3, <1>4 DEF ProvisioningInv

LEMMA AppFacts ==
    ASSUME ProvisioningInv, NEW a \in Apps
    PROVE  /\ op[a] \in Ops /\ Fits(op[a]) /\ Established(a)
           /\ op[a].db \in Databases \cup {Nothing} /\ op[a].password \in Passwords
           /\ op[a].kind \in {"create", "delete"} /\ op[a].failed \in BOOLEAN
           /\ op[a].pc # "idle" => op[a].db \in Databases
           /\ role[a] \in RoleStates /\ schema[a] \in SchemaStates
           /\ schema[a].password \in Passwords /\ rows[a] \in SUBSET Databases
BY ProvisioningAssumption
DEF ProvisioningInv, Life, OpsOK, ObjectsOK, Ops, Fits, SchemaStates

LEMMA OpMoves ==
    ASSUME ProvisioningInv, NEW a \in Apps, NEW next \in Ops, Fits(next),
           OpBecomes(a, next)
    PROVE  OpsOK' /\ op'[a] = next /\ \A b \in Apps \ {a} : op'[b] = op[b]
BY DEF ProvisioningInv, OpsOK, OpBecomes

LEMMA OpMovesOn ==
    ASSUME ProvisioningInv, NEW a \in Apps, op[a].pc # "idle",
           NEW pc \in {"delete_row"} \cup Making \cup Dropping, OpGoes(a, pc),
           pc = "delete_row" => op[a].kind = "delete",
           pc \in Making => op[a].kind = "create"
    PROVE  /\ OpsOK' /\ \A b \in Apps \ {a} : op'[b] = op[b]
           /\ op'[a].pc = pc /\ op'[a].kind = op[a].kind /\ op'[a].db = op[a].db
           /\ op'[a].password = op[a].password /\ op'[a].failed = op[a].failed
<1> DEFINE next == [op[a] EXCEPT !.pc = pc]
<1>1. /\ next \in Ops /\ next.pc = pc /\ next.kind = op[a].kind
      /\ next.db = op[a].db /\ next.password = op[a].password
      /\ next.failed = op[a].failed
    BY AppFacts DEF Ops
<1>2. pc # "idle"
    BY DEF Making, Dropping
<1>3. Fits(next)
    BY <1>1, <1>2, AppFacts DEF Fits
<1>4. OpBecomes(a, next)
    BY DEF OpGoes
<1> HIDE DEF next
<1> QED
    BY <1>1, <1>3, <1>4, OpMoves

\* The invariant follows from what a step does to its own app and spares the
\* others.
LEMMA StepOfApp ==
    ASSUME ProvisioningInv, NEW a \in Apps, Spares(a), OpsOK', ObjectsOK', Life(a)'
    PROVE  ProvisioningInv'
<1>1. ASSUME NEW b \in Apps \ {a} PROVE Life(b)'
    <2>1. /\ op'[b] = op[b] /\ rows'[b] = rows[b]
          /\ role'[b] = role[b] /\ schema'[b] = schema[b]
          /\ b \in past'.halfDeleted <=> b \in past.halfDeleted
          /\ b \in past.robbed => b \in past'.robbed
        BY DEF Spares
    <2>2. ASSUME NEW d \in rows[b] \cup {op[b].db}, d \in Databases,
                 database[d].exists, b \notin past'.robbed
          PROVE  /\ database'[d].exists
                 /\ database'[d].public => database[d].public
                 /\ database[d].granted \subseteq database'[d].granted
        BY <2>2 DEF Spares
    <2>3. Established(b) /\ Works(b)
        BY DEF ProvisioningInv, Life
    <2>4. Established(b)'
        <3>1. op[b].pc \in {"revoke", "grant", "secret", "insert"} => op[b].db \in Databases
            BY AppFacts
        <3> QED
            BY <2>1, <2>2, <2>3, <3>1 DEF Established
    <2>5. Works(b)'
        <3> SUFFICES ASSUME Sound(b)'
                     PROVE  /\ role'[b] = "login" /\ schema'[b].password = "current"
                            /\ \A d \in rows[b] :
                                  /\ database'[d].exists /\ ~database'[d].public
                                  /\ b \in database'[d].granted
            BY <2>1 DEF Works
        <3>1. Sound(b) /\ b \notin past'.robbed
            BY <2>1 DEF Sound
        <3>2. rows[b] \subseteq Databases
            BY AppFacts
        <3> QED
            BY <2>1, <2>2, <2>3, <3>1, <3>2 DEF Works
    <2> QED
        BY <2>4, <2>5 DEF Life
<1> QED
    BY <1>1 DEF ProvisioningInv

-----------------------------------------------------------------------------
(* create_app.                                                             *)

LEMMA BeginCreateOK ==
    ASSUME ProvisioningInv, NEW a \in Apps, BeginCreate(a)
    PROVE  ProvisioningInv'
<1>1. PICK d \in Databases : OpBecomes(a, [NoOp EXCEPT !.pc = "schema", !.db = d])
    BY DEF BeginCreate
<1> DEFINE next == [NoOp EXCEPT !.pc = "schema", !.db = d]
<1>2. next \in Ops /\ next.pc = "schema" /\ next.kind = "create" /\ next.db = d
    BY DEF NoOp, Ops, Making, Passwords
<1>3. Fits(next)
    BY <1>2, ProvisioningAssumption DEF Fits
<1>4. OpBecomes(a, next)
    BY <1>1
<1> HIDE DEF next
<1>5. OpsOK' /\ op'[a] = next /\ \A b \in Apps \ {a} : op'[b] = op[b]
    BY <1>2, <1>3, <1>4, OpMoves
<1>6. /\ UNCHANGED <<role, database, schema, rows>> /\ rows[a] = {}
      /\ past' = [past EXCEPT !.robbed = @ \ {a}]
    BY DEF BeginCreate
<1>7. ObjectsOK' /\ Spares(a)
    BY <1>5, <1>6 DEF ProvisioningInv, ObjectsOK, Spares
<1>8. Life(a)'
    BY <1>2, <1>5, <1>6 DEF Life, Established, Works, Sound
<1> QED
    BY <1>5, <1>7, <1>8, StepOfApp

\* A step of a that leaves the databases alone, and the past of the others.
LEMMA OwnObjects ==
    ASSUME ProvisioningInv, NEW a \in Apps, OpsOK', ObjectsOK', Life(a)',
           \A b \in Apps \ {a} :
               /\ op'[b] = op[b] /\ rows'[b] = rows[b]
               /\ role'[b] = role[b] /\ schema'[b] = schema[b],
           UNCHANGED database,
           past' = past \/ past' = HalfDeleted(a)
                        \/ past' = [past EXCEPT !.halfDeleted = @ \ {a}]
    PROVE  ProvisioningInv'
<1>1. /\ past'.robbed = past.robbed
      /\ \A b \in Apps \ {a} : b \in past'.halfDeleted <=> b \in past.halfDeleted
    BY DEF HalfDeleted, ProvisioningInv, ObjectsOK
<1>2. Spares(a)
    BY <1>1 DEF Spares
<1> QED
    BY <1>2, StepOfApp

LEMMA CreateFailsOK ==
    ASSUME ProvisioningInv, NEW a \in Apps, CreateFails(a)
    PROVE  ProvisioningInv'
<1> DEFINE next == [op[a] EXCEPT !.pc = "drop_schema", !.password = "none"]
<1>1. /\ op[a].pc \in Making /\ OpBecomes(a, next)
      /\ UNCHANGED <<role, database, schema, rows, past>>
    BY DEF CreateFails
<1>2. op[a].kind = "create" /\ op[a].pc # "idle"
    BY <1>1, AppFacts DEF Fits, Making
<1>3. /\ next \in Ops /\ next.pc = "drop_schema" /\ next.kind = op[a].kind
      /\ next.db = op[a].db
    BY AppFacts DEF Ops, Dropping, Passwords
<1>4. Fits(next)
    BY <1>2, <1>3, AppFacts DEF Fits, Making
<1> HIDE DEF next
<1>5. OpsOK' /\ op'[a] = next /\ \A b \in Apps \ {a} : op'[b] = op[b]
    BY <1>1, <1>3, <1>4, OpMoves
<1>6. ObjectsOK'
    BY <1>1 DEF ProvisioningInv, ObjectsOK
<1>7. Life(a)'
    BY <1>1, <1>2, <1>3, <1>5, AppFacts DEF Life, Established, Works, Sound
<1> QED
    BY <1>1, <1>5, <1>6, <1>7, OwnObjects

\* What becomes of the op of a creation that goes on.
LEMMA CreateMovesOn ==
    ASSUME ProvisioningInv, NEW a \in Apps, op[a].pc \in Making,
           NEW pc \in Making, OpGoes(a, pc)
    PROVE  /\ OpsOK' /\ \A b \in Apps \ {a} : op'[b] = op[b]
           /\ op'[a].pc = pc /\ op'[a].kind = "create" /\ op'[a].db = op[a].db
           /\ op'[a].password = op[a].password
           /\ rows[a] = {} /\ op[a].db \in Databases /\ ~Sound(a)'
<1>1. op[a].kind = "create" /\ op[a].pc # "idle" /\ pc \notin {"idle", "delete_row"}
    BY AppFacts DEF Fits, Making
<1>2. /\ OpsOK' /\ \A b \in Apps \ {a} : op'[b] = op[b]
      /\ op'[a].pc = pc /\ op'[a].kind = op[a].kind /\ op'[a].db = op[a].db
      /\ op'[a].password = op[a].password
    BY <1>1, OpMovesOn
<1> QED
    BY <1>1, <1>2, AppFacts DEF Established, Sound

LEMMA SchemaAndRoleOK ==
    ASSUME ProvisioningInv, NEW a \in Apps, MakeSchema(a) \/ EnsureRole(a)
    PROVE  ProvisioningInv'
<1>1. CASE MakeSchema(a)
    <2>1. /\ op[a].pc = "schema" /\ OpGoes(a, "role")
          /\ schema' = [schema EXCEPT ![a].exists = TRUE]
          /\ UNCHANGED <<role, database, rows, past>>
        BY <1>1 DEF MakeSchema, OpAt
    <2>2. /\ OpsOK' /\ \A b \in Apps \ {a} : op'[b] = op[b]
          /\ op'[a].pc = "role" /\ rows[a] = {} /\ ~Sound(a)'
        BY <2>1, CreateMovesOn DEF Making
    <2>3. ObjectsOK' /\ \A b \in Apps \ {a} : schema'[b] = schema[b]
        BY <2>1 DEF ProvisioningInv, ObjectsOK, SchemaStates
    <2>4. Life(a)'
        BY <2>1, <2>2 DEF Life, Established, Works
    <2> QED
        BY <2>1, <2>2, <2>3, <2>4, OwnObjects
<1>2. CASE EnsureRole(a)
    <2>1. /\ op[a].pc = "role" /\ OpGoes(a, "alter")
          /\ role' = [role EXCEPT ![a] = IF @ = "absent" THEN "nologin" ELSE @]
          /\ UNCHANGED <<database, schema, rows, past>>
        BY <1>2 DEF EnsureRole, OpAt
    <2>2. /\ OpsOK' /\ \A b \in Apps \ {a} : op'[b] = op[b]
          /\ op'[a].pc = "alter" /\ rows[a] = {} /\ ~Sound(a)'
        BY <2>1, CreateMovesOn DEF Making
    <2>3. ObjectsOK' /\ \A b \in Apps \ {a} : role'[b] = role[b]
        BY <2>1 DEF ProvisioningInv, ObjectsOK, RoleStates
    <2>4. Life(a)'
        BY <2>1, <2>2 DEF Life, Established, Works
    <2> QED
        BY <2>1, <2>2, <2>3, <2>4, OwnObjects
<1> QED
    BY <1>1, <1>2

LEMMA OutdatedOK ==
    ASSUME ProvisioningInv, NEW a \in Apps, SecretOutdated(a)
    PROVE  /\ schema' \in [Apps -> SchemaStates]
           /\ \A b \in Apps \ {a} : schema'[b] = schema[b]
BY DEF ProvisioningInv, ObjectsOK, SecretOutdated, SchemaStates, Passwords

LEMMA AlterRoleOK ==
    ASSUME ProvisioningInv, NEW a \in Apps, AlterRole(a)
    PROVE  ProvisioningInv'
<1> DEFINE next == [op[a] EXCEPT !.pc = "database", !.password = "current"]
<1>1. /\ op[a].pc = "alter" /\ OpBecomes(a, next) /\ SecretOutdated(a)
      /\ role' = [role EXCEPT ![a] = "login"]
      /\ UNCHANGED <<database, rows, past>>
    BY DEF AlterRole, OpAt
<1>2. op[a].kind = "create" /\ rows[a] = {} /\ op[a].db # Nothing
    BY <1>1, AppFacts DEF Fits, Making, Established
<1>3. /\ next \in Ops /\ next.pc = "database" /\ next.kind = op[a].kind
      /\ next.db = op[a].db /\ next.password = "current"
    BY AppFacts DEF Ops, Making, Passwords
<1>4. Fits(next)
    BY <1>2, <1>3, AppFacts DEF Fits, Making
<1> HIDE DEF next
<1>5. OpsOK' /\ op'[a] = next /\ \A b \in Apps \ {a} : op'[b] = op[b]
    BY <1>1, <1>3, <1>4, OpMoves
<1>6. /\ ObjectsOK' /\ role'[a] = "login"
      /\ \A b \in Apps \ {a} : role'[b] = role[b] /\ schema'[b] = schema[b]
    BY <1>1, OutdatedOK DEF ProvisioningInv, ObjectsOK, RoleStates
<1>7. Life(a)'
    BY <1>1, <1>2, <1>3, <1>5, <1>6 DEF Life, Established, Works, Sound
<1> QED
    BY <1>1, <1>5, <1>6, <1>7, OwnObjects

\* A creation that goes on after a statement on its database.
LEMMA DatabaseStep ==
    ASSUME ProvisioningInv, NEW a \in Apps,
           op[a].pc \in {"database", "revoke", "grant"},
           NEW pc \in {"revoke", "grant", "secret"}, OpGoes(a, pc),
           NEW state \in DatabaseStates,
           database' = [database EXCEPT ![op[a].db] = state],
           UNCHANGED <<role, schema, rows, past>>,
           database[op[a].db].exists =>
               /\ state.exists
               /\ state.public => database[op[a].db].public
               /\ database[op[a].db].granted \subseteq state.granted,
           a \notin past.robbed =>
               /\ state.exists
               /\ pc \in {"grant", "secret"} => ~state.public
               /\ pc = "secret" => a \in state.granted
    PROVE  ProvisioningInv'
<1> DEFINE d == op[a].db
<1>1. /\ OpsOK' /\ \A b \in Apps \ {a} : op'[b] = op[b]
      /\ op'[a].pc = pc /\ op'[a].db = d /\ op'[a].password = op[a].password
      /\ rows[a] = {} /\ d \in Databases /\ ~Sound(a)'
    BY CreateMovesOn DEF Making
<1>2. /\ ObjectsOK' /\ database'[d] = state
      /\ \A e \in Databases \ {d} : database'[e] = database[e]
    BY <1>1 DEF ProvisioningInv, ObjectsOK
<1>3. Spares(a)
    BY <1>1, <1>2 DEF Spares
<1>4. Life(a)'
    BY <1>1, <1>2, AppFacts DEF Life, Established, Works
<1> QED
    BY <1>1, <1>2, <1>3, <1>4, StepOfApp

LEMMA EnsureDatabaseOK ==
    ASSUME ProvisioningInv, NEW a \in Apps, EnsureDatabase(a)
    PROVE  ProvisioningInv'
<1> DEFINE d == op[a].db
           new == [NoDatabase EXCEPT !.exists = TRUE, !.public = TRUE]
           state == IF database[d].exists THEN database[d] ELSE new
<1>1. /\ op[a].pc = "database" /\ OpGoes(a, "revoke")
      /\ UNCHANGED <<role, schema, rows, past>>
      /\ database' = IF database[d].exists THEN database
                     ELSE [database EXCEPT ![d] = new]
    BY DEF EnsureDatabase, OpAt, AfterDatabase
<1>2. d \in Databases /\ database \in [Databases -> DatabaseStates]
    BY <1>1, AppFacts DEF ProvisioningInv, ObjectsOK
<1>3. new \in DatabaseStates /\ new.exists
    BY DEF NoDatabase, DatabaseStates
<1> HIDE DEF new
<1>4. database' = [database EXCEPT ![d] = state]
    BY <1>1, <1>2
<1>5. /\ state \in DatabaseStates /\ state.exists
      /\ database[d].exists => state = database[d]
    BY <1>2, <1>3
<1> HIDE DEF state
<1> QED
    BY <1>1, <1>4, <1>5, DatabaseStep

LEMMA RevokePublicOK ==
    ASSUME ProvisioningInv, NEW a \in Apps, RevokePublic(a)
    PROVE  ProvisioningInv'
<1> DEFINE d == op[a].db
           state == [database[d] EXCEPT !.public = FALSE]
<1>1. /\ op[a].pc = "revoke" /\ OpGoes(a, "grant") /\ database[d].exists
      /\ UNCHANGED <<role, schema, rows, past>>
      /\ database' = [database EXCEPT ![d].public = FALSE]
    BY DEF RevokePublic, OpAt, Refused
<1>2. d \in Databases /\ database[d] \in DatabaseStates
    BY <1>1, AppFacts DEF ProvisioningInv, ObjectsOK
<1>3. database' = [database EXCEPT ![d] = state]
    BY <1>1
<1>4. /\ state \in DatabaseStates /\ state.exists = database[d].exists
      /\ ~state.public /\ state.granted = database[d].granted
    BY <1>2 DEF DatabaseStates
<1> HIDE DEF state
<1> QED
    BY <1>1, <1>3, <1>4, DatabaseStep

LEMMA GrantOK ==
    ASSUME ProvisioningInv, NEW a \in Apps, Grant(a)
    PROVE  ProvisioningInv'
<1> DEFINE d == op[a].db
           state == [database[d] EXCEPT !.granted = @ \cup {a}]
<1>1. /\ op[a].pc = "grant" /\ OpGoes(a, "secret") /\ database[d].exists
      /\ UNCHANGED <<role, schema, rows, past>>
      /\ database' = [database EXCEPT ![d].granted = @ \cup {a}]
    BY DEF Grant, OpAt, Refused
<1>2. /\ d \in Databases /\ database[d] \in DatabaseStates
      /\ a \notin past.robbed => ~database[d].public
    BY <1>1, AppFacts DEF ProvisioningInv, ObjectsOK, Established
<1>3. database' = [database EXCEPT ![d] = state]
    BY <1>1
<1>4. /\ state \in DatabaseStates /\ state.exists = database[d].exists
      /\ state.public = database[d].public
      /\ state.granted = database[d].granted \cup {a}
    BY <1>2 DEF DatabaseStates
<1> HIDE DEF state
<1> QED
    BY <1>1, <1>2, <1>3, <1>4, DatabaseStep

LEMMA StorePasswordOK ==
    ASSUME ProvisioningInv, NEW a \in Apps, StorePassword(a)
    PROVE  ProvisioningInv'
<1>1. /\ op[a].pc = "secret" /\ OpGoes(a, "insert")
      /\ schema' = [schema EXCEPT ![a].password = op[a].password]
      /\ UNCHANGED <<role, database, rows, past>>
    BY DEF StorePassword, OpAt
<1>2. /\ OpsOK' /\ \A b \in Apps \ {a} : op'[b] = op[b]
      /\ op'[a].pc = "insert" /\ op'[a].db = op[a].db
      /\ op'[a].password = op[a].password /\ rows[a] = {} /\ ~Sound(a)'
    BY <1>1, CreateMovesOn DEF Making
<1>3. op[a].password = "current" /\ op[a].password \in Passwords
    BY <1>1, AppFacts DEF Established
<1>4. /\ ObjectsOK' /\ schema'[a].password = op[a].password
      /\ \A b \in Apps \ {a} : schema'[b] = schema[b]
    BY <1>1, <1>3 DEF ProvisioningInv, ObjectsOK, SchemaStates
<1>5. Life(a)'
    BY <1>1, <1>2, <1>3, <1>4, AppFacts DEF Life, Established, Works
<1> QED
    BY <1>1, <1>2, <1>4, <1>5, OwnObjects

LEMMA NoOpTyped == NoOp \in Ops /\ Fits(NoOp) /\ NoOp.pc = "idle" /\ NoOp.kind = "create"
BY DEF NoOp, Ops, Fits, Passwords, Making

LEMMA InsertAppOK ==
    ASSUME ProvisioningInv, NEW a \in Apps, InsertApp(a)
    PROVE  ProvisioningInv'
<1>1. /\ op[a].pc = "insert" /\ OpBecomes(a, NoOp)
      /\ rows' = [rows EXCEPT ![a] = @ \cup {op[a].db}]
      /\ UNCHANGED <<role, database, schema, past>>
    BY DEF InsertApp, OpAt
<1>2. OpsOK' /\ op'[a] = NoOp /\ \A b \in Apps \ {a} : op'[b] = op[b]
    BY <1>1, NoOpTyped, OpMoves
<1>3. op[a].kind = "create" /\ op[a].db \in Databases /\ rows[a] = {}
    BY <1>1, AppFacts DEF Fits, Making, Established
<1>4. /\ ObjectsOK' /\ rows'[a] = {op[a].db}
      /\ \A b \in Apps \ {a} : rows'[b] = rows[b]
    BY <1>1, <1>3 DEF ProvisioningInv, ObjectsOK
<1>5. Established(a)'
    BY <1>2, NoOpTyped DEF Established
<1>6. Works(a)'
    <2> SUFFICES ASSUME a \notin past.robbed
                 PROVE  /\ role[a] = "login" /\ schema[a].password = "current"
                        /\ database[op[a].db].exists
                        /\ a \in database[op[a].db].granted
                        /\ ~database[op[a].db].public
        BY <1>1, <1>4 DEF Works, Sound
    <2> QED
        BY <1>1, AppFacts DEF Established
<1>7. Life(a)'
    BY <1>5, <1>6 DEF Life
<1> QED
    BY <1>1, <1>2, <1>4, <1>7, OwnObjects

-----------------------------------------------------------------------------
(* delete_app, and the rollback of create_app.                             *)

LEMMA BeginDeleteOK ==
    ASSUME ProvisioningInv, NEW a \in Apps, BeginDelete(a)
    PROVE  ProvisioningInv'
<1>1. PICK d \in rows[a] :
          OpBecomes(a, [NoOp EXCEPT !.pc = "drop_schema", !.kind = "delete", !.db = d])
    BY DEF BeginDelete
<1> DEFINE next == [NoOp EXCEPT !.pc = "drop_schema", !.kind = "delete", !.db = d]
<1>2. d \in Databases
    BY AppFacts
<1>3. next \in Ops /\ next.pc = "drop_schema" /\ next.kind = "delete" /\ next.db = d
    BY <1>2 DEF NoOp, Ops, Dropping, Passwords
<1>4. Fits(next)
    BY <1>2, <1>3, ProvisioningAssumption DEF Fits, Making
<1>5. OpBecomes(a, next)
    BY <1>1
<1> HIDE DEF next
<1>6. OpsOK' /\ op'[a] = next /\ \A b \in Apps \ {a} : op'[b] = op[b]
    BY <1>3, <1>4, <1>5, OpMoves
<1>7. UNCHANGED <<role, database, schema, rows, past>> /\ ObjectsOK'
    BY DEF BeginDelete, ProvisioningInv, ObjectsOK
<1>8. Life(a)'
    BY <1>3, <1>6 DEF Life, Established, Works, Sound
<1> QED
    BY <1>6, <1>7, <1>8, OwnObjects

LEMMA DropSchemaOK ==
    ASSUME ProvisioningInv, NEW a \in Apps, DropSchema(a) \/ DropFails(a)
    PROVE  ProvisioningInv'
<1>1. op[a].pc = "drop_schema" /\ UNCHANGED <<role, database, rows, past>>
    BY DEF DropSchema, DropFails, OpAt
<1>2. PICK moved \in Ops : OpBecomes(a, moved) /\ moved.pc = "reach"
                           /\ moved.kind = op[a].kind /\ moved.db = op[a].db
    <2>1. CASE DropSchema(a)
        <3> DEFINE on == [op[a] EXCEPT !.pc = "reach"]
        <3>1. on \in Ops /\ on.pc = "reach" /\ on.kind = op[a].kind /\ on.db = op[a].db
            BY AppFacts DEF Ops, Dropping
        <3>2. OpBecomes(a, on)
            BY <2>1 DEF DropSchema, OpGoes
        <3> HIDE DEF on
        <3> QED
            BY <3>1, <3>2
    <2>2. CASE DropFails(a)
        <3> DEFINE on == [op[a] EXCEPT !.failed = TRUE, !.pc = "reach"]
        <3>1. on \in Ops /\ on.pc = "reach" /\ on.kind = op[a].kind /\ on.db = op[a].db
            BY AppFacts DEF Ops, Dropping
        <3>2. OpBecomes(a, on)
            BY <2>2 DEF DropFails
        <3> HIDE DEF on
        <3> QED
            BY <3>1, <3>2
    <2> QED
        BY <2>1, <2>2
<1>3. Fits(moved)
    BY <1>1, <1>2, AppFacts DEF Fits, Making
<1>4. OpsOK' /\ op'[a] = moved /\ \A b \in Apps \ {a} : op'[b] = op[b]
    BY <1>2, <1>3, OpMoves
<1>5. /\ schema' \in [Apps -> SchemaStates]
      /\ \A b \in Apps \ {a} : schema'[b] = schema[b]
    <2>1. NoSchema \in SchemaStates
        BY DEF NoSchema, SchemaStates, Passwords
    <2>2. schema' = schema \/ schema' = [schema EXCEPT ![a] = NoSchema]
        BY DEF DropSchema, DropFails
    <2> QED
        BY <2>1, <2>2 DEF ProvisioningInv, ObjectsOK
<1>6. ObjectsOK'
    BY <1>1, <1>5 DEF ProvisioningInv, ObjectsOK
<1>7. Life(a)'
    BY <1>1, <1>2, <1>4, AppFacts DEF Life, Established, Works, Sound
<1> QED
    BY <1>1, <1>4, <1>5, <1>6, <1>7, OwnObjects

\* However a teardown ends, its app is not taken for sound if it has a row.
LEMMA TornDownOK ==
    ASSUME ProvisioningInv, NEW a \in Apps, op[a].pc \in Dropping,
           \/ OpBecomes(a, TornDown(a)) /\ past' = Left(a)
           \/ /\ OpBecomes(a, NoOp)
              /\ past' = IF op[a].kind = "delete" THEN HalfDeleted(a) ELSE past,
           UNCHANGED <<database, rows>>,
           role' \in [Apps -> RoleStates], schema' \in [Apps -> SchemaStates],
           \A b \in Apps \ {a} : role'[b] = role[b] /\ schema'[b] = schema[b]
    PROVE  ProvisioningInv'
<1>1. op[a].pc # "idle" /\ op[a].db \in Databases /\ op[a].kind \in {"create", "delete"}
    BY AppFacts DEF Dropping
<1>2. past' = past \/ past' = HalfDeleted(a)
    BY DEF Left
<1>3. ObjectsOK'
    BY <1>2 DEF ProvisioningInv, ObjectsOK, HalfDeleted
<1>4. CASE op[a].kind = "delete" /\ ~op[a].failed /\ OpBecomes(a, TornDown(a))
    <2> DEFINE on == [op[a] EXCEPT !.pc = "delete_row"]
    <2>1. /\ on \in Ops /\ on.pc = "delete_row" /\ on.kind = op[a].kind
          /\ on.db = op[a].db
        BY AppFacts DEF Ops
    <2>2. OpBecomes(a, on)
        BY <1>4 DEF TornDown
    <2> HIDE DEF on
    <2>3. Fits(on)
        BY <1>1, <1>4, <2>1, ProvisioningAssumption DEF Fits, Making
    <2>4. OpsOK' /\ op'[a] = on /\ \A b \in Apps \ {a} : op'[b] = op[b]
        BY <2>1, <2>2, <2>3, OpMoves
    <2>5. Life(a)'
        BY <1>4, <2>1, <2>4 DEF Life, Established, Works, Sound
    <2> QED
        BY <1>2, <1>3, <2>4, <2>5, OwnObjects
<1>5. CASE ~(op[a].kind = "delete" /\ ~op[a].failed /\ OpBecomes(a, TornDown(a)))
    <2>1. OpBecomes(a, NoOp)
        BY <1>5 DEF TornDown
    <2>2. OpsOK' /\ op'[a] = NoOp /\ \A b \in Apps \ {a} : op'[b] = op[b]
        BY <2>1, NoOpTyped, OpMoves
    <2>3. rows[a] = {} \/ a \in past'.halfDeleted
        <3>1. CASE op[a].kind = "create"
            BY <1>1, <3>1, AppFacts DEF Established
        <3>2. CASE op[a].kind = "delete"
            <4>1. past' = HalfDeleted(a)
                BY <1>5, <3>2 DEF Left
            <4> QED
                BY <4>1 DEF HalfDeleted, ProvisioningInv, ObjectsOK
        <3> QED
            BY <1>1, <3>1, <3>2
    <2>4. Life(a)'
        BY <2>2, <2>3, NoOpTyped DEF Life, Established, Works, Sound
    <2> QED
        BY <1>2, <1>3, <2>2, <2>4, OwnObjects
<1> QED
    BY <1>4, <1>5

LEMMA ReachOK ==
    ASSUME ProvisioningInv, NEW a \in Apps, Reach(a)
    PROVE  ProvisioningInv'
<1>1. op[a].pc = "reach" /\ op[a].pc \in Dropping
      /\ UNCHANGED <<role, database, schema, rows>>
    BY DEF Reach, OpAt, Dropping
<1>2. CASE OpGoes(a, "drop_database") /\ past' = past
    <2>1. /\ OpsOK' /\ \A b \in Apps \ {a} : op'[b] = op[b]
          /\ op'[a].pc = "drop_database" /\ op'[a].kind = op[a].kind
        BY <1>1, <1>2, OpMovesOn DEF Dropping, Making
    <2>2. ObjectsOK'
        BY <1>1, <1>2 DEF ProvisioningInv, ObjectsOK
    <2>3. Life(a)'
        BY <1>1, <2>1, AppFacts DEF Life, Established, Works, Sound
    <2> QED
        BY <1>1, <1>2, <2>1, <2>2, <2>3, OwnObjects
<1>3. CASE ~(OpGoes(a, "drop_database") /\ past' = past)
    <2>1. \/ OpBecomes(a, TornDown(a)) /\ past' = Left(a)
          \/ /\ OpBecomes(a, NoOp)
             /\ past' = IF op[a].kind = "delete" THEN HalfDeleted(a) ELSE past
        BY <1>3 DEF Reach
    <2>2. role' \in [Apps -> RoleStates] /\ schema' \in [Apps -> SchemaStates]
        BY <1>1 DEF ProvisioningInv, ObjectsOK
    <2> QED
        BY <1>1, <2>1, <2>2, TornDownOK
<1> QED
    BY <1>2, <1>3

\* Whoever's database it was has been robbed of it.
LEMMA DropDatabaseOK ==
    ASSUME ProvisioningInv, NEW a \in Apps, DropDatabase(a)
    PROVE  ProvisioningInv'
<1> DEFINE d == op[a].db
<1>1. /\ op[a].pc = "drop_database" /\ OpGoes(a, "drop_role")
      /\ UNCHANGED <<role, schema, rows>>
    BY DEF DropDatabase, OpAt
<1>2. /\ OpsOK' /\ \A b \in Apps \ {a} : op'[b] = op[b]
      /\ op'[a].pc = "drop_role" /\ op'[a].kind = op[a].kind
    BY <1>1, OpMovesOn DEF Dropping, Making
<1>3. d \in Databases
    BY <1>1, AppFacts
<1>4. /\ past' \in [robbed : SUBSET Apps, halfDeleted : SUBSET Apps]
      /\ past'.halfDeleted = past.halfDeleted
      /\ past'.robbed = past.robbed \/ past'.robbed = past.robbed \cup Others(d, a)
    BY DEF DropDatabase, ProvisioningInv, ObjectsOK, Others
<1>5. NoDatabase \in DatabaseStates
    BY DEF NoDatabase, DatabaseStates
<1>6. /\ database' \in [Databases -> DatabaseStates]
      /\ \A e \in Databases \ {d} : database'[e] = database[e]
      /\ \/ database'[d] = database[d]
         \/ database[d].exists => Others(d, a) \subseteq past'.robbed
    BY <1>3, <1>5 DEF DropDatabase, ProvisioningInv, ObjectsOK
<1>7. ObjectsOK'
    BY <1>1, <1>4, <1>6 DEF ProvisioningInv, ObjectsOK
<1>8. Spares(a)
    <2> SUFFICES ASSUME NEW b \in Apps \ {a}, NEW e \in Databases,
                        e \in rows[b] \cup {op[b].db}, database[e].exists,
                        b \notin past'.robbed
                 PROVE  database'[e] = database[e]
        BY <1>1, <1>2, <1>4 DEF Spares
    <2>1. e = d => b \in Others(d, a)
        BY DEF Others
    <2> QED
        BY <1>6, <2>1
<1>9. Life(a)'
    BY <1>1, <1>2, AppFacts DEF Life, Established, Works, Sound
<1> QED
    BY <1>2, <1>7, <1>8, <1>9, StepOfApp

LEMMA DropRoleOK ==
    ASSUME ProvisioningInv, NEW a \in Apps, DropRole(a)
    PROVE  ProvisioningInv'
<1>1. /\ op[a].pc = "drop_role" /\ OpBecomes(a, TornDown(a)) /\ past' = Left(a)
      /\ UNCHANGED <<database, rows>>
      /\ \/ role' = [role EXCEPT ![a] = "absent"] /\ SecretOutdated(a)
         \/ UNCHANGED <<role, schema>>
    BY DEF DropRole, OpAt
<1>2. role' \in [Apps -> RoleStates] /\ \A b \in Apps \ {a} : role'[b] = role[b]
    BY <1>1 DEF ProvisioningInv, ObjectsOK, RoleStates
<1>3. /\ schema' \in [Apps -> SchemaStates]
      /\ \A b \in Apps \ {a} : schema'[b] = schema[b]
    BY <1>1, OutdatedOK DEF ProvisioningInv, ObjectsOK
<1> QED
    BY <1>1, <1>2, <1>3, TornDownOK DEF Dropping

LEMMA DeleteRowsOK ==
    ASSUME ProvisioningInv, NEW a \in Apps, DeleteRows(a)
    PROVE  ProvisioningInv'
<1>1. /\ op[a].pc = "delete_row" /\ OpBecomes(a, NoOp)
      /\ UNCHANGED <<role, database, schema>>
    BY DEF DeleteRows, OpAt
<1>2. OpsOK' /\ op'[a] = NoOp /\ \A b \in Apps \ {a} : op'[b] = op[b]
    BY <1>1, NoOpTyped, OpMoves
<1>3. /\ past' = HalfDeleted(a) \/ past' = [past EXCEPT !.halfDeleted = @ \ {a}]
      /\ rows'[a] = {} \/ a \in past'.halfDeleted
      /\ rows' \in [Apps -> SUBSET Databases]
      /\ \A b \in Apps \ {a} : rows'[b] = rows[b]
    BY DEF DeleteRows, HalfDeleted, ProvisioningInv, ObjectsOK
<1>4. ObjectsOK'
    BY <1>1, <1>3 DEF ProvisioningInv, ObjectsOK, HalfDeleted
<1>5. Life(a)'
    BY <1>2, <1>3, NoOpTyped DEF Life, Established, Works, Sound
<1> QED
    BY <1>1, <1>2, <1>3, <1>4, <1>5, OwnObjects

LEMMA LoseRequestsOK ==
    ASSUME ProvisioningInv, LoseRequests
    PROVE  ProvisioningInv'
<1>1. /\ op' = [a \in Apps |-> NoOp] /\ UNCHANGED <<role, database, schema, rows>>
      /\ past' = [past EXCEPT !.halfDeleted =
                      @ \cup {a \in Apps : op[a].kind = "delete"}]
    BY DEF LoseRequests
<1>2. OpsOK' /\ \A a \in Apps : op'[a] = NoOp
    BY <1>1, NoOpTyped DEF OpsOK
<1>3. /\ past' \in [robbed : SUBSET Apps, halfDeleted : SUBSET Apps]
      /\ past'.robbed = past.robbed
      /\ past'.halfDeleted = past.halfDeleted \cup {a \in Apps : op[a].kind = "delete"}
    BY <1>1 DEF ProvisioningInv, ObjectsOK
<1>4. ObjectsOK'
    BY <1>1, <1>3 DEF ProvisioningInv, ObjectsOK
<1>5. ASSUME NEW a \in Apps PROVE Life(a)'
    <2>1. Established(a)'
        BY <1>2, NoOpTyped DEF Established
    <2>2. Sound(a)' => Sound(a)
        <3> SUFFICES ASSUME Sound(a)' PROVE op[a].pc = "idle"
            BY <1>1, <1>3 DEF Sound
        <3>1. rows[a] # {} /\ op[a].kind # "delete"
            BY <1>1, <1>3 DEF Sound
        <3> QED
            BY <3>1, AppFacts DEF Established
    <2>3. Works(a)'
        BY <1>1, <2>2 DEF ProvisioningInv, Life, Works
    <2> QED
        BY <2>1, <2>3 DEF Life
<1> QED
    BY <1>2, <1>4, <1>5 DEF ProvisioningInv

-----------------------------------------------------------------------------

LEMMA ProvisioningNextOK ==
    ProvisioningInv /\ [ProvisioningNext]_provisioningVars => ProvisioningInv'
<1> SUFFICES ASSUME ProvisioningInv, [ProvisioningNext]_provisioningVars
             PROVE  ProvisioningInv'
    OBVIOUS
<1>1. ASSUME NEW a \in Apps, AppStep(a) PROVE ProvisioningInv'
    BY <1>1, BeginCreateOK, CreateFailsOK, SchemaAndRoleOK, AlterRoleOK,
       EnsureDatabaseOK, RevokePublicOK, GrantOK, StorePasswordOK, InsertAppOK,
       BeginDeleteOK, DropSchemaOK, ReachOK, DropDatabaseOK, DropRoleOK, DeleteRowsOK
    DEF AppStep
<1>2. CASE UNCHANGED provisioningVars
    BY <1>2
    DEF provisioningVars, ProvisioningInv, OpsOK, ObjectsOK, Life, Established,
        Works, Sound
<1> QED
    BY <1>1, <1>2, LoseRequestsOK DEF ProvisioningNext

LEMMA ProvisioningInvariant == ProvisioningSpec => []ProvisioningInv
BY ProvisioningInitOK, ProvisioningNextOK, PTL DEF ProvisioningSpec

\* Roles, databases, secrets, rows and requests keep their type.
THEOREM ProvisioningTypeCorrect == ProvisioningSpec => []ProvisioningTypeOK
<1>1. ProvisioningInv => ProvisioningTypeOK
    BY TypeParts DEF ProvisioningInv
<1> QED
    BY <1>1, ProvisioningInvariant, PTL

\* create_app and provision_app: whatever an earlier life of the name has left
\* behind, and whatever failed in between, the stored password is the role's,
\* and the role may use the app's database.
THEOREM CredentialsAlwaysWork == ProvisioningSpec => []CredentialsWork
<1>1. ProvisioningInv => CredentialsWork
    BY DEF ProvisioningInv, Life, Works, CredentialsWork
<1> QED
    BY <1>1, ProvisioningInvariant, PTL

\* provision_app issues the REVOKE whether or not the database was there, so
\* that no registered app's database is open to PUBLIC.
THEOREM PublicIsShutOut == ProvisioningSpec => []PublicShutOut
<1>1. ProvisioningInv => PublicShutOut
    BY DEF ProvisioningInv, Life, Works, PublicShutOut
<1> QED
    BY <1>1, ProvisioningInvariant, PTL
==============================================================================
