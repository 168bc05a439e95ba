---------------------------- MODULE AppLifecycle ----------------------------
(***************************************************************************)
(* The life of one app under the Controller (Controller/app/main.py): its  *)
(* registry row, its SPCS service, the schema and secrets it owns, its     *)
(* deploy history, and the request threads that change them.               *)
(*                                                                         *)
(* Routes are synchronous functions that uvicorn runs in a thread pool; a  *)
(* mutating route answers 202 and leaves a background task to a pool       *)
(* thread.  One worker here is one such request: it runs the handler, then *)
(* the task.  Every statement goes through snowflake_client.execute_sql,   *)
(* which holds one process-wide lock, so a statement is an atomic step and *)
(* everything between two statements belongs to one of them.  A worker's   *)
(* pc names the statement it issues next.                                  *)
(*                                                                         *)
(* All lifecycle operations share _run_lifecycle_task, and the record they *)
(* snapshot in the history is the configuration they build the spec from:  *)
(* worker[w].cfg, fixed when the handler reads the row.                    *)
(***************************************************************************)
EXTENDS DeployHistory

CONSTANTS
    Workers,      \* request threads
    Ops,          \* operations users request in this instance
    Faults,       \* statements that may raise, and outages that may happen
    Pads,         \* PAD files, by stage path
    Tiers,        \* (resource_tier, use_caller_rights) pairs
    Licenses,     \* license ids, each with its own key
    UserRoles,    \* Mendix userroles; a role mapping is the set it targets
    Slots,        \* app_eai_N slots
    ConstNames,   \* names of Mendix constants
    Declares,     \* Declares[pad]: the constants a PAD declares
    Defaulted,    \* the constants whose declaration has a default
    RolesIn,      \* RolesIn[pad]: the userroles a PAD declares
    Images,       \* MENDIX_BASE_IMAGE over the application's versions, in order
    None          \* SQL NULL

ASSUME LifecycleAssumption ==
    /\ Declares \in [Pads -> SUBSET ConstNames]
    /\ RolesIn \in [Pads -> SUBSET UserRoles]
    /\ Defaulted \subseteq ConstNames
    /\ None \notin Pads /\ None \notin Licenses /\ None \notin Images
    /\ None \notin {"create", "delete", "deploy", "constants", "spec",
                   "platform_update", "license", "delete_license",
                   "role_mapping", "delete_role_mapping", "rollback",
                   "external_access", "suspend", "resume"}
    /\ Tiers # {}
    /\ Images \subseteq Nat /\ Images # {}

VARIABLES
    row,       \* the app's row in MENDIX_APPS
    svc,       \* its SPCS service
    vault,     \* the secrets in its schema: constants, and the license key
    objects,   \* its other objects: schema, application role, Postgres database
    history,   \* its MENDIX_DEPLOY_HISTORY rows
    worker,    \* the request threads
    staged,    \* the PADs under apps/<name>/ on the deploy stage
    env        \* the controller's environment: base image, bound EAI slots

vars == <<row, svc, vault, objects, history, worker, staged, env>>

-----------------------------------------------------------------------------
(* Types                                                                   *)

Transient == {"DEPLOYING", "SUSPENDING", "RESUMING"}
Settled == {"NOT_DEPLOYED", "READY", "FAILED", "SUSPENDED"}
Statuses == Transient \cup Settled

\* Operations whose task rebuilds the whole spec with _build_spec.
SpecOps == {"deploy", "constants", "spec", "platform_update", "license",
            "delete_license", "role_mapping", "delete_role_mapping", "rollback"}
TaskOps == SpecOps \cup {"external_access", "suspend", "resume"}
AllOps == TaskOps \cup {"create", "delete"}

\* The columns a deploy-history row snapshots; in svc.cfg, what the service
\* was last told to run, ext being the slots its EAI list was composed from.
Config == [pad : Pads \cup {None}, tier : Tiers, license : Licenses \cup {None},
           mapping : SUBSET UserRoles, ext : SUBSET Slots,
           consts : SUBSET ConstNames]
BlankConfig == [pad |-> None, tier |-> CHOOSE t \in Tiers : TRUE,
                license |-> None, mapping |-> {}, ext |-> {}, consts |-> {}]

Row == [exists : BOOLEAN, status : Statuses, failedOp : TaskOps \cup {None},
        cfg : Config, roles : SUBSET UserRoles, image : Images \cup {None},
        stale : BOOLEAN]
NoRow == [exists |-> FALSE, status |-> "NOT_DEPLOYED", failedOp |-> None,
          cfg |-> BlankConfig, roles |-> {}, image |-> None, stale |-> FALSE]

\* STARTING: not yet RUNNING. UP: RUNNING, containers not READY. SERVING: both.
Service == [exists : BOOLEAN, state : {"STARTING", "UP", "SERVING", "SUSPENDED"},
            cfg : Config, image : Images \cup {None}]
NoService == [exists |-> FALSE, state |-> "SUSPENDED", cfg |-> BlankConfig,
              image |-> None]

Vault == [consts : SUBSET ConstNames, key : Licenses \cup {None}]
EmptyVault == [consts |-> {}, key |-> None]

Teardown == {"td_service", "td_role", "td_schema", "td_history", "td_pg"}
Provision == {"schema", "provision", "service", "role", "insert"}
Pcs == {"idle", "prepare", "target", "secret", "key", "mark", "upfront",
        "sync", "persist", "apply", "eai", "poll", "containers", "stamp",
        "drop", "timeout", "fail", "record", "prune", "quiesce", "td_row"}
       \cup Teardown \cup Provision

\* todo: constant secrets still to write. seen: the status its handler read.
\* outcome: READY, or FAILED once the task, or a teardown step, has failed.
Worker == [pc : Pcs, op : AllOps \cup {None}, cfg : Config,
           todo : SUBSET ConstNames, seen : Statuses, outcome : Outcomes]
IdleWorker == [pc |-> "idle", op |-> None, cfg |-> BlankConfig, todo |-> {},
               seen |-> "NOT_DEPLOYED", outcome |-> "READY"]

TypeOK ==
    /\ row \in Row
    /\ svc \in Service
    /\ vault \in Vault
    /\ objects \subseteq {"schema", "role", "postgres"}
    /\ history \in Seq(HistoryRow(Config))
    /\ worker \in [Workers -> Worker]
    /\ staged \subseteq Pads
    /\ env \in [image : Images, bound : SUBSET Slots]

Init ==
    /\ row = NoRow
    /\ svc = NoService
    /\ vault = EmptyVault
    /\ objects = {}
    /\ history = <<>>
    /\ worker = [w \in Workers |-> IdleWorker]
    /\ staged \in SUBSET Pads
    /\ env \in [image : Images, bound : {Slots}]

-----------------------------------------------------------------------------
(* Threads                                                                 *)

At(w, pc) == worker[w].pc = pc

\* The thread moves on to its next statement, or back to the pool.
Continue(w, pc, outcome) ==
    worker' = [worker EXCEPT ![w] = IF pc = "idle" THEN IdleWorker
                                    ELSE [@ EXCEPT !.pc = pc, !.outcome = outcome]]
Goto(w, pc) == Continue(w, pc, worker[w].outcome)

\* A request enters the pool after the handler's first read of the row.
Enter(w, op, pc, cfg, todo) ==
    /\ worker' = [worker EXCEPT ![w] =
                    [pc |-> pc, op |-> op, cfg |-> cfg, todo |-> todo,
                     seen |-> row.status, outcome |-> "READY"]]
    /\ UNCHANGED <<row, svc, vault, objects, history, staged, env>>

\* UPDATE ... WHERE name: no row, no effect, no error.
UpdateApp(new) == row' = IF row.exists THEN new ELSE row

\* _record_for_mutation: 404 without a row, 409 while a status is transient.
\* (403 is decided by auth.authorize on owner_role, which no operation changes.)
Admits(w) ==
    /\ At(w, "idle")
    /\ row.exists
    /\ row.status \notin Transient

\* _require_pad_deployed
PadDeployed == row.cfg.pad # None

-----------------------------------------------------------------------------
(* Handlers: the first read of the row, its guards, and what the task will *)
(* apply.                                                                  *)

\* trigger_deploy: 400 with no .zip staged; _resolve_staged_pad takes the
\* newest, here any that is staged.  _prepare_deploy reads the row again.
TriggerDeploy(w) ==
    /\ "deploy" \in Ops
    /\ Admits(w)
    /\ \E pad \in staged :
          Enter(w, "deploy", "prepare", [row.cfg EXCEPT !.pad = pad], {})

\* update_constants: only the changed values are written as secrets; masked
\* ones ("<HIDDEN>") keep the secret they have, and nothing changed is a no-op.
UpdateConstants(w) ==
    /\ "constants" \in Ops
    /\ Admits(w)
    /\ PadDeployed
    /\ \E changed \in SUBSET ConstNames \ {{}} :
          Enter(w, "constants", "secret",
                [row.cfg EXCEPT !.consts = @ \cup changed], changed)

UpdateSpec(w) ==
    /\ "spec" \in Ops
    /\ Admits(w)
    /\ PadDeployed
    /\ \E t \in Tiers : Enter(w, "spec", "mark", [row.cfg EXCEPT !.tier = t], {})

\* apply_platform_update: the same task as a spec change, nothing changed.
ApplyPlatformUpdate(w) ==
    /\ "platform_update" \in Ops
    /\ Admits(w)
    /\ row.stale
    /\ PadDeployed
    /\ Enter(w, "platform_update", "mark", row.cfg, {})

\* update_external_access: no PAD needed, the slots must be bound.
UpdateExternalAccess(w) ==
    /\ "external_access" \in Ops
    /\ Admits(w)
    /\ \E slots \in SUBSET env.bound :
          Enter(w, "external_access", "mark", [row.cfg EXCEPT !.ext = slots], {})

\* update_license: the key is written before the status.
UpdateLicense(w) ==
    /\ "license" \in Ops
    /\ Admits(w)
    /\ PadDeployed
    /\ \E l \in Licenses :
          Enter(w, "license", "key", [row.cfg EXCEPT !.license = l], {})

DeleteLicense(w) ==
    /\ "delete_license" \in Ops
    /\ Admits(w)
    /\ PadDeployed
    /\ Enter(w, "delete_license", "mark", [row.cfg EXCEPT !.license = None], {})

\* update_role_mapping: the targets are validated when userroles are known.
UpdateRoleMapping(w) ==
    /\ "role_mapping" \in Ops
    /\ Admits(w)
    /\ PadDeployed
    /\ \E m \in SUBSET UserRoles :
          /\ row.roles # {} => m \subseteq row.roles
          /\ Enter(w, "role_mapping", "mark", [row.cfg EXCEPT !.mapping = m], {})

DeleteRoleMapping(w) ==
    /\ "delete_role_mapping" \in Ops
    /\ Admits(w)
    /\ PadDeployed
    /\ Enter(w, "delete_role_mapping", "mark", [row.cfg EXCEPT !.mapping = {}], {})

\* rollback_app reads the history in a second statement.
RollbackApp(w) ==
    /\ "rollback" \in Ops
    /\ Admits(w)
    /\ Enter(w, "rollback", "target", row.cfg, {})

SuspendApp(w) ==
    /\ "suspend" \in Ops
    /\ Admits(w)
    /\ Enter(w, "suspend", "mark", row.cfg, {})

ResumeApp(w) ==
    /\ "resume" \in Ops
    /\ Admits(w)
    /\ Enter(w, "resume", "mark", row.cfg, {})

\* delete_app: no task, and not blocked by a transient status.
DeleteApp(w) ==
    /\ "delete" \in Ops
    /\ At(w, "idle")
    /\ row.exists
    /\ Enter(w, "delete", "quiesce", row.cfg, {})

\* create_app: 409 when the name is taken; the slots must be bound.
CreateApp(w) ==
    /\ "create" \in Ops
    /\ At(w, "idle")
    /\ ~row.exists
    /\ \E t \in Tiers, l \in Licenses \cup {None}, slots \in SUBSET env.bound,
          names \in SUBSET ConstNames :
          Enter(w, "create", "schema",
                [BlankConfig EXCEPT !.tier = t, !.license = l, !.ext = slots,
                                    !.consts = names], names)

\* _prepare_deploy: 422 when a constant is new and has no default.
PrepareDeploy(w) ==
    LET pad == worker[w].cfg.pad
        new == Declares[pad] \ row.cfg.consts
    IN  /\ At(w, "prepare")
        /\ IF row.exists /\ new \subseteq Defaulted
           THEN worker' = [worker EXCEPT ![w] =
                             [@ EXCEPT !.pc = "mark", !.todo = new,
                                       !.cfg = [row.cfg EXCEPT !.pad = pad,
                                                               !.consts = @ \cup new]]]
           ELSE Goto(w, "idle")
        /\ UNCHANGED <<row, svc, vault, objects, history, staged, env>>

\* A rollback keeps the app's current constants and restores the rest.
RollbackTargets(c) == {[e.cfg EXCEPT !.consts = c.consts] : e \in ReadyRows(history)}

\* rollback_app: 404 without a READY row, 409 when the app is READY on that
\* configuration already or the PAD has left the stage.
ChooseTarget(w) ==
    LET c == worker[w].cfg
        Refused(t) == \/ worker[w].seen = "READY" /\ t = c
                      \/ t.pad \notin staged
    IN  /\ At(w, "target")
        /\ \/ /\ RollbackTargets(c) = {} \/ \E t \in RollbackTargets(c) : Refused(t)
              /\ Goto(w, "idle")
           \/ \E t \in RollbackTargets(c) :
                /\ ~Refused(t)
                /\ worker' = [worker EXCEPT ![w].pc = "mark", ![w].cfg = t]
        /\ UNCHANGED <<row, svc, vault, objects, history, staged, env>>

-----------------------------------------------------------------------------
(* Statements that fail.                                                   *)

\* What worker w's next statement names no longer exists, or exists already.
Impossible(w) ==
    \/ At(w, "secret") /\ "schema" \notin objects
    \/ At(w, "sync") /\ "schema" \notin objects
    \/ At(w, "key") /\ "schema" \notin objects
    \/ At(w, "provision") /\ "schema" \notin objects
    \/ At(w, "apply") /\ ~svc.exists
    \/ At(w, "eai") /\ ~svc.exists
    \/ At(w, "service") /\ svc.exists

\* Mutant: an exception inside the try leaves without writing FAILED.
AfterRaiseUnmarked(pc, op) ==
    CASE pc = "quiesce" \/ op = "create" -> "td_service"
      [] pc \in {"sync", "persist", "apply", "eai", "stamp", "drop", "timeout", "fail"}
           -> "record"
      [] OTHER -> "idle"

\* Where an exception takes a thread.  A handler answers 500 and is done, and
\* so is a task that raises before _run_lifecycle_task's try.  Inside the try
\* the task goes on to write FAILED; an exception in that write is swallowed.
\* create_app tears down what it made, delete_app ignores a failed suspend.
AfterRaise(pc, op) ==
    CASE pc = "quiesce" \/ op = "create" -> "td_service"
      [] pc \in {"sync", "persist", "apply", "eai", "stamp", "drop", "timeout"} -> "fail"
      [] pc = "fail" /\ op \notin {"suspend", "resume"} -> "record"
      [] OTHER -> "idle"

\* Model bound: rows that lost pruning, or a crash before it, leave behind.
HistorySlack == 1
UnprunedAllowed == Len(history) <= Keep + HistorySlack

\* The statement at w's pc raises and has no effect.  Status queries swallow
\* their errors, and teardown steps are collected: see Poll and TearDown.
Raise(w) ==
    LET pc == worker[w].pc
    IN  /\ pc \notin {"idle", "poll", "containers"} \cup Teardown
        /\ pc \in Faults \/ Impossible(w)
        /\ pc = "prune" => UnprunedAllowed
        /\ Continue(w, AfterRaise(pc, worker[w].op),
                    IF pc = "quiesce" THEN "READY" ELSE "FAILED")
        /\ UNCHANGED <<row, svc, vault, objects, history, staged, env>>

-----------------------------------------------------------------------------
(* Statements of handlers and tasks.                                       *)

\* _create_or_replace_secret for one constant: in the handler before the
\* status write, in a deploy's action, or while the app is created.
AfterSecrets(op) ==
    CASE op = "create" -> "service" [] op = "deploy" -> "persist" [] OTHER -> "mark"

WriteSecret(w) ==
    /\ At(w, "secret") \/ At(w, "sync")
    /\ ~Impossible(w)
    /\ \E c \in worker[w].todo :
          /\ vault' = [vault EXCEPT !.consts = @ \cup {c}]
          /\ worker' = [worker EXCEPT
                ![w].todo = @ \ {c},
                ![w].pc = IF worker[w].todo = {c} THEN AfterSecrets(worker[w].op) ELSE @]
    /\ UNCHANGED <<row, svc, objects, history, staged, env>>

\* create_app goes on with the constants' secrets, if there are any.
AfterKey(todo) == IF todo # {} THEN "secret" ELSE "service"

\* MX_LICENSE_KEY, in update_license and create_app.
WriteKey(w) ==
    /\ At(w, "key")
    /\ ~Impossible(w)
    /\ vault' = [vault EXCEPT !.key = worker[w].cfg.license]
    /\ Goto(w, IF worker[w].op # "create" THEN "mark" ELSE AfterKey(worker[w].todo))
    /\ UNCHANGED <<row, svc, objects, history, staged, env>>

\* Mutant: a status of its own, which _TRANSIENT_STATUSES does not list.
InProgressUnlisted(op) ==
    CASE op = "suspend" -> "SUSPENDING"
      [] op = "resume" -> "RESUMING"
      [] op = "constants" -> "UPDATING"
      [] OTHER -> "DEPLOYING"

\* The transient status of an operation, and its task's first statement.
InProgress(op) ==
    CASE op = "suspend" -> "SUSPENDING"
      [] op = "resume" -> "RESUMING"
      [] OTHER -> "DEPLOYING"

\* Mutant: a deploy lists its new constants before it writes their secrets.
TaskStartPersisting(op, todo) ==
    CASE op \in {"constants", "external_access", "license", "delete_license",
                 "role_mapping", "delete_role_mapping"} -> "upfront"
      [] op = "deploy" /\ todo # {} -> "persist"
      [] OTHER -> "apply"

\* Mutant: a rollback restores the external access and nothing else.
TaskStartNoRespec(op, todo) ==
    CASE op \in {"constants", "external_access", "license", "delete_license",
                 "role_mapping", "delete_role_mapping"} -> "upfront"
      [] op = "deploy" /\ todo # {} -> "sync"
      [] op = "rollback" -> "eai"
      [] OTHER -> "apply"

TaskStart(op, todo) ==
    CASE op \in {"constants", "external_access", "license", "delete_license",
                 "role_mapping", "delete_role_mapping"} -> "upfront"
      [] op = "deploy" /\ todo # {} -> "sync"
      [] OTHER -> "apply"

\* Mutant: the image is stamped when the change is accepted, not when it is up.
MarkInProgressStamping(w) ==
    LET op == worker[w].op
    IN  /\ At(w, "mark")
        /\ UpdateApp([row EXCEPT !.status = InProgress(op), !.image = env.image])
        /\ Goto(w, TaskStart(op, worker[w].todo))
        /\ UNCHANGED <<svc, vault, objects, history, staged, env>>

\* The handler's last statement; the task it adds runs after the response.
MarkInProgress(w) ==
    LET op == worker[w].op
    IN  /\ At(w, "mark")
        /\ UpdateApp([row EXCEPT !.status = InProgress(op)])
        /\ Goto(w, TaskStart(op, worker[w].todo))
        /\ UNCHANGED <<svc, vault, objects, history, staged, env>>

\* Mutant: a role mapping is applied without being persisted.
PersistedEarlyNoMapping(op, c, t) ==
    CASE op \in {"constants", "deploy"} -> [c EXCEPT !.consts = t.consts]
      [] op = "external_access" -> [c EXCEPT !.ext = t.ext]
      [] op \in {"license", "delete_license"} -> [c EXCEPT !.license = t.license]
      [] OTHER -> c

\* The column a task persists before, whatever becomes of the restart.
PersistedEarly(op, c, t) ==
    CASE op \in {"constants", "deploy"} -> [c EXCEPT !.consts = t.consts]
      [] op = "external_access" -> [c EXCEPT !.ext = t.ext]
      [] op \in {"license", "delete_license"} -> [c EXCEPT !.license = t.license]
      [] OTHER -> [c EXCEPT !.mapping = t.mapping]

Persist(w) ==
    LET op == worker[w].op
    IN  /\ At(w, "upfront") \/ At(w, "persist")
        /\ UpdateApp([row EXCEPT !.cfg = PersistedEarly(op, @, worker[w].cfg)])
        /\ Goto(w, IF op = "external_access" THEN "eai" ELSE "apply")
        /\ UNCHANGED <<svc, vault, objects, history, staged, env>>

\* A service given a new spec restarts; until SPCS gets to it, or if it leaves
\* a suspended service alone, the status queries still see the old state.
Restarted(state) == {"STARTING", state}

\* _build_spec: everything but external access, which is not in the spec.
BuiltSpec(t, running) == [t EXCEPT !.ext = running.ext]

\* alter_service_spec.  Secrets and PAD are looked up when containers start.
ApplySpec(w) ==
    LET op == worker[w].op
    IN  /\ At(w, "apply")
        /\ op \in SpecOps
        /\ ~Impossible(w)
        /\ \E state \in Restarted(svc.state) :
              svc' = [svc EXCEPT !.cfg = BuiltSpec(worker[w].cfg, @),
                                 !.image = env.image, !.state = state]
        /\ Goto(w, IF op = "rollback" THEN "eai" ELSE "poll")
        /\ UNCHANGED <<row, vault, objects, history, staged, env>>

\* set_service_external_access with _compose_eai_names: a slot that is not
\* bound any more is dropped without an error.
ApplyEgress(w) ==
    /\ At(w, "eai")
    /\ ~Impossible(w)
    /\ \E state \in Restarted(svc.state) :
          svc' = [svc EXCEPT !.cfg.ext = worker[w].cfg.ext \cap env.bound,
                             !.state = state]
    /\ Goto(w, "poll")
    /\ UNCHANGED <<row, vault, objects, history, staged, env>>

SuspendService(w) ==
    /\ At(w, "apply")
    /\ worker[w].op = "suspend"
    /\ ~Impossible(w)
    /\ svc' = [svc EXCEPT !.state = "SUSPENDED"]
    /\ Goto(w, "poll")
    /\ UNCHANGED <<row, vault, objects, history, staged, env>>

ResumeService(w) ==
    /\ At(w, "apply")
    /\ worker[w].op = "resume"
    /\ ~Impossible(w)
    /\ svc' = [svc EXCEPT !.state = IF @ = "SUSPENDED" THEN "STARTING" ELSE @]
    /\ Goto(w, "poll")
    /\ UNCHANGED <<row, vault, objects, history, staged, env>>

\* _poll_ready: first the service's status, then, for RUNNING only, the
\* readiness of its containers.
PollStatus(w) ==
    /\ At(w, "poll")
    /\ svc.exists
    /\ IF worker[w].op = "suspend"
       THEN svc.state = "SUSPENDED" /\ Goto(w, "stamp")
       ELSE svc.state \in {"UP", "SERVING"} /\ Goto(w, "containers")
    /\ UNCHANGED <<row, svc, vault, objects, history, staged, env>>

PollContainers(w) ==
    /\ At(w, "containers")
    /\ svc.exists
    /\ svc.state = "SERVING"
    /\ Goto(w, "stamp")
    /\ UNCHANGED <<row, svc, vault, objects, history, staged, env>>

\* Both loops share one deadline.
PollTimeout(w) ==
    /\ At(w, "poll") \/ At(w, "containers")
    /\ Goto(w, "timeout")
    /\ UNCHANGED <<row, svc, vault, objects, history, staged, env>>

\* Mutant: on_success of a spec change forgets the new tier.
SuccessColumnsNoTier(op, c, t) ==
    CASE op = "deploy" -> [c EXCEPT !.consts = t.consts, !.pad = t.pad]
      [] op = "rollback" -> [t EXCEPT !.consts = c.consts]
      [] OTHER -> c

\* The configuration columns on_success writes; every other operation has
\* persisted its own before.
SuccessColumns(op, c, t) ==
    CASE op = "deploy" -> [c EXCEPT !.consts = t.consts, !.pad = t.pad]
      [] op = "rollback" -> [t EXCEPT !.consts = c.consts]
      [] op \in {"spec", "platform_update"} -> [c EXCEPT !.tier = t.tier]
      [] OTHER -> c

\* Mutant: a failure's explanation outlives the next success.
StampedUncleared(op, r, t) == [r EXCEPT !.status = "READY", !.image = env.image]

\* on_success: _stamp_deploy_success, _run_update_spec's own update, or the
\* status alone.  platform_image is stamped by everything but suspend, resume.
Stamped(op, r, t) ==
    IF op \in {"suspend", "resume"}
    THEN [r EXCEPT !.status = IF op = "suspend" THEN "SUSPENDED" ELSE "READY",
                   !.failedOp = None]
    ELSE [r EXCEPT !.status = "READY", !.failedOp = None,
                   !.cfg = SuccessColumns(op, @, t),
                   !.roles = IF op = "deploy" THEN RolesIn[t.pad] ELSE @,
                   !.image = env.image, !.stale = FALSE]

\* Mutant: both license tasks call themselves "license"; both drop the key.
AfterStampByLabel(op) ==
    CASE op \in {"license", "delete_license"} -> "drop"
      [] op \in {"suspend", "resume"} -> "idle"
      [] OTHER -> "record"

\* suspend and resume pass no record and leave no history.
AfterStamp(op) ==
    CASE op = "delete_license" -> "drop"
      [] op \in {"suspend", "resume"} -> "idle"
      [] OTHER -> "record"

StampSuccess(w) ==
    LET op == worker[w].op
    IN  /\ At(w, "stamp")
        /\ UpdateApp(Stamped(op, row, worker[w].cfg))
        /\ Goto(w, AfterStamp(op))
        /\ UNCHANGED <<svc, vault, objects, history, staged, env>>

\* _run_delete_license drops the key after READY is written.  IF EXISTS.
DropKey(w) ==
    /\ At(w, "drop")
    /\ vault' = [vault EXCEPT !.key = None]
    /\ Goto(w, "record")
    /\ UNCHANGED <<row, svc, objects, history, staged, env>>

\* The op= a task reports itself with.
Label(op) == CASE op = "delete_license" -> "license"
               [] op = "delete_role_mapping" -> "role_mapping"
               [] OTHER -> op

\* FAILED after a poll timeout, or in the except clause.
MarkFailed(w) ==
    LET op == worker[w].op
    IN  /\ At(w, "timeout") \/ At(w, "fail")
        /\ UpdateApp([row EXCEPT !.status = "FAILED", !.failedOp = Label(op)])
        /\ Continue(w, IF op \in {"suspend", "resume"} THEN "idle" ELSE "record",
                    "FAILED")
        /\ UNCHANGED <<svc, vault, objects, history, staged, env>>

\* _record_history: the INSERT, then the pruning DELETE; best effort.
RecordHistory(w) ==
    /\ At(w, "record")
    /\ history' = Inserted(history, [status |-> worker[w].outcome, cfg |-> worker[w].cfg])
    /\ Goto(w, "prune")
    /\ UNCHANGED <<row, svc, vault, objects, staged, env>>

PruneHistory(w) ==
    /\ At(w, "prune")
    /\ history' = Pruned(history)
    /\ Goto(w, "idle")
    /\ UNCHANGED <<row, svc, vault, objects, staged, env>>

-----------------------------------------------------------------------------
(* Creating and deleting the app.                                          *)

\* The schema, with the file-storage stage in it.  IF NOT EXISTS.
CreateSchema(w) ==
    /\ At(w, "schema")
    /\ objects' = objects \cup {"schema"}
    /\ Goto(w, "provision")
    /\ UNCHANGED <<row, svc, vault, history, staged, env>>

\* pg_admin.provision_app, then PG_PASS and ADMIN_PASS.
ProvisionPostgres(w) ==
    /\ At(w, "provision")
    /\ ~Impossible(w)
    /\ objects' = objects \cup {"postgres"}
    /\ Goto(w, IF worker[w].cfg.license # None THEN "key" ELSE AfterKey(worker[w].todo))
    /\ UNCHANGED <<row, svc, vault, history, staged, env>>

CreateService(w) ==
    LET c == worker[w].cfg
    IN  /\ At(w, "service")
        /\ ~Impossible(w)
        /\ svc' = [exists |-> TRUE, state |-> "STARTING", image |-> env.image,
                   cfg |-> [c EXCEPT !.ext = @ \cap env.bound]]
        /\ Goto(w, "role")
        /\ UNCHANGED <<row, vault, objects, history, staged, env>>

\* create_app_access_role and the endpoint grants, which go with the service.
CreateRole(w) ==
    /\ At(w, "role")
    /\ objects' = objects \cup {"role"}
    /\ Goto(w, "insert")
    /\ UNCHANGED <<row, svc, vault, history, staged, env>>

\* registry.create_app; Snowflake does not enforce the primary key, so a
\* second row may appear, and either is what a later read returns.
\* A PAD staged already is deployed at once, by this request, unguarded.
InsertRow(w) ==
    LET new == [NoRow EXCEPT !.exists = TRUE, !.cfg = worker[w].cfg, !.image = env.image]
    IN  /\ At(w, "insert")
        /\ row' \in {new} \cup (IF row.exists THEN {row} ELSE {})
        /\ IF staged = {}
           THEN Goto(w, "idle")
           ELSE \E pad \in staged :
                  worker' = [worker EXCEPT ![w] =
                    [IdleWorker EXCEPT !.pc = "prepare", !.op = "deploy", !.cfg.pad = pad]]
        /\ UNCHANGED <<svc, vault, objects, history, staged, env>>

\* delete_app: suspend, wait up to a minute, go on whatever happened.
Quiesce(w) ==
    /\ At(w, "quiesce")
    /\ svc' = IF svc.exists THEN [svc EXCEPT !.state = "SUSPENDED"] ELSE svc
    /\ Goto(w, "td_service")
    /\ UNCHANGED <<row, vault, objects, history, staged, env>>

AfterCleanup == [td_service |-> "td_role", td_role |-> "td_schema",
                 td_schema |-> "td_history", td_history |-> "td_pg"]

\* Mutant: a failed cleanup step does not keep the row as a retry handle.
AfterTeardownRegardless(pc, op, outcome) ==
    IF pc = "td_pg" THEN IF op = "delete" THEN "td_row" ELSE "idle"
    ELSE AfterCleanup[pc]

\* _teardown_app_objects runs every step; delete_app drops the row only after
\* a teardown without failures, create_app's rollback has none to drop.
AfterTeardown(pc, op, outcome) ==
    IF pc = "td_pg" THEN IF op = "delete" /\ outcome = "READY" THEN "td_row" ELSE "idle"
    ELSE AfterCleanup[pc]

\* One cleanup step, each an idempotent drop: it succeeds, or its failure is
\* noted.  deprovision_app swallows its own errors, so that one may succeed
\* without dropping anything (fault "postgres").
TearDown(w) ==
    LET pc == worker[w].pc
        op == worker[w].op
    IN  /\ pc \in Teardown
        /\ \/ /\ Goto(w, AfterTeardown(pc, op, worker[w].outcome))
              /\ svc' = IF pc = "td_service" THEN NoService ELSE svc
              /\ vault' = IF pc = "td_schema" THEN EmptyVault ELSE vault
              /\ objects' = objects \ (CASE pc = "td_role" -> {"role"}
                                         [] pc = "td_schema" -> {"schema"}
                                         [] pc = "td_pg" -> {"postgres"}
                                         [] OTHER -> {})
              /\ history' = IF pc = "td_history" THEN Purged(history) ELSE history
           \/ /\ pc \in Faults
              /\ Continue(w, AfterTeardown(pc, op, "FAILED"), "FAILED")
              /\ UNCHANGED <<svc, vault, objects, history>>
           \/ /\ pc = "td_pg" /\ "postgres" \in Faults
              /\ Goto(w, AfterTeardown(pc, op, worker[w].outcome))
              /\ UNCHANGED <<svc, vault, objects, history>>
        /\ UNCHANGED <<row, staged, env>>

\* registry.delete_app
DeleteRow(w) ==
    /\ At(w, "td_row")
    /\ row' = NoRow
    /\ Goto(w, "idle")
    /\ UNCHANGED <<svc, vault, objects, history, staged, env>>

-----------------------------------------------------------------------------
(* The environment.                                                        *)

\* Operators copy PADs to the stage, or remove them.
StageFile ==
    /\ \E pad \in Pads :
          \/ staged' = staged \cup {pad}
          \/ "unstage" \in Faults /\ staged' = staged \ {pad}
    /\ UNCHANGED <<row, svc, vault, objects, history, worker, env>>

\* SPCS starts containers, and they become ready, or lose it again.
ServiceProgress ==
    /\ svc.exists
    /\ \/ svc.state = "STARTING" /\ svc' = [svc EXCEPT !.state = "UP"]
       \/ svc.state = "UP" /\ svc' = [svc EXCEPT !.state = "SERVING"]
       \/ svc.state = "SERVING" /\ svc' = [svc EXCEPT !.state = "UP"]
    /\ UNCHANGED <<row, vault, objects, history, worker, staged, env>>

\* _is_platform_stale; every row has an image since create_app stamps it.
IsPlatformStale(r, image) == r.image # image

\* The controller's service restarts, perhaps re-specified with other bound
\* slots or a newer image (the application is upgraded, never downgraded).
\* Threads and their tasks are lost, and lifespan recomputes the staleness
\* flag before it serves, best effort.
Restart ==
    /\ "restart" \in Faults
    /\ (\E w \in Workers : At(w, "prune")) => UnprunedAllowed
    /\ worker' = [w \in Workers |-> IdleWorker]
    /\ env' \in [image : Images, bound : SUBSET Slots]
    /\ env'.image >= env.image
    /\ \/ UpdateApp([row EXCEPT !.stale = IsPlatformStale(row, env'.image)])
       \/ "refresh" \in Faults /\ UNCHANGED row
    /\ UNCHANGED <<svc, vault, objects, history, staged>>

-----------------------------------------------------------------------------

Handle(w) ==
    \/ TriggerDeploy(w) \/ UpdateConstants(w) \/ UpdateSpec(w)
    \/ ApplyPlatformUpdate(w) \/ UpdateExternalAccess(w)
    \/ UpdateLicense(w) \/ DeleteLicense(w)
    \/ UpdateRoleMapping(w) \/ DeleteRoleMapping(w)
    \/ RollbackApp(w) \/ SuspendApp(w) \/ ResumeApp(w)
    \/ DeleteApp(w) \/ CreateApp(w)

Proceed(w) ==
    \/ PrepareDeploy(w) \/ ChooseTarget(w) \/ WriteSecret(w) \/ WriteKey(w)
    \/ MarkInProgress(w) \/ Persist(w) \/ ApplySpec(w) \/ ApplyEgress(w)
    \/ SuspendService(w) \/ ResumeService(w)
    \/ PollStatus(w) \/ PollContainers(w) \/ PollTimeout(w)
    \/ StampSuccess(w) \/ DropKey(w) \/ MarkFailed(w)
    \/ RecordHistory(w) \/ PruneHistory(w)
    \/ CreateSchema(w) \/ ProvisionPostgres(w) \/ CreateService(w)
    \/ CreateRole(w) \/ InsertRow(w)
    \/ Quiesce(w) \/ TearDown(w) \/ DeleteRow(w)
    \/ Raise(w)

Next ==
    \/ \E w \in Workers : Handle(w) \/ Proceed(w)
    \/ StageFile
    \/ ServiceProgress
    \/ Restart

Spec == Init /\ [][Next]_vars

\* A thread that has work goes on: polls have a deadline of 300 s and a statement
\* one of 60 s, but for a second attempt, whose end is assumed of the connector.
\* Users, the stage and SPCS owe nothing.
FairSpec == Spec /\ \A w \in Workers : WF_vars(Proceed(w))

-----------------------------------------------------------------------------
(* Properties.                                                             *)

\* The steps of a task that has not written its final status yet.
StatusPending == {"upfront", "sync", "persist", "apply", "eai", "poll",
                  "containers", "stamp", "timeout", "fail"}

Busy == {w \in Workers : ~At(w, "idle")}

\* A transient status always has a task that will still replace it: the 409
\* it causes for every other change (_record_for_mutation) comes to an end.
\* Two threads that raced past the guard do not break this, nor does a row
\* deleted and registered again under a running task.
TransientHasTask ==
    row.exists /\ row.status \in Transient =>
        \E w \in Workers : worker[w].pc \in StatusPending

\* Every accepted change ends: the app leaves its transient status.
TransientResolves == row.status \in Transient ~> row.status \notin Transient

\* failed_operation explains the status: set on FAILED, and cleared by every
\* way to another settled status, though each is written by its own UPDATE.
FailureExplained ==
    row.exists =>
        /\ row.status = "FAILED" => row.failedOp # None
        /\ row.status \in {"READY", "SUSPENDED", "NOT_DEPLOYED"} => row.failedOp = None

\* Every constant the registry lists, or the service mounts, has its secret,
\* as long as the app has its schema: the registry keeps names only, and a
\* spec that mounts a missing secret cannot start (update_constants and
\* _run_deploy write the secrets first).
MountedConstantsExist ==
    row.exists /\ "schema" \in objects =>
        row.cfg.consts \cup svc.cfg.consts \subseteq vault.consts

\* A status that says the service runs on this configuration: after READY is
\* written by an operation that rebuilt the spec, the service was last given
\* exactly the configuration the registry shows.
StampTellsTruth ==
    [][\A w \in Workers :
          /\ worker[w].pc = "stamp" /\ worker'[w].pc # "stamp"
          /\ worker[w].op \in SpecOps /\ row'.status = "READY" /\ row'.exists
          => BuiltSpec(row'.cfg, svc'.cfg) = svc'.cfg]_vars

\* A READY history row is the configuration the service was given when it
\* came up: what a rollback to it will bring back.
HistoryTellsTruth ==
    \A w \in Workers :
        At(w, "record") /\ worker[w].outcome = "READY" =>
            BuiltSpec(worker[w].cfg, svc.cfg) = svc.cfg

\* READY between changes means the service was last given exactly what the
\* registry shows: what rollback_app takes for granted when it refuses with
\* "already running this configuration".
ReadyMeansApplied ==
    row.exists /\ row.status = "READY" /\ Busy = {} =>
        BuiltSpec(row.cfg, svc.cfg) = svc.cfg

\* platform_image never claims the current base image for a service built
\* from another one, so a stale app is always offered the platform update.
PlatformImageTruthful ==
    row.exists /\ svc.exists /\ row.image = env.image => svc.image = env.image

\* Between changes, an app that runs under the license it shows has that
\* license's key in MX_LICENSE_KEY: id and key are two writes of one operation,
\* and update_license overwrites the one key an app has.
LicenseKeyMatches ==
    Busy = {} /\ row.cfg.license # None /\ svc.cfg.license = row.cfg.license =>
        vault.key = row.cfg.license

\* A delete that drops the registry row leaves nothing of the app behind.
DeleteIsComplete ==
    [][row.exists /\ ~row'.exists =>
          ~svc'.exists /\ vault' = EmptyVault /\ objects' = {} /\ history' = <<>>]_vars

\* No history outlives its app, for a later app of that name to inherit.
NoOrphanHistory == ~row.exists /\ Busy = {} => history = <<>>

\* With requests one at a time the Controller implements the abstract status
\* machine, its promise to end every change included.
StatusMachine == INSTANCE AppStatus
                 WITH status <- IF row.exists THEN row.status ELSE "ABSENT"
ImplementsStatusMachine == StatusMachine!FairSpec
=============================================================================
