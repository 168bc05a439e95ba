-------------------------- MODULE AppSerial_proofs --------------------------
(***************************************************************************)
(* Proofs about AppLifecycle with requests one at a time: what an operator *)
(* may rely on who waits for each change to end before asking for the next.*)
(* The handlers' guards only keep requests apart that come one after the   *)
(* other (they read the status that a task writes later), so that these    *)
(* properties do not hold for any number of threads.                       *)
(***************************************************************************)
EXTENDS AppLifecycle_proofs

USE KeepAssumption, LifecycleAssumption

\* The assumption of this module: requests are made one at a time. Even so a
\* request meets what earlier ones, their failures and restarts have left.
OneThread == \E w : Workers = {w}

-----------------------------------------------------------------------------
(* How far a task has come, and what the row and the service show of it.   *)

\* The service has been given the configuration t.
Built(t) == BuiltSpec(t, svc.cfg) = svc.cfg

\* A task or a delete has a row, a create has none.
RowMatches(w) ==
    /\ worker[w].op \in TaskOps \cup {"delete"} => row.exists
    /\ worker[w].op = "create" => ~row.exists

\* The row's status is the one the task's progress says: settled until it is
\* marked, the operation's own until the final UPDATE.
StatusMatches(w) ==
    LET pc == worker[w].pc
        op == worker[w].op
    IN  /\ op \in TaskOps /\ pc \in {"prepare", "target", "secret", "key", "mark"}
              => row.status \notin Transient
        /\ pc \in StatusPending \ {"fail"} => row.status = InProgress(op)
        /\ pc = "drop" => row.status = "READY"
        /\ pc = "fail" => \/ row.status = InProgress(op)
                          \/ op = "delete_license" /\ row.status = "READY"

\* How far the registry and the service have come towards the target: what is
\* still to be written leads there (Aimed), an operation that writes its
\* columns early has done so before it rebuilds, and from then on the service
\* has been given the target.
ConfigMatches(w) ==
    LET pc == worker[w].pc
        op == worker[w].op
        t == worker[w].cfg
    IN  /\ op \in TaskOps
           /\ pc \in {"secret", "key", "mark", "upfront", "sync", "persist", "apply",
                      "eai", "poll", "containers", "stamp"}
              => Aimed(op, row.cfg, t)
        /\ pc = "target" => t = row.cfg
        /\ pc = "upfront" => op \in EarlyOps
        /\ pc = "record" => op \notin {"suspend", "resume"}
        /\ op \in EarlyOps /\ pc \in {"apply", "eai", "poll", "containers", "stamp", "drop"}
              => row.cfg = t
        /\ op = "delete_license" => t.license = None
        /\ op \in SpecOps /\ pc \in {"eai", "poll", "containers", "stamp", "drop"} => Built(t)
        /\ op \in SpecOps /\ pc = "record" /\ worker[w].outcome = "READY" => Built(t)

\* All of it for thread w.
Matches(w) == RowMatches(w) /\ StatusMatches(w) /\ ConfigMatches(w)

\* The invariant about tasks: it relates each task's statement to the row and
\* the service, which types and OpsAt do not, and most of the theorems below
\* rest on it.
TaskMatches == \A w \in Workers : RowMatches(w) /\ StatusMatches(w) /\ ConfigMatches(w)

\* The columns of the early and of the final UPDATE, written in this order,
\* reach the target, and the early ones alone do when the operation is an
\* early one.
LEMMA ColumnsReach ==
    ASSUME NEW c \in Config, NEW t \in Config, NEW op, Aimed(op, c, t)
    PROVE  /\ op \in EarlyOps => PersistedEarly(op, c, t) = t
           /\ op = "deploy" => Aimed(op, PersistedEarly(op, c, t), t)
           /\ op \notin EarlyOps => SuccessColumns(op, c, t) = t
           /\ op \in EarlyOps => SuccessColumns(op, t, t) = t
           /\ Aimed(op, t, t)
<1> USE DEF EarlyOps
<1>1. op \in EarlyOps => PersistedEarly(op, c, t) = t
  BY DEF Aimed
<1>2. CASE op = "deploy"
  <2>1. [c EXCEPT !.consts = t.consts, !.pad = t.pad] = t
    BY <1>2 DEF Aimed, SuccessColumns
  <2>2. [[c EXCEPT !.consts = t.consts] EXCEPT !.consts = t.consts, !.pad = t.pad]
          = [c EXCEPT !.consts = t.consts, !.pad = t.pad]
    BY DEF Config
  <2>3. Aimed(op, PersistedEarly(op, c, t), t)
    BY <1>2, <2>1, <2>2 DEF Aimed, SuccessColumns, PersistedEarly
  <2>4. [t EXCEPT !.consts = t.consts, !.pad = t.pad] = t
    BY DEF Config
  <2> QED
    BY <1>2, <2>1, <2>3, <2>4 DEF Aimed, SuccessColumns
<1>3. CASE op # "deploy"
  <2>1. /\ [t EXCEPT !.consts = t.consts] = t /\ [t EXCEPT !.ext = t.ext] = t
        /\ [t EXCEPT !.license = t.license] = t /\ [t EXCEPT !.mapping = t.mapping] = t
        /\ [t EXCEPT !.tier = t.tier] = t
    BY DEF Config
  <2>2. Aimed(op, t, t)
    BY <1>3, <2>1 DEF Aimed, SuccessColumns, PersistedEarly
  <2>3. op \in EarlyOps => SuccessColumns(op, t, t) = t
    BY DEF SuccessColumns
  <2> QED
    BY <1>1, <1>3, <2>2, <2>3 DEF Aimed
<1> QED
  BY <1>2, <1>3

\* A thread that is done claims nothing.
LEMMA IdleMatches ==
    ASSUME NEW w \in Workers, worker'[w] = IdleWorker
    PROVE  Matches(w)'
BY NoneIsNoOp
DEF Matches, RowMatches, StatusMatches, ConfigMatches, IdleWorker, StatusPending,
    AllOps, TaskOps, SpecOps, EarlyOps

\* The guards of the handlers establish it for a new task.
LEMMA RequestMatches ==
    ASSUME TypeOK, NEW w \in Workers, Handle(w)
    PROVE  Matches(w)'
<1> DEFINE t == worker'[w]
<1>1. /\ UNCHANGED <<row, svc, vault, objects, history, staged, env>>
      /\ t.op \in AllOps
      /\ t.op \in TaskOps =>
           /\ row.exists /\ row.status \notin Transient
           /\ t.pc = CASE t.op = "deploy" -> "prepare" [] t.op = "rollback" -> "target"
                       [] t.op = "constants" -> "secret" [] t.op = "license" -> "key"
                       [] OTHER -> "mark"
           /\ t.op \notin {"deploy", "rollback"} => Aimed(t.op, row.cfg, t.cfg)
           /\ t.op = "rollback" => t.cfg = row.cfg
           /\ t.op = "delete_license" => t.cfg.license = None
      /\ t.op = "delete" => t.pc = "quiesce" /\ row.exists
      /\ t.op = "create" => t.pc = "schema" /\ ~row.exists
  BY Requested
<1>2. t.op \in TaskOps \cup {"delete", "create"}
  BY <1>1 DEF AllOps
<1> HIDE DEF t
<1>3. CASE t.op \in TaskOps
  <2>1. t.pc \in {"prepare", "target", "secret", "key", "mark"}
        /\ (t.op \notin {"deploy", "rollback"} => t.pc \notin {"prepare", "target"})
        /\ (t.pc = "target" => t.op = "rollback")
    BY <1>1, <1>3
  <2>2. (t.op = "deploy" => t.pc = "prepare") /\ (t.op = "rollback" => t.pc = "target")
    BY <1>1, <1>3
  <2> QED
    BY <1>1, <1>3, <2>1, <2>2
    DEF t, Matches, RowMatches, StatusMatches, ConfigMatches, StatusPending, TaskOps, SpecOps
<1>4. CASE t.op \in {"delete", "create"}
  BY <1>1, <1>4
  DEF t, Matches, RowMatches, StatusMatches, ConfigMatches, StatusPending, TaskOps, SpecOps,
      EarlyOps
<1> QED
  BY <1>2, <1>3, <1>4

\* The statuses of tasks under way are transient.
LEMMA InProgressTransient ==
    \A op : InProgress(op) \in Transient
BY DEF InProgress, Transient

\* Each statement of a task keeps it for the task.
LEMMA ProceedMatches ==
    ASSUME TypeOK, ThreadOK, NEW w \in Workers, Matches(w), Proceed(w)
    PROVE  Matches(w)'
<1> DEFINE t == worker[w]
<1>0. /\ worker[w] \in Worker /\ row \in Row /\ row.cfg \in Config /\ t.cfg \in Config
      /\ worker \in [Workers -> Worker]
      /\ svc \in Service /\ svc.cfg \in Config
      /\ t.op \in OpsAt(t.pc)
  BY ThreadTypes DEF TypeOK, ThreadOK, Row, Service
<1> USE OpsAtStatement, Went, Moved DEF At
<1>1. ASSUME Goto(w, "idle") \/ \E outcome : Continue(w, "idle", outcome)
      PROVE  Matches(w)'
  BY <1>1, IdleMatches
<1>2. CASE PrepareDeploy(w)
  <2> DEFINE pad == worker[w].cfg.pad
             new == Declares[pad] \ row.cfg.consts
             prepared == [row.cfg EXCEPT !.pad = pad, !.consts = @ \cup new]
  <2>1. CASE worker' = [worker EXCEPT ![w] =
                          [@ EXCEPT !.pc = "mark", !.todo = new, !.cfg = prepared]]
    <3>1. t.op = "deploy" /\ t.pc = "prepare" /\ UNCHANGED <<row, svc>>
      BY <1>0, <1>2 DEF PrepareDeploy
    <3>2. Aimed("deploy", row.cfg, prepared)
      BY <1>0 DEF Aimed, SuccessColumns, EarlyOps, Config
    <3>3. worker'[w].op = "deploy" /\ worker'[w].pc = "mark" /\ worker'[w].cfg = prepared
      <4> HIDE DEF new, prepared
      <4> QED
        BY <1>0, <2>1, <3>1 DEF Worker
    <3> HIDE DEF prepared
    <3> QED
      BY <3>1, <3>2, <3>3
      DEF Matches, RowMatches, StatusMatches, ConfigMatches, StatusPending, TaskOps, SpecOps,
          EarlyOps
  <2> QED
    BY <1>1, <1>2, <2>1 DEF PrepareDeploy
<1>3. CASE ChooseTarget(w)
  <2>1. ASSUME NEW c \in RollbackTargets(t.cfg),
               worker' = [worker EXCEPT ![w].pc = "mark", ![w].cfg = c]
        PROVE  Matches(w)'
    <3>1. t.op = "rollback" /\ t.pc = "target" /\ UNCHANGED <<row, svc>>
      BY <1>0, <1>3 DEF ChooseTarget
    <3>2. worker'[w].op = "rollback" /\ worker'[w].pc = "mark" /\ worker'[w].cfg = c
      BY <1>0, <2>1, <3>1 DEF Worker
    <3>3. PICK i \in DOMAIN history : c = [history[i].cfg EXCEPT !.consts = t.cfg.consts]
      BY <2>1 DEF RollbackTargets, ReadyRows
    <3>4. history[i] \in HistoryRow(Config)
      BY <3>3 DEF TypeOK
    <3>7. history[i].cfg \in Config
      BY <3>4 DEF HistoryRow
    <3>5. t.cfg = row.cfg
      BY <3>1 DEF Matches, ConfigMatches
    <3>6. Aimed("rollback", row.cfg, c)
      <4>1. SuccessColumns("rollback", row.cfg, c) = [c EXCEPT !.consts = row.cfg.consts]
        BY DEF SuccessColumns
      <4>2. [c EXCEPT !.consts = row.cfg.consts] = c
        BY <3>3, <3>7, <3>5 DEF Config
      <4> QED
        BY <4>1, <4>2 DEF Aimed, EarlyOps
    <3> QED
      BY <3>1, <3>2, <3>5, <3>6
      DEF Matches, RowMatches, StatusMatches, ConfigMatches, StatusPending, TaskOps, SpecOps,
          EarlyOps
  <2> QED
    BY <1>1, <1>3, <2>1 DEF ChooseTarget
<1> USE DEF Matches, RowMatches, StatusMatches, ConfigMatches, StatusPending, TaskOps, SpecOps,
            EarlyOps
<1>4. CASE WriteSecret(w)
  <2>1. PICK c \in t.todo :
          worker' = [worker EXCEPT
                ![w].todo = @ \ {c},
                ![w].pc = IF worker[w].todo = {c} THEN AfterSecrets(worker[w].op) ELSE @]
    BY <1>4 DEF WriteSecret
  <2>2. /\ worker'[w].op = t.op /\ worker'[w].cfg = t.cfg
        /\ worker'[w].pc \in {t.pc, AfterSecrets(t.op)}
    BY <1>0, <2>1 DEF Worker
  <2>3. /\ UNCHANGED <<row, svc>>
        /\ \/ t.pc = "secret" /\ t.op \in {"constants", "create"}
           \/ t.pc = "sync" /\ t.op = "deploy"
    BY <1>0, <1>4 DEF WriteSecret
  <2> QED
    BY <2>2, <2>3, InProgressTransient DEF AfterSecrets
<1>5. CASE WriteKey(w)
  <2>1. /\ UNCHANGED <<row, svc>>
        /\ t.pc = "key" /\ t.op \in {"license", "create"}
    BY <1>0, <1>5 DEF WriteKey
  <2>2. /\ worker'[w].op = t.op /\ worker'[w].cfg = t.cfg
        /\ worker'[w].pc \in {"mark", "secret", "service"}
        /\ t.op = "license" => worker'[w].pc = "mark"
    BY <1>5, <2>1 DEF WriteKey, AfterKey
  <2> QED
    BY <2>1, <2>2
<1>6. CASE MarkInProgress(w)
  <2>1. t.pc = "mark" /\ t.op \in TaskOps /\ svc' = svc
    BY <1>0, <1>6 DEF MarkInProgress
  <2>2. row'.exists /\ row'.cfg = row.cfg /\ row'.status = InProgress(t.op)
    BY <1>0, <1>6, <2>1 DEF MarkInProgress, UpdateApp, Row
  <2>3. /\ worker'[w].op = t.op /\ worker'[w].cfg = t.cfg
        /\ worker'[w].pc = TaskStart(t.op, t.todo)
        /\ worker'[w].pc \in {"upfront", "sync", "apply"}
        /\ worker'[w].pc = "upfront" <=> t.op \in EarlyOps
    BY <1>6 DEF MarkInProgress, TaskStart
  <2> QED
    BY <2>1, <2>2, <2>3
<1>7. CASE Persist(w)
  <2>1. /\ svc' = svc /\ t.op \in TaskOps
        /\ worker'[w].op = t.op /\ worker'[w].cfg = t.cfg
        /\ worker'[w].pc = IF t.op = "external_access" THEN "eai" ELSE "apply"
    BY <1>0, <1>7 DEF Persist
  <2>2. /\ row'.exists /\ row'.status = row.status
        /\ row'.cfg = PersistedEarly(t.op, row.cfg, t.cfg)
    BY <1>0, <1>7, <2>1 DEF Persist, UpdateApp, Row
  <2>3. CASE t.pc = "upfront"
    <3>1. row'.cfg = t.cfg /\ Aimed(t.op, row'.cfg, t.cfg)
      BY <1>0, <2>1, <2>2, <2>3, ColumnsReach
    <3> QED
      BY <2>1, <2>2, <2>3, <3>1
  <2>4. CASE t.pc = "persist"
    <3>1. t.op = "deploy"
      BY <1>0, <2>4
    <3>2. Aimed(t.op, row'.cfg, t.cfg)
      BY <1>0, <2>1, <2>2, <2>4, <3>1, ColumnsReach
    <3> QED
      BY <2>1, <2>2, <2>4, <3>1, <3>2
  <2> QED
    BY <1>7, <2>3, <2>4 DEF Persist
<1>8. CASE ApplySpec(w)
  <2>1. /\ t.pc = "apply" /\ t.op \in SpecOps /\ row' = row
        /\ worker'[w].op = t.op /\ worker'[w].cfg = t.cfg
        /\ worker'[w].pc \in {"eai", "poll"}
    BY <1>8 DEF ApplySpec
  <2>2. svc'.cfg = BuiltSpec(t.cfg, svc.cfg)
    BY <1>0, <1>8 DEF ApplySpec, Service
  <2>3. Built(t.cfg)'
    BY <1>0, <2>1, <2>2 DEF Built, BuiltSpec, Config
  <2> QED
    BY <2>1, <2>3
<1>9. CASE ApplyEgress(w)
  <2>1. /\ t.pc = "eai" /\ row' = row
        /\ worker'[w].op = t.op /\ worker'[w].cfg = t.cfg
        /\ worker'[w].pc = "poll"
    BY <1>9 DEF ApplyEgress
  <2>2. svc'.cfg = [svc.cfg EXCEPT !.ext = t.cfg.ext \cap env.bound]
    BY <1>0, <1>9 DEF ApplyEgress, Service
  <2>3. Built(t.cfg) => BuiltSpec(t.cfg, svc'.cfg) = svc'.cfg
    <3> DEFINE slots == t.cfg.ext \cap env.bound
    <3>1. svc'.cfg = [svc.cfg EXCEPT !.ext = slots]
      BY <2>2
    <3> HIDE DEF slots
    <3>2. ASSUME BuiltSpec(t.cfg, svc.cfg) = svc.cfg
          PROVE  BuiltSpec(t.cfg, [svc.cfg EXCEPT !.ext = slots]) = [svc.cfg EXCEPT !.ext = slots]
      <4> HIDE DEF t
      <4> QED
        BY <1>0, <3>2 DEF BuiltSpec, Config
    <3> QED
      BY <3>1, <3>2 DEF Built
  <2>4. Built(t.cfg) => Built(t.cfg)'
    BY <2>1, <2>3 DEF Built
  <2> QED
    BY <2>1, <2>4
<1>10. CASE SuspendService(w) \/ ResumeService(w)
  <2>1. /\ t.pc = "apply" /\ t.op \in {"suspend", "resume"} /\ row' = row
        /\ worker'[w].op = t.op /\ worker'[w].cfg = t.cfg
        /\ worker'[w].pc = "poll"
    BY <1>10 DEF SuspendService, ResumeService
  <2> QED
    BY <2>1
<1>11. CASE PollStatus(w) \/ PollContainers(w) \/ PollTimeout(w)
  <2>1. /\ t.pc \in {"poll", "containers"} /\ UNCHANGED <<row, svc>>
        /\ worker'[w].op = t.op /\ worker'[w].cfg = t.cfg
        /\ worker'[w].pc \in {"stamp", "containers", "timeout"}
    BY <1>11 DEF PollStatus, PollContainers, PollTimeout
  <2> QED
    BY <2>1 DEF Built
<1>12. CASE StampSuccess(w)
  <2>1. /\ t.pc = "stamp" /\ t.op \in TaskOps /\ svc' = svc /\ row.exists
        /\ row' = Stamped(t.op, row, t.cfg)
    BY <1>0, <1>12 DEF StampSuccess, UpdateApp
  <2>2. CASE t.op \in {"suspend", "resume"}
    BY <1>1, <1>12, <2>2 DEF StampSuccess, AfterStamp
  <2>3. CASE t.op \notin {"suspend", "resume"}
    <3>1. /\ worker'[w].op = t.op /\ worker'[w].cfg = t.cfg
          /\ worker'[w].pc = IF t.op = "delete_license" THEN "drop" ELSE "record"
      BY <1>12, <2>3 DEF StampSuccess, AfterStamp
    <3>2. /\ row'.exists /\ row'.status = "READY"
          /\ row'.cfg = SuccessColumns(t.op, row.cfg, t.cfg)
      BY <1>0, <2>1, <2>3 DEF Stamped, Row
    <3>3. t.op = "delete_license" => row'.cfg = t.cfg
      BY <1>0, <2>1, <3>2 DEF SuccessColumns
    <3>4. t.op \in SpecOps => Built(t.cfg)'
      BY <2>1, <3>1 DEF Built
    <3> QED
      BY <2>1, <2>3, <3>1, <3>2, <3>3, <3>4
  <2> QED
    BY <2>2, <2>3
<1>13. CASE DropKey(w) \/ RecordHistory(w) \/ PruneHistory(w)
  <2>1. CASE DropKey(w)
    <3>1. /\ t.pc = "drop" /\ t.op = "delete_license" /\ UNCHANGED <<row, svc>>
          /\ worker'[w].op = t.op /\ worker'[w].cfg = t.cfg
          /\ worker'[w].pc = "record"
      BY <1>0, <2>1 DEF DropKey
    <3> QED
      BY <3>1 DEF Built
  <2>2. CASE RecordHistory(w)
    <3>1. /\ t.pc = "record" /\ t.op \in TaskOps /\ UNCHANGED <<row, svc>>
          /\ worker'[w].op = t.op /\ worker'[w].cfg = t.cfg
          /\ worker'[w].pc = "prune"
      BY <1>0, <2>2 DEF RecordHistory
    <3> QED
      BY <3>1
  <2> QED
    BY <1>1, <1>13, <2>1, <2>2 DEF PruneHistory
<1>14. CASE MarkFailed(w)
  <2>1. /\ t.op \in TaskOps /\ svc' = svc /\ row.exists
        /\ row' = [row EXCEPT !.status = "FAILED", !.failedOp = Label(t.op)]
    BY <1>0, <1>14 DEF MarkFailed, UpdateApp
  <2>2. CASE t.op \notin {"suspend", "resume"}
    <3>1. /\ worker'[w].op = t.op /\ worker'[w].cfg = t.cfg
          /\ worker'[w].pc = "record" /\ worker'[w].outcome = "FAILED"
      BY <1>14, <2>2 DEF MarkFailed
    <3>2. row'.exists
      BY <1>0, <2>1 DEF Row
    <3> QED
      BY <2>1, <2>2, <3>1, <3>2
  <2> QED
    BY <1>1, <1>14, <2>2 DEF MarkFailed
<1>15. CASE CreateSchema(w) \/ ProvisionPostgres(w) \/ CreateService(w) \/ CreateRole(w)
  <2>1. /\ t.op = "create" /\ row' = row
        /\ worker'[w].op = t.op
        /\ worker'[w].pc \in {"provision", "key", "secret", "service", "role", "insert"}
    BY <1>0, <1>15 DEF CreateSchema, ProvisionPostgres, CreateService, CreateRole, AfterKey,
                       Provision
  <2> QED
    BY <2>1
<1>16. CASE InsertRow(w)
  <2>0. t.pc = "insert"
    BY <1>16 DEF InsertRow
  <2>1. t.op = "create" /\ ~row.exists
    BY <1>0, <2>0 DEF Provision
  <2>2. row'.exists /\ row'.status = "NOT_DEPLOYED"
    BY <1>16, <2>1 DEF InsertRow, NoRow
  <2>3. ASSUME NEW pad \in staged,
               worker' = [worker EXCEPT ![w] =
                 [IdleWorker EXCEPT !.pc = "prepare", !.op = "deploy", !.cfg.pad = pad]]
        PROVE  Matches(w)'
    <3>1. worker'[w].op = "deploy" /\ worker'[w].pc = "prepare"
      BY <1>0, <2>3 DEF IdleWorker
    <3> QED
      BY <2>2, <3>1 DEF Transient
  <2> QED
    BY <1>1, <1>16, <2>3 DEF InsertRow
<1>17. CASE Quiesce(w)
  <2>1. /\ t.op = "delete" /\ row' = row
        /\ worker'[w].op = t.op /\ worker'[w].pc = "td_service"
    BY <1>0, <1>17 DEF Quiesce
  <2> QED
    BY <2>1
<1>18. CASE TearDown(w)
  <2>1. /\ t.op \in {"create", "delete"} /\ t.pc \in Teardown /\ row' = row
    BY <1>0, <1>18 DEF TearDown
  <2>2. PICK outcome : Continue(w, AfterTeardown(t.pc, t.op, outcome), outcome)
    BY <1>18 DEF TearDown, Goto
  <2>3. AfterTeardown(t.pc, t.op, outcome) \in Teardown \cup {"td_row", "idle"}
    BY <2>1 DEF AfterTeardown, AfterCleanup, Teardown
  <2>4. CASE AfterTeardown(t.pc, t.op, outcome) # "idle"
    <3>1. worker'[w].op = t.op /\ worker'[w].pc \in Teardown \cup {"td_row"}
      BY <2>2, <2>3, <2>4
    <3> QED
      BY <2>1, <3>1 DEF Teardown
  <2> QED
    BY <1>1, <2>2, <2>4
<1>19. CASE DeleteRow(w)
  BY <1>1, <1>19 DEF DeleteRow
<1>20. CASE Raise(w)
  <2> DEFINE next == AfterRaise(t.pc, t.op)
  <2>1. /\ UNCHANGED <<row, svc>>
        /\ Continue(w, next, IF t.pc = "quiesce" THEN "READY" ELSE "FAILED")
    BY <1>20 DEF Raise
  <2>2. CASE t.pc = "quiesce" \/ t.op = "create"
    <3>1. next = "td_service" /\ t.op \in {"create", "delete"}
      BY <1>0, <2>2 DEF AfterRaise
    <3>2. worker'[w].op = t.op /\ worker'[w].pc = "td_service"
      BY <2>1, <3>1
    <3> QED
      BY <2>1, <3>1, <3>2
  <2>3. CASE /\ t.pc # "quiesce" /\ t.op # "create"
             /\ t.pc \in {"sync", "persist", "apply", "eai", "stamp", "drop", "timeout"}
    <3>1. next = "fail" /\ (t.pc = "drop" => t.op = "delete_license") /\ t.op \in TaskOps
      BY <1>0, <2>3 DEF AfterRaise
    <3>2. /\ worker'[w].op = t.op /\ worker'[w].pc = "fail" /\ worker'[w].cfg = t.cfg
          /\ worker'[w].outcome = "FAILED"
      BY <2>1, <2>3, <3>1
    <3> QED
      BY <2>1, <2>3, <3>1, <3>2
  <2>4. CASE /\ t.pc = "fail" /\ t.op \notin {"create", "suspend", "resume"}
    <3>1. next = "record" /\ t.op \in TaskOps
      BY <1>0, <2>4 DEF AfterRaise
    <3>2. /\ worker'[w].op = t.op /\ worker'[w].pc = "record" /\ worker'[w].cfg = t.cfg
          /\ worker'[w].outcome = "FAILED"
      BY <2>1, <2>4, <3>1
    <3> QED
      BY <2>1, <2>4, <3>1, <3>2
  <2> QED
    BY <1>1, <2>1, <2>2, <2>3, <2>4 DEF AfterRaise
<1> QED
  BY <1>2, <1>3, <1>4, <1>5, <1>6, <1>7, <1>8, <1>9, <1>10, <1>11, <1>12, <1>13, <1>14,
     <1>15, <1>16, <1>17, <1>18, <1>19, <1>20 DEF Proceed

\* So do the stage, SPCS and a restart, which ends the task.
LEMMA EnvironmentMatches ==
    ASSUME TypeOK, NEW w \in Workers, Matches(w), StageFile \/ ServiceProgress \/ Restart
    PROVE  Matches(w)'
<1>1. CASE StageFile
  BY <1>1 DEF StageFile, Matches, RowMatches, StatusMatches, ConfigMatches, Built
<1>2. CASE ServiceProgress
  <2>1. svc'.cfg = svc.cfg
    BY <1>2 DEF ServiceProgress, TypeOK, Service
  <2> QED
    BY <1>2, <2>1 DEF ServiceProgress, Matches, RowMatches, StatusMatches, ConfigMatches, Built
<1>3. CASE Restart
  BY <1>3, IdleMatches DEF Restart
<1> QED
  BY <1>1, <1>2, <1>3

\* Each step keeps it.
LEMMA StepMatches ==
    ASSUME OneThread, TypeOK, ThreadOK, TaskMatches, [Next]_vars
    PROVE  TaskMatches'
<1> SUFFICES ASSUME NEW w \in Workers PROVE Matches(w)'
  BY DEF TaskMatches, Matches
<1>0. Matches(w)
  BY DEF TaskMatches, Matches
<1>1. CASE Handle(w)
  BY <1>1, RequestMatches
<1>2. CASE Proceed(w)
  BY <1>0, <1>2, ProceedMatches
<1>3. CASE StageFile \/ ServiceProgress \/ Restart
  BY <1>0, <1>3, EnvironmentMatches
<1>4. CASE UNCHANGED vars
  BY <1>0, <1>4 DEF vars, Matches, RowMatches, StatusMatches, ConfigMatches, Built
<1> QED
  BY <1>1, <1>2, <1>3, <1>4 DEF Next, OneThread

\* Nobody has a task to begin with.
LEMMA InitMatches == Init => TaskMatches
BY NoneIsNoOp
DEF Init, TaskMatches, RowMatches, StatusMatches, ConfigMatches, IdleWorker, StatusPending,
    AllOps, TaskOps, SpecOps, EarlyOps

\* TaskMatches holds always.
LEMMA TasksMatch ==
    ASSUME OneThread
    PROVE  Spec => [](TypeOK /\ ThreadOK /\ TaskMatches)
<1>1. TypeOK /\ ThreadOK /\ TaskMatches /\ [Next]_vars => TaskMatches'
  BY StepMatches
<1> QED
  BY <1>1, InitMatches, ThreadsCorrect, PTL DEF Spec

-----------------------------------------------------------------------------
(* What the registry says of the service.                                  *)

\* After READY is written by an operation that rebuilt the spec, the service
\* was last given exactly the configuration the registry shows
\* (StampTellsTruth), whatever operations and faults there are.
THEOREM StampsTellTruth ==
    ASSUME OneThread
    PROVE  Spec => StampTellsTruth
<1> DEFINE Stamp == \A w \in Workers :
                      /\ worker[w].pc = "stamp" /\ worker'[w].pc # "stamp"
                      /\ worker[w].op \in SpecOps /\ row'.status = "READY" /\ row'.exists
                      => BuiltSpec(row'.cfg, svc'.cfg) = svc'.cfg
<1>1. TypeOK /\ ThreadOK /\ TaskMatches /\ [Next]_vars => [Stamp]_vars
  <2> SUFFICES ASSUME TypeOK, ThreadOK, TaskMatches, [Next]_vars, NEW w \in Workers,
                      worker[w].pc = "stamp", worker'[w].pc # "stamp",
                      worker[w].op \in SpecOps, row'.status = "READY", row'.exists
               PROVE  BuiltSpec(row'.cfg, svc'.cfg) = svc'.cfg
    OBVIOUS
  <2> DEFINE t == worker[w]
  <2>1. /\ row.exists /\ row.status = InProgress(t.op) /\ row.status # "READY"
        /\ Aimed(t.op, row.cfg, t.cfg) /\ Built(t.cfg)
        /\ t.op \in EarlyOps => row.cfg = t.cfg
        /\ t.cfg \in Config /\ row.cfg \in Config /\ row \in Row
    BY InProgressTransient, ThreadTypes
    DEF TaskMatches, RowMatches, StatusMatches, ConfigMatches, StatusPending, TaskOps,
        Transient, TypeOK, Row
  <2>2. CASE StampSuccess(w)
    <3>1. row' = Stamped(t.op, row, t.cfg) /\ svc' = svc
      BY <2>1, <2>2 DEF StampSuccess, UpdateApp
    <3>2. row'.cfg = SuccessColumns(t.op, row.cfg, t.cfg)
      BY <2>1, <3>1 DEF Stamped, SpecOps, Row
    <3>3. row'.cfg = t.cfg
      BY <2>1, <3>2, ColumnsReach
    <3> QED
      BY <2>1, <3>1, <3>3 DEF Built
  <2>3. CASE Raise(w) \/ Restart
    <3>1. row'.status = row.status
      BY <2>1, <2>3 DEF Raise, Restart, UpdateApp, Row
    <3> QED
      BY <2>1, <3>1
  <2>4. CASE StageFile \/ ServiceProgress \/ UNCHANGED vars
    BY <2>4 DEF StageFile, ServiceProgress, vars
  <2>5. CASE Handle(w)
    BY <2>5, Requested
  <2>6. CASE Proceed(w)
    BY <2>2, <2>3, <2>6
    DEF At, Proceed, PrepareDeploy, ChooseTarget, WriteSecret, WriteKey, MarkInProgress,
        Persist, ApplySpec, ApplyEgress, SuspendService, ResumeService, PollStatus,
        PollContainers, PollTimeout, DropKey, MarkFailed, RecordHistory, PruneHistory,
        CreateSchema, ProvisionPostgres, CreateService, CreateRole, InsertRow, Quiesce,
        TearDown, DeleteRow, Teardown
  <2> QED
    BY <2>3, <2>4, <2>5, <2>6 DEF Next, OneThread
<1> QED
  BY <1>1, TasksMatch, PTL DEF Spec, StampTellsTruth

\* A READY history row is the configuration the service was given when it
\* came up (HistoryTellsTruth), as long as nobody changes external access,
\* which has a history row written for a spec it did not rebuild.
THEOREM HistoryIsTruthful ==
    ASSUME OneThread, "external_access" \notin Ops
    PROVE  Spec => []HistoryTellsTruth
<1>1. ASSUME ThreadOK, TaskMatches, \A w \in Workers : worker[w].op \in Ops \cup {"deploy", None}
      PROVE  HistoryTellsTruth
  <2> SUFFICES ASSUME NEW w \in Workers, At(w, "record"), worker[w].outcome = "READY"
               PROVE  BuiltSpec(worker[w].cfg, svc.cfg) = svc.cfg
    BY DEF HistoryTellsTruth
  <2>1. worker[w].op \in SpecOps
    BY <1>1, OpsAtStatement DEF ThreadOK, At, TaskMatches, ConfigMatches, TaskOps
  <2> QED
    BY <1>1, <2>1 DEF TaskMatches, ConfigMatches, At, Built
<1> QED
  BY <1>1, TasksMatch, OpsRequested, PTL

\* ReadyMeansApplied without its Busy = {}: the form in which it is
\* inductive.
ReadyBuilt == row.exists /\ row.status = "READY" => Built(row.cfg)

\* ReadyBuilt is inductive.
LEMMA StepReady ==
    ASSUME OneThread, Ops \cap {"delete", "resume", "external_access"} = {},
           TypeOK, ThreadOK, TaskMatches,
           \A w \in Workers : worker[w].op \in Ops \cup {"deploy", None},
           ReadyBuilt, [Next]_vars
    PROVE  ReadyBuilt'
<1> USE InProgressTransient, OpsAtStatement DEF At, ReadyBuilt, Built
<1>0. /\ row \in Row /\ row.cfg \in Config /\ svc \in Service /\ svc.cfg \in Config
      /\ \A w \in Workers :
           /\ worker[w].op \in OpsAt(worker[w].pc) /\ worker[w].op # "delete"
           /\ worker[w].op \notin {"resume", "external_access"}
           /\ worker[w].op \in TaskOps => row.exists
           /\ worker[w].op = "create" => ~row.exists
           /\ worker[w].pc \in StatusPending \ {"fail"} => row.status # "READY"
  BY DEF TypeOK, Row, Service, ThreadOK, TaskMatches, RowMatches, StatusMatches, Transient,
         AllOps, TaskOps, SpecOps
<1>1. CASE row' = row
  <2>1. CASE svc'.cfg = svc.cfg
    BY <1>1, <2>1
  <2>2. ASSUME NEW w \in Workers, ApplySpec(w) \/ ApplyEgress(w)
        PROVE  row.status # "READY"
    BY <1>0, <2>2 DEF ApplySpec, ApplyEgress, StatusPending
  <2>3. ASSUME NEW w \in Workers, CreateService(w) \/ TearDown(w)
        PROVE  ~row.exists
    BY <1>0, <2>3 DEF CreateService, TearDown, Provision
  <2> QED
    BY <1>1, <2>1, <2>2, <2>3, ServiceWriters
<1>2. CASE Restart /\ row' = [row EXCEPT !.stale = row'.stale]
  <2>1. row'.exists = row.exists /\ row'.status = row.status /\ row'.cfg = row.cfg
    BY <1>0, <1>2 DEF Row
  <2> QED
    BY <1>2, <2>1 DEF Restart
<1>3. ASSUME NEW w \in Workers, MarkInProgress(w)
      PROVE  ~row'.exists \/ row'.status # "READY"
  BY <1>0, <1>3 DEF MarkInProgress, UpdateApp, Row, Transient
<1>4. ASSUME NEW w \in Workers, Persist(w)
      PROVE  row'.status # "READY"
  BY <1>0, <1>4 DEF Persist, UpdateApp, Row, StatusPending
<1>5. ASSUME NEW w \in Workers, StampSuccess(w), row'.status = "READY"
      PROVE  ReadyBuilt'
  <2> DEFINE t == worker[w]
  <2>1. /\ row.exists /\ t.op \in TaskOps \ {"suspend"} /\ t.op \in SpecOps
    BY <1>0, <1>5 DEF StampSuccess, Stamped, UpdateApp, TaskOps, Row
  <2>2. /\ Aimed(t.op, row.cfg, t.cfg) /\ Built(t.cfg) /\ t.cfg \in Config
        /\ t.op \in EarlyOps => row.cfg = t.cfg
    BY <1>5, <2>1, ThreadTypes DEF StampSuccess, TaskMatches, ConfigMatches, TaskOps
  <2>3. row' = Stamped(t.op, row, t.cfg) /\ svc' = svc
    BY <1>5, <2>1 DEF StampSuccess, UpdateApp
  <2>4. row'.cfg = SuccessColumns(t.op, row.cfg, t.cfg)
    BY <1>0, <2>1, <2>3 DEF Stamped, SpecOps, Row
  <2>5. row'.cfg = t.cfg
    BY <1>0, <2>2, <2>4, ColumnsReach
  <2> QED
    BY <2>2, <2>3, <2>5
<1>6. ASSUME NEW w \in Workers, MarkFailed(w)
      PROVE  ~row'.exists \/ row'.status # "READY"
  BY <1>0, <1>6 DEF MarkFailed, UpdateApp, Row
<1>7. ASSUME NEW w \in Workers, InsertRow(w)
      PROVE  row'.status # "READY"
  BY <1>0, <1>7 DEF InsertRow, Provision, NoRow
<1>8. ASSUME NEW w \in Workers, DeleteRow(w)
      PROVE  ~row'.exists
  BY <1>8 DEF DeleteRow, NoRow
<1> QED
  BY <1>1, <1>2, <1>3, <1>4, <1>5, <1>6, <1>7, <1>8, RowWriters

\* READY between changes means the service was last given exactly what the
\* registry shows (ReadyMeansApplied), after any history of successes,
\* failures, restarts and rollbacks, as long as nobody deletes (a teardown
\* that fails keeps a READY row without a service), resumes (which says READY
\* after a failed change: the run resume_after_failed_change) or changes
\* external access.
THEOREM ReadyIsApplied ==
    ASSUME OneThread, Ops \cap {"delete", "resume", "external_access"} = {}
    PROVE  Spec => []ReadyMeansApplied
<1>1. Init => ReadyBuilt
  BY DEF Init, NoRow, ReadyBuilt
<1>2. (/\ TypeOK /\ ThreadOK /\ TaskMatches
       /\ \A w \in Workers : worker[w].op \in Ops \cup {"deploy", None}
       /\ ReadyBuilt /\ [Next]_vars)
        => ReadyBuilt'
  BY StepReady
<1>3. ReadyBuilt => ReadyMeansApplied
  BY DEF ReadyBuilt, Built, ReadyMeansApplied
<1> QED
  BY <1>1, <1>2, <1>3, TasksMatch, OpsRequested, PTL DEF Spec

-----------------------------------------------------------------------------
(* The secrets of constants.                                               *)

\* The secrets still to be written: none where no loop over secrets is ahead.
ToWrite(w) ==
    LET pc == worker[w].pc
        op == worker[w].op
    IN  /\ op = "constants" /\ pc # "secret" => worker[w].todo = {}
        /\ op \in TaskOps \ {"deploy", "constants"} => worker[w].todo = {}
        /\ pc \in {"prepare", "persist", "apply", "eai", "poll", "containers", "stamp",
                 "service", "role", "insert"}
              => worker[w].todo = {}

\* The constants a task is about to store or mount have a secret, or are
\* still to be written before it gets there.
SecretsMatch(w) ==
    LET pc == worker[w].pc
        op == worker[w].op
    IN  /\ op \in TaskOps /\ "schema" \in objects
              => worker[w].cfg.consts \subseteq vault.consts \cup worker[w].todo
        /\ op = "create" /\ pc \notin Teardown
              => worker[w].cfg.consts \subseteq vault.consts \cup worker[w].todo
        /\ op = "create" /\ pc \in {"role", "insert"} => svc.cfg.consts \subseteq vault.consts

\* MountedConstantsExist, inductive: with the secrets of tasks under way.
SecretInv == (\A w \in Workers : ToWrite(w) /\ SecretsMatch(w)) /\ MountedConstantsExist

\* Each statement of a task keeps what it knows of its secrets.
LEMMA ProceedSecrets ==
    ASSUME TypeOK, ThreadOK, NEW w \in Workers, Matches(w), ToWrite(w), SecretsMatch(w),
           MountedConstantsExist, Proceed(w)
    PROVE  ToWrite(w)' /\ SecretsMatch(w)' /\ MountedConstantsExist'
<1> DEFINE t == worker[w]
<1>0. /\ worker[w] \in Worker /\ row \in Row /\ row.cfg \in Config /\ t.cfg \in Config
      /\ worker \in [Workers -> Worker]
      /\ svc \in Service /\ svc.cfg \in Config /\ vault \in Vault
      /\ t.op \in OpsAt(t.pc) /\ RowMatches(w)
      /\ t.pc = "upfront" => t.op \in EarlyOps
  BY ThreadTypes DEF TypeOK, ThreadOK, Row, Service, Matches, ConfigMatches
<1> USE OpsAtStatement, Went, Moved DEF At
<1>1. ASSUME worker'[w] = IdleWorker
      PROVE  ToWrite(w)' /\ SecretsMatch(w)'
  BY <1>1, NoneIsNoOp DEF IdleWorker, ToWrite, SecretsMatch, AllOps
<1>2. ASSUME row' = row, objects' = objects, svc'.cfg = svc.cfg, vault' = vault
      PROVE  MountedConstantsExist'
  BY <1>2 DEF MountedConstantsExist
<1>3. CASE PrepareDeploy(w)
  <2> DEFINE pad == worker[w].cfg.pad
             new == Declares[pad] \ row.cfg.consts
             prepared == [row.cfg EXCEPT !.pad = pad, !.consts = @ \cup new]
  <2>1. CASE worker' = [worker EXCEPT ![w] =
                          [@ EXCEPT !.pc = "mark", !.todo = new, !.cfg = prepared]]
    <3>1. t.op = "deploy" /\ row.exists /\ UNCHANGED <<row, svc, objects, vault>>
      BY <1>0, <1>3 DEF PrepareDeploy, RowMatches, TaskOps, SpecOps
    <3>2. prepared.consts = row.cfg.consts \cup new
      BY <1>0 DEF Config
    <3>3. /\ worker'[w].op = "deploy" /\ worker'[w].pc = "mark"
          /\ worker'[w].cfg = prepared /\ worker'[w].todo = new
      <4> HIDE DEF new, prepared
      <4> QED
        BY <1>0, <2>1, <3>1 DEF Worker
    <3> HIDE DEF prepared, new
    <3> QED
      BY <1>2, <3>1, <3>2, <3>3 DEF ToWrite, SecretsMatch, MountedConstantsExist
  <2> QED
    BY <1>1, <1>2, <1>3, <2>1 DEF PrepareDeploy
<1>4. CASE ChooseTarget(w)
  <2>1. ASSUME NEW c \in RollbackTargets(t.cfg),
               worker' = [worker EXCEPT ![w].pc = "mark", ![w].cfg = c]
        PROVE  ToWrite(w)' /\ SecretsMatch(w)'
    <3>1. t.op = "rollback" /\ t.pc = "target" /\ UNCHANGED <<objects, vault>>
      BY <1>0, <1>4 DEF ChooseTarget
    <3>2. /\ worker'[w].op = "rollback" /\ worker'[w].pc = "mark" /\ worker'[w].cfg = c
          /\ worker'[w].todo = t.todo
      BY <1>0, <2>1, <3>1 DEF Worker
    <3>3. PICK i \in DOMAIN history : c = [history[i].cfg EXCEPT !.consts = t.cfg.consts]
      BY <2>1 DEF RollbackTargets, ReadyRows
    <3>4. history[i] \in HistoryRow(Config)
      BY <3>3 DEF TypeOK
    <3>5. c.consts = t.cfg.consts
      BY <3>3, <3>4 DEF HistoryRow, Config
    <3> QED
      BY <3>1, <3>2, <3>5 DEF ToWrite, SecretsMatch, TaskOps, SpecOps
  <2> QED
    BY <1>1, <1>2, <1>4, <2>1 DEF ChooseTarget
<1> USE DEF ToWrite, SecretsMatch, MountedConstantsExist, TaskOps, SpecOps
<1>5. CASE WriteSecret(w)
  <2>1. PICK c \in t.todo :
          /\ vault' = [vault EXCEPT !.consts = @ \cup {c}]
          /\ worker' = [worker EXCEPT
                ![w].todo = @ \ {c},
                ![w].pc = IF worker[w].todo = {c} THEN AfterSecrets(worker[w].op) ELSE @]
    BY <1>5 DEF WriteSecret
  <2>2. /\ worker'[w].op = t.op /\ worker'[w].cfg = t.cfg
        /\ worker'[w].todo = t.todo \ {c}
        /\ worker'[w].pc = IF t.todo = {c} THEN AfterSecrets(t.op) ELSE t.pc
    BY <1>0, <2>1 DEF Worker
  <2>3. vault'.consts = vault.consts \cup {c}
    BY <1>0, <2>1 DEF Vault
  <2>4. /\ UNCHANGED <<row, svc, objects>>
        /\ \/ t.pc = "secret" /\ t.op \in {"constants", "create"}
           \/ t.pc = "sync" /\ t.op = "deploy"
    BY <1>0, <1>5 DEF WriteSecret
  <2> QED
    BY <2>2, <2>3, <2>4 DEF AfterSecrets
<1>6. CASE WriteKey(w)
  <2>1. /\ UNCHANGED <<row, svc, objects>> /\ t.pc = "key" /\ t.op \in {"license", "create"}
    BY <1>0, <1>6 DEF WriteKey
  <2>2. /\ worker'[w].op = t.op /\ worker'[w].cfg = t.cfg /\ worker'[w].todo = t.todo
        /\ worker'[w].pc \in {"mark", "secret", "service"}
        /\ worker'[w].pc = "service" => t.todo = {}
    BY <1>6, <2>1 DEF WriteKey, AfterKey
  <2>3. vault'.consts = vault.consts
    BY <1>0, <1>6 DEF WriteKey, Vault
  <2> QED
    BY <2>1, <2>2, <2>3
<1>7. CASE MarkInProgress(w)
  <2>1. UNCHANGED <<svc, objects, vault>> /\ t.pc = "mark"
    BY <1>7 DEF MarkInProgress
  <2>2. row'.exists = row.exists /\ row'.cfg = row.cfg
    BY <1>0, <1>7 DEF MarkInProgress, UpdateApp, Row
  <2>3. /\ worker'[w].op = t.op /\ worker'[w].cfg = t.cfg /\ worker'[w].todo = t.todo
        /\ worker'[w].pc \in {"upfront", "sync", "apply"}
        /\ t.op = "deploy" /\ t.todo # {} => worker'[w].pc = "sync"
    BY <1>7 DEF MarkInProgress, TaskStart
  <2>4. t.op \in TaskOps
    BY <1>0, <2>1
  <2> QED
    BY <2>1, <2>2, <2>3, <2>4
<1>8. CASE Persist(w)
  <2>1. /\ UNCHANGED <<svc, objects, vault>> /\ t.op \in TaskOps
        /\ t.pc \in {"upfront", "persist"}
        /\ worker'[w].op = t.op /\ worker'[w].cfg = t.cfg /\ worker'[w].todo = t.todo
        /\ worker'[w].pc \in {"eai", "apply"}
        /\ t.op = "deploy" => t.pc = "persist"
    BY <1>0, <1>8 DEF Persist, EarlyOps
  <2>2. row'.exists => /\ row.exists /\ row'.cfg.consts \in {row.cfg.consts, t.cfg.consts}
    BY <1>0, <1>8, <2>1 DEF Persist, UpdateApp, PersistedEarly, Row, Config
  <2> QED
    BY <2>1, <2>2
<1>9. CASE ApplySpec(w)
  <2>1. /\ t.pc = "apply" /\ t.op \in SpecOps /\ UNCHANGED <<row, objects, vault>>
        /\ worker'[w].op = t.op /\ worker'[w].cfg = t.cfg /\ worker'[w].todo = t.todo
        /\ worker'[w].pc \in {"eai", "poll"}
    BY <1>9 DEF ApplySpec
  <2>2. svc'.cfg.consts = t.cfg.consts
    BY <1>0, <1>9 DEF ApplySpec, Service, BuiltSpec, Config
  <2> QED
    BY <2>1, <2>2
<1>10. CASE ApplyEgress(w)
  <2>1. /\ t.pc = "eai" /\ UNCHANGED <<row, objects, vault>>
        /\ t.op \in TaskOps
        /\ worker'[w].op = t.op /\ worker'[w].cfg = t.cfg /\ worker'[w].todo = t.todo
        /\ worker'[w].pc = "poll"
    BY <1>0, <1>10 DEF ApplyEgress
  <2>2. svc'.cfg.consts = svc.cfg.consts
    BY <1>0, <1>10 DEF ApplyEgress, Service, Config
  <2> QED
    BY <2>1, <2>2
<1>11. CASE SuspendService(w) \/ ResumeService(w)
  <2>1. /\ t.pc = "apply" /\ UNCHANGED <<row, objects, vault>>
        /\ worker'[w].op = t.op /\ worker'[w].cfg = t.cfg /\ worker'[w].todo = t.todo
        /\ worker'[w].pc = "poll" /\ svc'.cfg = svc.cfg
    BY <1>0, <1>11 DEF SuspendService, ResumeService, Service
  <2> QED
    BY <1>0, <1>2, <2>1
<1>12. CASE PollStatus(w) \/ PollContainers(w) \/ PollTimeout(w)
  <2>1. /\ t.pc \in {"poll", "containers"} /\ UNCHANGED <<row, svc, objects, vault>>
        /\ worker'[w].op = t.op /\ worker'[w].cfg = t.cfg /\ worker'[w].todo = t.todo
        /\ worker'[w].pc \in {"stamp", "containers", "timeout"}
    BY <1>12 DEF PollStatus, PollContainers, PollTimeout
  <2> QED
    BY <1>0, <1>2, <2>1
<1>13. CASE StampSuccess(w)
  <2>1. /\ t.pc = "stamp" /\ t.op \in TaskOps /\ UNCHANGED <<svc, objects, vault>>
        /\ row.exists /\ row' = Stamped(t.op, row, t.cfg)
    BY <1>0, <1>13 DEF StampSuccess, UpdateApp, RowMatches
  <2>2. \/ row'.cfg = row.cfg
        \/ row'.cfg = SuccessColumns(t.op, row.cfg, t.cfg)
    BY <1>0, <2>1 DEF Stamped, Row
  <2>3. SuccessColumns(t.op, row.cfg, t.cfg).consts \in {row.cfg.consts, t.cfg.consts}
    BY <1>0 DEF SuccessColumns, Config
  <2>4. MountedConstantsExist'
    BY <2>1, <2>2, <2>3
  <2>5. \/ worker'[w] = IdleWorker
        \/ /\ worker'[w].op = t.op /\ worker'[w].cfg = t.cfg /\ worker'[w].todo = t.todo
           /\ worker'[w].pc \in {"drop", "record"}
    BY <1>13 DEF StampSuccess, AfterStamp
  <2> QED
    BY <1>1, <2>1, <2>4, <2>5
<1>14. CASE DropKey(w) \/ RecordHistory(w) \/ PruneHistory(w)
  <2>1. UNCHANGED <<row, svc, objects>> /\ vault'.consts = vault.consts
    BY <1>0, <1>14 DEF DropKey, RecordHistory, PruneHistory, Vault
  <2>2. t.op \in TaskOps
    BY <1>0, <1>14 DEF DropKey, RecordHistory, PruneHistory
  <2>3. \/ worker'[w] = IdleWorker
        \/ /\ worker'[w].op = t.op /\ worker'[w].cfg = t.cfg /\ worker'[w].todo = t.todo
           /\ worker'[w].pc \in {"record", "prune"} /\ t.pc # "secret"
    BY <1>14 DEF DropKey, RecordHistory, PruneHistory
  <2>4. MountedConstantsExist'
    BY <2>1
  <2> QED
    BY <1>1, <2>1, <2>2, <2>3, <2>4
<1>15. CASE MarkFailed(w)
  <2>1. t.op \in TaskOps /\ t.pc \in {"timeout", "fail"} /\ UNCHANGED <<svc, objects, vault>>
    BY <1>0, <1>15 DEF MarkFailed
  <2>2. row'.exists = row.exists /\ row'.cfg = row.cfg
    BY <1>0, <1>15 DEF MarkFailed, UpdateApp, Row
  <2>3. \/ worker'[w] = IdleWorker
        \/ /\ worker'[w].op = t.op /\ worker'[w].cfg = t.cfg /\ worker'[w].todo = t.todo
           /\ worker'[w].pc = "record"
    BY <1>15 DEF MarkFailed
  <2> QED
    BY <1>1, <2>1, <2>2, <2>3
<1>16. CASE CreateSchema(w) \/ ProvisionPostgres(w) \/ CreateService(w) \/ CreateRole(w)
  <2>1. /\ t.op = "create" /\ UNCHANGED <<row, vault>> /\ ~row.exists
        /\ worker'[w].op = t.op /\ worker'[w].cfg = t.cfg /\ worker'[w].todo = t.todo
    BY <1>0, <1>16 DEF CreateSchema, ProvisionPostgres, CreateService, CreateRole, AfterKey,
                       Provision, RowMatches
  <2>2. CASE CreateSchema(w)
    BY <2>1, <2>2 DEF CreateSchema, Teardown
  <2>3. CASE ProvisionPostgres(w)
    BY <2>1, <2>3 DEF ProvisionPostgres, AfterKey, Teardown
  <2>4. CASE CreateService(w)
    <3>1. svc'.cfg.consts = t.cfg.consts
      BY <1>0, <2>4 DEF CreateService, Config
    <3> QED
      BY <2>1, <2>4, <3>1 DEF CreateService, Teardown
  <2>5. CASE CreateRole(w)
    BY <2>1, <2>5 DEF CreateRole, Teardown
  <2> QED
    BY <1>16, <2>2, <2>3, <2>4, <2>5
<1>17. CASE InsertRow(w)
  <2>0. t.pc = "insert" /\ UNCHANGED <<svc, vault, objects>>
    BY <1>17 DEF InsertRow
  <2>1. t.op = "create" /\ ~row.exists
    BY <1>0, <2>0 DEF Provision, RowMatches
  <2>2. row'.cfg = t.cfg
    <3>1. row' = [NoRow EXCEPT !.exists = TRUE, !.cfg = t.cfg, !.image = env.image]
      BY <1>17, <2>1 DEF InsertRow
    <3> QED
      BY <3>1 DEF NoRow
  <2>3. ASSUME NEW pad \in staged,
               worker' = [worker EXCEPT ![w] =
                 [IdleWorker EXCEPT !.pc = "prepare", !.op = "deploy", !.cfg.pad = pad]]
        PROVE  ToWrite(w)' /\ SecretsMatch(w)'
    <3>1. /\ worker'[w].op = "deploy" /\ worker'[w].pc = "prepare" /\ worker'[w].todo = {}
          /\ worker'[w].cfg.consts = {}
      BY <1>0, <2>3 DEF IdleWorker, BlankConfig
    <3> QED
      BY <3>1
  <2>4. MountedConstantsExist'
    BY <2>0, <2>1, <2>2 DEF Teardown
  <2> QED
    BY <1>1, <1>17, <2>3, <2>4 DEF InsertRow
<1>18. CASE Quiesce(w)
  <2>1. /\ t.op = "delete" /\ UNCHANGED <<row, objects, vault>> /\ svc'.cfg = svc.cfg
        /\ worker'[w].op = t.op /\ worker'[w].pc = "td_service"
    BY <1>0, <1>18 DEF Quiesce, Service
  <2> QED
    BY <1>2, <2>1
<1>19. CASE TearDown(w)
  <2>1. t.op \in {"create", "delete"} /\ t.pc \in Teardown /\ row' = row
    BY <1>0, <1>19 DEF TearDown
  <2>2. PICK outcome : Continue(w, AfterTeardown(t.pc, t.op, outcome), outcome)
    BY <1>19 DEF TearDown, Goto
  <2>3. AfterTeardown(t.pc, t.op, outcome) \in Teardown \cup {"td_row", "idle"}
        /\ (t.op = "create" => AfterTeardown(t.pc, t.op, outcome) # "td_row")
    BY <2>1 DEF AfterTeardown, AfterCleanup, Teardown
  <2>4. ToWrite(w)' /\ SecretsMatch(w)'
    <3>1. CASE AfterTeardown(t.pc, t.op, outcome) = "idle"
      BY <1>1, <2>2, <3>1
    <3>2. CASE AfterTeardown(t.pc, t.op, outcome) # "idle"
      <4>1. /\ worker'[w].op = t.op /\ worker'[w].pc \in Teardown \cup {"td_row"}
            /\ t.op = "create" => worker'[w].pc \in Teardown
        BY <2>2, <2>3, <3>2
      <4> QED
        BY <2>1, <4>1 DEF Teardown
    <3> QED
      BY <3>1, <3>2
  <2>5. MountedConstantsExist'
    <3>1. objects' \subseteq objects /\ (svc' = svc \/ svc'.cfg.consts = {})
      BY <1>19 DEF TearDown, NoService, BlankConfig
    <3>2. vault' = vault \/ "schema" \notin objects'
      BY <1>19 DEF TearDown
    <3> QED
      BY <2>1, <3>1, <3>2
  <2> QED
    BY <2>4, <2>5
<1>20. CASE DeleteRow(w)
  BY <1>1, <1>20 DEF DeleteRow, NoRow
<1>21. CASE Raise(w)
  <2> DEFINE next == AfterRaise(t.pc, t.op)
  <2>1. /\ UNCHANGED <<row, svc, objects, vault>> /\ t.pc # "idle"
        /\ Continue(w, next, IF t.pc = "quiesce" THEN "READY" ELSE "FAILED")
    BY <1>21 DEF Raise
  <2>2. CASE t.pc = "quiesce" \/ t.op = "create"
    <3>1. next = "td_service" /\ t.op \in {"create", "delete"}
      BY <1>0, <2>2 DEF AfterRaise
    <3>2. worker'[w].op = t.op /\ worker'[w].pc = "td_service"
      BY <2>1, <3>1
    <3> QED
      BY <1>2, <2>1, <3>1, <3>2 DEF Teardown
  <2>3. CASE t.pc # "quiesce" /\ t.op # "create" /\ next \in {"fail", "record"}
    <3>1. /\ worker'[w].op = t.op /\ worker'[w].pc = next /\ worker'[w].cfg = t.cfg
          /\ worker'[w].todo = t.todo
      BY <2>1, <2>3
    <3>2. t.pc # "secret"
      BY <2>3 DEF AfterRaise
    <3> HIDE DEF next
    <3> QED
      BY <1>2, <2>1, <2>3, <3>1, <3>2
  <2>4. CASE next = "idle"
    BY <1>1, <1>2, <2>1, <2>4
  <2> QED
    BY <2>2, <2>3, <2>4 DEF AfterRaise
<1> QED
  BY <1>3, <1>4, <1>5, <1>6, <1>7, <1>8, <1>9, <1>10, <1>11, <1>12, <1>13, <1>14,
     <1>15, <1>16, <1>17, <1>18, <1>19, <1>20, <1>21 DEF Proceed

\* SecretInv is inductive.
LEMMA StepSecrets ==
    ASSUME OneThread, TypeOK, ThreadOK, TaskMatches, SecretInv, [Next]_vars
    PROVE  SecretInv'
<1>0. MountedConstantsExist /\ \A w \in Workers : Matches(w) /\ ToWrite(w) /\ SecretsMatch(w)
  BY DEF TaskMatches, Matches, SecretInv
<1> USE DEF SecretInv
<1>1. ASSUME NEW w \in Workers, Handle(w)
      PROVE  SecretInv'
  <2> DEFINE t == worker'[w]
  <2>1. /\ t.op \in AllOps /\ UNCHANGED <<row, svc, vault, objects>>
        /\ t.op \in TaskOps =>
             /\ row.exists
             /\ t.pc = CASE t.op = "deploy" -> "prepare" [] t.op = "rollback" -> "target"
                            [] t.op = "constants" -> "secret" [] t.op = "license" -> "key"
                            [] OTHER -> "mark"
             /\ t.op # "deploy" => t.cfg.consts \subseteq row.cfg.consts \cup t.todo
             /\ t.op = "deploy" => t.cfg.consts = row.cfg.consts
             /\ t.op # "constants" => t.todo = {}
        /\ t.op = "delete" => t.pc = "quiesce"
        /\ t.op = "create" => t.pc = "schema" /\ t.cfg.consts = t.todo
    BY <1>1, Requested
  <2>2. MountedConstantsExist'
    BY <1>0, <2>1 DEF MountedConstantsExist
  <2>3. CASE t.op \in TaskOps
    <3>1. /\ t.pc \in {"prepare", "target", "secret", "key", "mark"}
          /\ t.op = "constants" => t.pc = "secret"
      BY <2>1, <2>3
    <3>2. "schema" \in objects => row.cfg.consts \subseteq vault.consts
      BY <1>0, <2>1, <2>3 DEF MountedConstantsExist
    <3>3. t.op \notin {"create", "delete"}
      BY <2>3 DEF TaskOps, SpecOps
    <3> HIDE DEF t
    <3>4. t.pc = "prepare" => t.op = "deploy"
      BY <2>1, <2>3
    <3>5. ToWrite(w)' /\ SecretsMatch(w)'
      BY <2>1, <2>3, <3>1, <3>2, <3>3, <3>4 DEF t, ToWrite, SecretsMatch
    <3> QED
      BY <2>2, <3>5 DEF OneThread
  <2>4. CASE t.op \in {"create", "delete"}
    <3>1. ToWrite(w)' /\ SecretsMatch(w)'
      BY <2>1, <2>4 DEF ToWrite, SecretsMatch, TaskOps, SpecOps
    <3> QED
      BY <2>2, <3>1 DEF OneThread
  <2> QED
    BY <2>1, <2>3, <2>4 DEF AllOps
<1>2. ASSUME NEW w \in Workers, Proceed(w)
      PROVE  SecretInv'
  BY <1>0, <1>2, ProceedSecrets DEF OneThread
<1>3. CASE StageFile \/ UNCHANGED vars
  BY <1>0, <1>3 DEF StageFile, vars, ToWrite, SecretsMatch, MountedConstantsExist
<1>4. CASE ServiceProgress
  <2>1. svc'.cfg = svc.cfg
    BY <1>4 DEF ServiceProgress, TypeOK, Service
  <2> QED
    BY <1>0, <1>4, <2>1 DEF ServiceProgress, ToWrite, SecretsMatch, MountedConstantsExist
<1>5. CASE Restart
  <2>1. row'.exists = row.exists /\ row'.cfg = row.cfg /\ UNCHANGED <<svc, vault, objects>>
    BY <1>5 DEF Restart, UpdateApp, TypeOK, Row
  <2>2. MountedConstantsExist'
    BY <1>0, <2>1 DEF MountedConstantsExist
  <2>3. \A w \in Workers : worker'[w] = IdleWorker
    BY <1>5 DEF Restart
  <2>4. \A w \in Workers : ToWrite(w)' /\ SecretsMatch(w)'
    BY <2>3, NoneIsNoOp DEF ToWrite, SecretsMatch, IdleWorker, AllOps
  <2> QED
    BY <2>2, <2>4
<1> QED
  BY <1>1, <1>2, <1>3, <1>4, <1>5 DEF Next

\* Every constant the registry lists or the service mounts has its secret as
\* long as the app has its schema (MountedConstantsExist), whatever
\* operations and faults there are: a constant's secret is never removed
\* without the schema, and its name never stored without the secret.
THEOREM ConstantsAreMounted ==
    ASSUME OneThread
    PROVE  Spec => []MountedConstantsExist
<1>1. Init => SecretInv
  BY NoneIsNoOp
  DEF Init, NoRow, IdleWorker, SecretInv, ToWrite, SecretsMatch, MountedConstantsExist, AllOps
<1>2. TypeOK /\ ThreadOK /\ TaskMatches /\ SecretInv /\ [Next]_vars => SecretInv'
  BY StepSecrets
<1>3. SecretInv => MountedConstantsExist
  BY DEF SecretInv
<1> QED
  BY <1>1, <1>2, <1>3, TasksMatch, PTL DEF Spec

-----------------------------------------------------------------------------
(* Deleting.                                                               *)

\* What a delete without a failure so far has removed when it stands at pc:
\* everything the earlier steps of _teardown_app_objects were for.
TornDown(w) ==
    LET pc == worker[w].pc
    IN  /\ pc = "td_row" => worker[w].outcome = "READY"
        /\ worker[w].op = "delete" /\ worker[w].outcome = "READY" =>
           /\ (pc \in {"td_role", "td_schema", "td_history", "td_pg", "td_row"} => ~svc.exists)
           /\ (pc \in {"td_schema", "td_history", "td_pg", "td_row"} => "role" \notin objects)
           /\ (pc \in {"td_history", "td_pg", "td_row"}
                => "schema" \notin objects /\ vault = EmptyVault)
           /\ (pc \in {"td_pg", "td_row"} => history = <<>>)
           /\ (pc = "td_row" /\ "postgres" \notin Faults => "postgres" \notin objects)

\* The invariant about deletes. A property of the step that drops the row is
\* not inductive: each earlier step adds its part. An app that is not
\* registered has no history because both the teardown and a failed create
\* purge it.
TeardownInv == /\ \A w \in Workers : TornDown(w)
               /\ ~row.exists => history = <<>>

\* A thread that is not deleting has torn down nothing.
LEMMA NotDeleting ==
    ASSUME NEW w \in Workers, ThreadOK', worker'[w].op # "delete"
    PROVE  TornDown(w)'
BY OpsAtStatement DEF ThreadOK, TornDown

\* Each step of a delete adds its part, or notes a failure.
LEMMA ProceedTeardown ==
    ASSUME TypeOK, ThreadOK, ThreadOK', NEW w \in Workers, TornDown(w), Proceed(w)
    PROVE  TornDown(w)'
<1> DEFINE t == worker[w]
<1>0. worker[w] \in Worker /\ t.op \in OpsAt(t.pc)
  BY DEF TypeOK, ThreadOK
<1> USE OpsAtStatement DEF At
<1>1. CASE t.op # "delete"
  <2>1. worker'[w].op # "delete"
    BY <1>1, NoneIsNoOp, ProceedKeepsOp DEF AllOps
  <2> QED
    BY <2>1, NotDeleting
<1>2. CASE worker'[w] = IdleWorker
  BY <1>2, NoneIsNoOp DEF TornDown, IdleWorker, AllOps
<1>3. CASE t.op = "delete"
  <2>1. t.pc \in {"quiesce", "td_row"} \cup Teardown
    BY <1>0, <1>3, ThreadTypes DEF Pcs, Provision, TaskOps, SpecOps
  <2>2. CASE t.pc = "quiesce"
    <3>1. worker'[w].pc = "td_service"
      BY <1>0, <2>2, Went, Moved
      DEF Proceed, PrepareDeploy, ChooseTarget, WriteSecret, WriteKey, MarkInProgress, Persist,
          ApplySpec, ApplyEgress, SuspendService, ResumeService, PollStatus, PollContainers,
          PollTimeout, StampSuccess, DropKey, MarkFailed, RecordHistory, PruneHistory,
          CreateSchema, ProvisionPostgres, CreateService, CreateRole, InsertRow, Quiesce,
          TearDown, DeleteRow, Raise, AfterRaise, Teardown
    <3> QED
      BY <3>1 DEF TornDown
  <2>3. CASE t.pc = "td_row"
    <3>1. worker'[w] = IdleWorker
      BY <1>0, <1>3, <2>3, Went, Moved
      DEF Proceed, PrepareDeploy, ChooseTarget, WriteSecret, WriteKey, MarkInProgress, Persist,
          ApplySpec, ApplyEgress, SuspendService, ResumeService, PollStatus, PollContainers,
          PollTimeout, StampSuccess, DropKey, MarkFailed, RecordHistory, PruneHistory,
          CreateSchema, ProvisionPostgres, CreateService, CreateRole, InsertRow, Quiesce,
          TearDown, DeleteRow, Raise, AfterRaise, Teardown
    <3> QED
      BY <1>2, <3>1
  <2>4. CASE t.pc \in Teardown
    <3>1. TearDown(w)
      BY <2>4
      DEF Proceed, PrepareDeploy, ChooseTarget, WriteSecret, WriteKey, MarkInProgress, Persist,
          ApplySpec, ApplyEgress, SuspendService, ResumeService, PollStatus, PollContainers,
          PollTimeout, StampSuccess, DropKey, MarkFailed, RecordHistory, PruneHistory,
          CreateSchema, ProvisionPostgres, CreateService, CreateRole, InsertRow, Quiesce,
          DeleteRow, Raise, Teardown
    <3>2. CASE worker'[w].outcome = "READY" /\ worker'[w] # IdleWorker
      <4>1. PICK outcome : Continue(w, AfterTeardown(t.pc, "delete", outcome), outcome)
        BY <1>3, <3>1 DEF TearDown, Goto
      <4>2. /\ worker'[w].pc = AfterTeardown(t.pc, "delete", "READY") /\ outcome = "READY"
            /\ ~ Continue(w, AfterTeardown(t.pc, "delete", "FAILED"), "FAILED")
        BY <3>2, <4>1, Moved
      <4>3. /\ Goto(w, AfterTeardown(t.pc, t.op, t.outcome)) /\ t.outcome = "READY"
            /\ \/ /\ svc' = IF t.pc = "td_service" THEN NoService ELSE svc
                  /\ vault' = IF t.pc = "td_schema" THEN EmptyVault ELSE vault
                  /\ objects' = objects \ (CASE t.pc = "td_role" -> {"role"}
                                             [] t.pc = "td_schema" -> {"schema"}
                                             [] t.pc = "td_pg" -> {"postgres"}
                                             [] OTHER -> {})
                  /\ history' = IF t.pc = "td_history" THEN Purged(history) ELSE history
               \/ /\ t.pc = "td_pg" /\ "postgres" \in Faults
                  /\ UNCHANGED <<svc, vault, objects, history>>
        BY <1>3, <3>1, <3>2, <4>2, Went DEF TearDown
      <4>4. CASE t.pc = "td_service"
        BY <1>3, <4>2, <4>3, <4>4 DEF TornDown, AfterTeardown, AfterCleanup, NoService, Teardown
      <4>5. CASE t.pc = "td_role"
        BY <1>3, <4>2, <4>3, <4>5 DEF TornDown, AfterTeardown, AfterCleanup, Teardown
      <4>6. CASE t.pc = "td_schema"
        BY <1>3, <4>2, <4>3, <4>6 DEF TornDown, AfterTeardown, AfterCleanup, Teardown
      <4>7. CASE t.pc = "td_history"
        BY <1>3, <4>2, <4>3, <4>7 DEF TornDown, AfterTeardown, AfterCleanup, Purged, Teardown
      <4>8. CASE t.pc = "td_pg"
        BY <1>3, <3>2, <4>2, <4>3, <4>8 DEF TornDown, AfterTeardown, AfterCleanup, Teardown
      <4> QED
        BY <2>4, <4>4, <4>5, <4>6, <4>7, <4>8 DEF Teardown
    <3>3. CASE worker'[w].outcome # "READY"
      <4>1. PICK outcome : Continue(w, AfterTeardown(t.pc, "delete", outcome), outcome)
        BY <1>3, <3>1 DEF TearDown, Goto
      <4>2. AfterTeardown(t.pc, "delete", outcome) # "idle"
        BY <3>3, <4>1, Moved DEF IdleWorker
      <4>3. outcome # "READY" /\ worker'[w].pc = AfterTeardown(t.pc, "delete", outcome)
        BY <3>3, <4>1, <4>2, Moved
      <4>4. worker'[w].pc # "td_row"
        BY <2>4, <4>3 DEF AfterTeardown, AfterCleanup, Teardown
      <4> QED
        BY <3>3, <4>4 DEF TornDown
    <3> QED
      BY <1>2, <3>2, <3>3
  <2> QED
    BY <2>1, <2>2, <2>3, <2>4
<1> QED
  BY <1>1, <1>3

\* TeardownInv is inductive.
LEMMA StepTeardown ==
    ASSUME OneThread, TypeOK, ThreadOK, TaskMatches, TeardownInv, [Next]_vars
    PROVE  TeardownInv'
<1>0. ThreadOK'
  BY NextOK
<1> USE DEF TeardownInv
<1>1. ASSUME NEW w \in Workers
      PROVE  TornDown(w)'
  <2>1. CASE Handle(w)
    <3>1. worker'[w].op = "delete" => worker'[w].pc = "quiesce"
      BY <2>1, Requested
    <3> QED
      BY <1>0, <3>1, NotDeleting DEF TornDown
  <2>2. CASE Proceed(w)
    BY <1>0, <2>2, ProceedTeardown
  <2>3. CASE StageFile \/ UNCHANGED vars
    BY <2>3 DEF StageFile, vars, TornDown
  <2>4. CASE ServiceProgress
    BY <2>4 DEF ServiceProgress, TornDown
  <2>5. CASE Restart
    BY <2>5, NoneIsNoOp DEF Restart, TornDown, IdleWorker, AllOps
  <2> QED
    BY <2>1, <2>2, <2>3, <2>4, <2>5 DEF Next, OneThread
<1>2. ASSUME ~row'.exists
      PROVE  history' = <<>>
  <2>1. CASE row.exists
    <3>1. PICK w \in Workers : DeleteRow(w)
      BY <1>2, <2>1, RowRemoved
    <3>2. worker[w].op = "delete" /\ worker[w].pc = "td_row" /\ history' = history
      BY <3>1, OpsAtStatement DEF DeleteRow, At, ThreadOK
    <3> QED
      BY <3>2 DEF TornDown
  <2>2. CASE ~row.exists
    <3>1. ASSUME NEW w \in Workers, RecordHistory(w) \/ PruneHistory(w)
          PROVE  FALSE
      BY <2>2, <3>1, OpsAtStatement
      DEF RecordHistory, PruneHistory, At, ThreadOK, TaskMatches, RowMatches
    <3>2. ASSUME NEW w \in Workers, TearDown(w)
          PROVE  history' \in {history, <<>>}
      BY <3>2 DEF TearDown, Purged
    <3> QED
      BY <2>2, <3>1, <3>2, HistoryWriters
  <2> QED
    BY <2>1, <2>2
<1> QED
  BY <1>1, <1>2

\* TeardownInv holds always.
LEMMA TeardownHolds ==
    ASSUME OneThread
    PROVE  Spec => [](TypeOK /\ ThreadOK /\ TeardownInv)
<1>1. Init => TeardownInv
  BY NoneIsNoOp DEF Init, TeardownInv, TornDown, IdleWorker, AllOps
<1>2. TypeOK /\ ThreadOK /\ TaskMatches /\ TeardownInv /\ [Next]_vars => TeardownInv'
  BY StepTeardown
<1> QED
  BY <1>1, <1>2, TasksMatch, PTL DEF Spec

\* No history outlives its app, for a later app of that name to inherit
\* (NoOrphanHistory), whatever operations and faults there are.
THEOREM NoOrphansAreLeft ==
    ASSUME OneThread
    PROVE  Spec => []NoOrphanHistory
<1>1. TeardownInv => NoOrphanHistory
  BY DEF TeardownInv, NoOrphanHistory
<1> QED
  BY <1>1, TeardownHolds, PTL

\* A delete that drops the registry row leaves nothing of the app behind
\* (DeleteIsComplete), unless deprovision_app has swallowed an error of its
\* own ("postgres"): every other failure keeps the row.
THEOREM DeletesAreComplete ==
    ASSUME OneThread, "postgres" \notin Faults
    PROVE  Spec => DeleteIsComplete
<1> DEFINE Complete == row.exists /\ ~row'.exists =>
                         ~svc'.exists /\ vault' = EmptyVault /\ objects' = {} /\ history' = <<>>
<1>1. TypeOK /\ ThreadOK /\ TeardownInv /\ [Next]_vars => [Complete]_vars
  <2> SUFFICES ASSUME TypeOK, ThreadOK, TeardownInv, [Next]_vars, row.exists, ~row'.exists
               PROVE  ~svc'.exists /\ vault' = EmptyVault /\ objects' = {} /\ history' = <<>>
    OBVIOUS
  <2>1. PICK w \in Workers : DeleteRow(w)
    BY RowRemoved
  <2>2. /\ worker[w].op = "delete" /\ worker[w].pc = "td_row"
        /\ UNCHANGED <<svc, vault, objects, history>>
    BY <2>1, OpsAtStatement DEF DeleteRow, At, ThreadOK
  <2> QED
    BY <2>2 DEF TeardownInv, TornDown, TypeOK
<1> QED
  BY <1>1, TeardownHolds, PTL DEF Spec, DeleteIsComplete

-----------------------------------------------------------------------------
(* The license and its key.                                                *)

\* The app's service and schema are gone.
Dismantled == svc = NoService /\ "schema" \notin objects

\* The secret MX_LICENSE_KEY is the key of the license the registry shows,
\* except while update_license is between its two writes, when it is already
\* the key of the new one, and once the app is being dismantled.
KeyMatches(w) ==
    LET pc == worker[w].pc
        op == worker[w].op
        l == worker[w].cfg.license
    IN  /\ op = "license" /\ pc \in {"mark", "upfront"} => vault.key = l
        /\ op = "create" /\ pc \in {"secret", "service", "role", "insert"} /\ l # None
              => vault.key = l
        /\ op = "delete" /\ pc \in (Teardown \ {"td_service"}) \cup {"td_row"} => svc = NoService
        /\ ~(op = "license" /\ pc \in {"mark", "upfront"}) /\ row.cfg.license # None =>
              vault.key = row.cfg.license \/ Dismantled

\* LicenseKeyMatches, inductive.
KeyInv == /\ \A w \in Workers : KeyMatches(w)
          /\ ~row.exists => row = NoRow

\* Each statement of a task keeps what it knows of the key.
LEMMA ProceedKey ==
    ASSUME TypeOK, ThreadOK, NEW w \in Workers, Matches(w), KeyMatches(w),
           ~row.exists => row = NoRow,
           worker[w].op # "rollback",
           {"mark", "upfront", "td_service"} \cap Faults = {},
           Proceed(w)
    PROVE  KeyMatches(w)'
<1> DEFINE t == worker[w]
<1>0. /\ worker[w] \in Worker /\ row \in Row /\ row.cfg \in Config /\ t.cfg \in Config
      /\ worker \in [Workers -> Worker]
      /\ svc \in Service /\ svc.cfg \in Config /\ vault \in Vault
      /\ t.op \in OpsAt(t.pc) /\ RowMatches(w)
      /\ t.pc = "upfront" => t.op \in EarlyOps
      /\ t.op = "delete_license" => t.cfg.license = None
      /\ t.op = "delete_license" /\ t.pc = "drop" => row.cfg = t.cfg
  BY ThreadTypes DEF TypeOK, ThreadOK, Row, Service, Matches, ConfigMatches, EarlyOps
<1>00. NoRow.cfg.license = None /\ BlankConfig.license = None
  BY DEF NoRow, BlankConfig
<1> USE OpsAtStatement, Went, Moved, NoneIsNoOp DEF At, KeyMatches, Dismantled
    \* Steps of threads that hold no key and write none.
<1>1. ASSUME row'.cfg.license = row.cfg.license, vault'.key = vault.key,
             Dismantled => Dismantled',
             ~(t.op = "license" /\ t.pc \in {"mark", "upfront"}),
             worker'[w].op \notin {"create", "delete"},
             ~(worker'[w].op = "license" /\ worker'[w].pc \in {"mark", "upfront"})
      PROVE  KeyMatches(w)'
  BY <1>1
<1>2. CASE PrepareDeploy(w) \/ ChooseTarget(w)
  <2>1. t.op = "deploy" /\ UNCHANGED <<row, svc, vault, objects>>
    BY <1>0, <1>2 DEF PrepareDeploy, ChooseTarget
  <2>2. worker'[w].op \in {"deploy", None}
    BY <2>1, <1>2, ProceedKeepsOp DEF Proceed
  <2> QED
    BY <1>1, <2>1, <2>2 DEF AllOps
<1>3. CASE WriteSecret(w)
  <2>1. PICK c \in t.todo :
          /\ vault' = [vault EXCEPT !.consts = @ \cup {c}]
          /\ worker' = [worker EXCEPT
                ![w].todo = @ \ {c},
                ![w].pc = IF worker[w].todo = {c} THEN AfterSecrets(worker[w].op) ELSE @]
    BY <1>3 DEF WriteSecret
  <2>2. /\ worker'[w].op = t.op /\ worker'[w].cfg = t.cfg
        /\ worker'[w].pc \in {t.pc, AfterSecrets(t.op)}
    BY <1>0, <2>1 DEF Worker
  <2>3. vault'.key = vault.key
    BY <1>0, <2>1 DEF Vault
  <2>4. /\ UNCHANGED <<row, svc, objects>>
        /\ \/ t.pc = "secret" /\ t.op \in {"constants", "create"}
           \/ t.pc = "sync" /\ t.op = "deploy"
    BY <1>0, <1>3 DEF WriteSecret
  <2> QED
    BY <2>2, <2>3, <2>4 DEF AfterSecrets
<1>4. CASE WriteKey(w)
  <2>1. /\ UNCHANGED <<row, svc, objects>> /\ t.pc = "key" /\ t.op \in {"license", "create"}
    BY <1>0, <1>4 DEF WriteKey
  <2>2. /\ worker'[w].op = t.op /\ worker'[w].cfg = t.cfg
        /\ worker'[w].pc \in {"mark", "secret", "service"}
        /\ t.op = "license" => worker'[w].pc = "mark"
    BY <1>4, <2>1 DEF WriteKey, AfterKey
  <2>3. vault'.key = t.cfg.license
    BY <1>0, <1>4 DEF WriteKey, Vault
  <2> QED
    BY <1>0, <1>00, <2>1, <2>2, <2>3 DEF RowMatches
<1>5. CASE MarkInProgress(w)
  <2>1. UNCHANGED <<svc, vault, objects>> /\ t.pc = "mark" /\ t.op \in TaskOps
    BY <1>0, <1>5 DEF MarkInProgress
  <2>2. row'.cfg = row.cfg
    BY <1>0, <1>5 DEF MarkInProgress, UpdateApp, Row
  <2>3. /\ worker'[w].op = t.op /\ worker'[w].cfg = t.cfg
        /\ worker'[w].pc \in {"upfront", "sync", "apply"}
        /\ t.op = "license" => worker'[w].pc = "upfront"
    BY <1>5 DEF MarkInProgress, TaskStart
  <2> QED
    BY <2>1, <2>2, <2>3 DEF TaskOps, SpecOps
<1>6. CASE Persist(w)
  <2>0. t.pc \in {"upfront", "persist"}
    BY <1>6 DEF Persist
  <2>1. /\ UNCHANGED <<svc, vault, objects>>
        /\ worker'[w].op = t.op /\ worker'[w].cfg = t.cfg
        /\ worker'[w].pc \in {"eai", "apply"}
    BY <1>6 DEF Persist
  <2>4. t.op \in TaskOps /\ (t.op = "license" => t.pc = "upfront")
    BY <1>0, <2>0 DEF EarlyOps, TaskOps, SpecOps
  <2>2. row'.cfg = PersistedEarly(t.op, row.cfg, t.cfg)
    BY <1>0, <1>6, <2>4 DEF Persist, UpdateApp, RowMatches, Row
  <2>3. row'.cfg.license = IF t.op \in {"license", "delete_license"} THEN t.cfg.license
                           ELSE row.cfg.license
    BY <1>0, <2>2 DEF PersistedEarly, Config
  <2> QED
    BY <1>0, <2>0, <2>1, <2>3, <2>4 DEF TaskOps, SpecOps
<1>7. CASE ApplySpec(w) \/ ApplyEgress(w) \/ SuspendService(w) \/ ResumeService(w)
  <2>1. ASSUME t.pc \in {"apply", "eai"}, UNCHANGED <<row, vault, objects>>, svc.exists,
               worker'[w].op = t.op, worker'[w].pc \in {"eai", "poll"}
        PROVE  KeyMatches(w)'
    <3>1. ~Dismantled
      BY <2>1 DEF NoService
    <3>2. t.op \in TaskOps
      BY <1>0, <2>1
    <3> QED
      BY <1>1, <2>1, <3>1, <3>2 DEF TaskOps, SpecOps
  <2>2. CASE ApplySpec(w)
    BY <2>1, <2>2 DEF ApplySpec, Impossible
  <2>3. CASE ApplyEgress(w)
    BY <2>1, <2>3 DEF ApplyEgress, Impossible
  <2>4. CASE SuspendService(w)
    BY <2>1, <2>4 DEF SuspendService, Impossible
  <2>5. CASE ResumeService(w)
    BY <2>1, <2>5 DEF ResumeService, Impossible
  <2> QED
    BY <1>7, <2>2, <2>3, <2>4, <2>5
<1>8. CASE PollStatus(w) \/ PollContainers(w) \/ PollTimeout(w)
  <2>1. /\ t.pc \in {"poll", "containers"} /\ t.op \in TaskOps
        /\ UNCHANGED <<row, svc, vault, objects>>
        /\ worker'[w].op = t.op /\ worker'[w].pc \in {"stamp", "containers", "timeout"}
    BY <1>0, <1>8 DEF PollStatus, PollContainers, PollTimeout
  <2> QED
    BY <1>1, <2>1 DEF TaskOps, SpecOps
<1>9. CASE StampSuccess(w)
  <2>1. /\ t.pc = "stamp" /\ t.op \in TaskOps /\ UNCHANGED <<svc, vault, objects>>
        /\ row.exists /\ row' = Stamped(t.op, row, t.cfg)
    BY <1>0, <1>9 DEF StampSuccess, UpdateApp, RowMatches
  <2>2. \/ row'.cfg = row.cfg
        \/ row'.cfg = SuccessColumns(t.op, row.cfg, t.cfg)
    BY <1>0, <2>1 DEF Stamped, Row
  <2>3. SuccessColumns(t.op, row.cfg, t.cfg).license = row.cfg.license
    BY <1>0 DEF SuccessColumns, Config
  <2>4. worker'[w].op \in {t.op, None} /\ worker'[w].pc \in {"idle", "drop", "record"}
    BY <1>9 DEF StampSuccess, AfterStamp, IdleWorker
  <2> QED
    BY <1>1, <2>1, <2>2, <2>3, <2>4 DEF TaskOps, SpecOps, AllOps
<1>10. CASE DropKey(w)
  <2>1. /\ t.op = "delete_license" /\ t.pc = "drop" /\ row' = row
        /\ worker'[w].op = t.op
    BY <1>0, <1>10 DEF DropKey
  <2> QED
    BY <1>0, <2>1
<1>11. CASE RecordHistory(w) \/ PruneHistory(w)
  <2>1. /\ t.pc \in {"record", "prune"} /\ t.op \in TaskOps
        /\ UNCHANGED <<row, svc, vault, objects>>
        /\ worker'[w].op \in {t.op, None} /\ worker'[w].pc \in {"idle", "prune"}
    BY <1>0, <1>11 DEF RecordHistory, PruneHistory, IdleWorker
  <2> QED
    BY <1>1, <2>1 DEF TaskOps, SpecOps, AllOps
<1>12. CASE MarkFailed(w)
  <2>1. t.op \in TaskOps /\ t.pc \in {"timeout", "fail"} /\ UNCHANGED <<svc, vault, objects>>
    BY <1>0, <1>12 DEF MarkFailed
  <2>2. row'.cfg = row.cfg
    BY <1>0, <1>12 DEF MarkFailed, UpdateApp, Row
  <2>3. worker'[w].op \in {t.op, None} /\ worker'[w].pc \in {"idle", "record"}
    BY <1>12 DEF MarkFailed, IdleWorker
  <2> QED
    BY <1>1, <2>1, <2>2, <2>3 DEF TaskOps, SpecOps, AllOps
<1>13. CASE CreateSchema(w) \/ ProvisionPostgres(w) \/ CreateService(w) \/ CreateRole(w)
  <2>1. /\ t.op = "create" /\ UNCHANGED <<row, vault>> /\ row = NoRow
        /\ worker'[w].op = t.op /\ worker'[w].cfg = t.cfg
        /\ worker'[w].pc \in {"secret", "service"} =>
             t.cfg.license = None \/ t.pc \in {"secret", "service", "role", "insert"}
        /\ worker'[w].pc \in {"role", "insert"} => t.pc \in {"service", "role"}
    BY <1>0, <1>13 DEF CreateSchema, ProvisionPostgres, CreateService, CreateRole, AfterKey,
                       Provision, RowMatches
  <2> QED
    BY <1>00, <2>1
<1>14. CASE InsertRow(w)
  <2>0. t.pc = "insert" /\ UNCHANGED <<svc, vault, objects>>
    BY <1>14 DEF InsertRow
  <2>1. t.op = "create" /\ ~row.exists
    BY <1>0, <2>0 DEF Provision, RowMatches
  <2>2. row'.cfg = t.cfg
    <3>1. row' = [NoRow EXCEPT !.exists = TRUE, !.cfg = t.cfg, !.image = env.image]
      BY <1>14, <2>1 DEF InsertRow
    <3> QED
      BY <3>1 DEF NoRow
  <2>3. worker'[w].op \in {"deploy", None}
    <3>1. ASSUME NEW pad \in staged,
                 worker' = [worker EXCEPT ![w] =
                   [IdleWorker EXCEPT !.pc = "prepare", !.op = "deploy", !.cfg.pad = pad]]
          PROVE  worker'[w].op = "deploy"
      BY <1>0, <3>1 DEF IdleWorker
    <3>2. Goto(w, "idle") => worker'[w].op = None
      BY DEF IdleWorker
    <3> QED
      BY <1>14, <3>1, <3>2 DEF InsertRow
  <2> QED
    BY <2>0, <2>1, <2>2, <2>3 DEF AllOps
<1>15. CASE Quiesce(w)
  <2>1. /\ t.op = "delete" /\ t.pc = "quiesce" /\ UNCHANGED <<row, vault, objects>>
        /\ Dismantled => svc' = svc
        /\ worker'[w].op = t.op /\ worker'[w].pc = "td_service"
    BY <1>0, <1>15 DEF Quiesce, NoService
  <2> QED
    BY <2>1 DEF Teardown
<1>16. CASE TearDown(w)
  <2>1. t.op \in {"create", "delete"} /\ t.pc \in Teardown /\ row' = row
    BY <1>0, <1>16 DEF TearDown
  <2>2. PICK outcome : Continue(w, AfterTeardown(t.pc, t.op, outcome), outcome)
    BY <1>16 DEF TearDown, Goto
  <2>3. AfterTeardown(t.pc, t.op, outcome) \in Teardown \cup {"td_row", "idle"}
        /\ (t.op = "create" => AfterTeardown(t.pc, t.op, outcome) # "td_row")
    BY <2>1 DEF AfterTeardown, AfterCleanup, Teardown
  <2>4. \/ worker'[w] = IdleWorker
        \/ /\ worker'[w].op = t.op /\ worker'[w].pc \in Teardown \cup {"td_row"}
           /\ t.op = "create" => worker'[w].pc \in Teardown
    BY <2>2, <2>3
  <2>5. CASE t.op = "create"
    <3>1. row = NoRow
      BY <1>0, <2>5 DEF RowMatches
    <3> QED
      BY <1>00, <2>1, <2>4, <2>5, <3>1 DEF IdleWorker, Teardown, AllOps
  <2>6. CASE t.op = "delete"
    <3>1. svc' = NoService
      BY <1>16, <2>1, <2>6 DEF TearDown
    <3>2. vault' = vault \/ "schema" \notin objects'
      BY <1>16 DEF TearDown
    <3>3. objects' \subseteq objects
      BY <1>16 DEF TearDown
    <3> QED
      BY <2>1, <2>4, <2>6, <3>1, <3>2, <3>3 DEF IdleWorker, Teardown, AllOps
  <2> QED
    BY <2>1, <2>5, <2>6
<1>17. CASE DeleteRow(w)
  BY <1>00, <1>17 DEF DeleteRow, IdleWorker, AllOps
<1>18. CASE Raise(w)
  <2> DEFINE next == AfterRaise(t.pc, t.op)
  <2>1. /\ UNCHANGED <<row, svc, objects, vault>> /\ t.pc \notin {"idle", "mark", "upfront"}
        /\ Continue(w, next, IF t.pc = "quiesce" THEN "READY" ELSE "FAILED")
    BY <1>18 DEF Raise, Impossible
  <2>2. next \in {"idle", "td_service", "fail", "record"}
    BY DEF AfterRaise
  <2>3. \/ worker'[w] = IdleWorker
        \/ worker'[w].op = t.op /\ worker'[w].pc = next
    BY <2>1, <2>2
  <2>4. next = "td_service" \/ t.op \notin {"create", "delete"} \/ next = "idle"
    BY <1>0 DEF AfterRaise, TaskOps, SpecOps
  <2> HIDE DEF next
  <2> QED
    BY <2>1, <2>2, <2>3, <2>4 DEF IdleWorker, Teardown, AllOps
<1> QED
  BY <1>2, <1>3, <1>4, <1>5, <1>6, <1>7, <1>8, <1>9, <1>10, <1>11, <1>12, <1>13, <1>14,
     <1>15, <1>16, <1>17, <1>18 DEF Proceed

\* KeyInv is inductive.
LEMMA StepKey ==
    ASSUME OneThread, TypeOK, ThreadOK, TaskMatches,
           \A w \in Workers : worker[w].op \in Ops \cup {"deploy", None},
           "rollback" \notin Ops, {"mark", "upfront", "restart", "td_service"} \cap Faults = {},
           KeyInv, [Next]_vars
    PROVE  KeyInv'
<1> USE DEF KeyInv
<1>1. ~row'.exists => row' = NoRow
  <2>1. CASE row.exists
    BY <2>1, RowRemoved DEF DeleteRow
  <2>2. CASE ~row.exists
    BY <2>2, RowWriters
    DEF MarkInProgress, Persist, StampSuccess, MarkFailed, InsertRow, DeleteRow, Restart,
        UpdateApp, NoRow
  <2> QED
    BY <2>1, <2>2
<1>2. ASSUME NEW w \in Workers
      PROVE  KeyMatches(w)'
  <2>0. Matches(w) /\ KeyMatches(w) /\ worker[w].op # "rollback"
    BY NoneIsNoOp DEF TaskMatches, Matches, AllOps, TaskOps, SpecOps
  <2>1. CASE Handle(w)
    <3> DEFINE t == worker'[w]
    <3>1. /\ worker[w].pc = "idle" /\ UNCHANGED <<row, svc, vault, objects>>
          /\ t.op \in TaskOps =>
               t.pc = CASE t.op = "deploy" -> "prepare" [] t.op = "rollback" -> "target"
                         [] t.op = "constants" -> "secret" [] t.op = "license" -> "key"
                         [] OTHER -> "mark"
          /\ t.op = "delete" => t.pc = "quiesce"
          /\ t.op = "create" => t.pc = "schema"
      BY <2>1, Requested
    <3>2. t.op = "license" => t.pc = "key"
      BY <3>1 DEF TaskOps, SpecOps
    <3> HIDE DEF t
    <3> QED
      BY <2>0, <3>1, <3>2 DEF t, KeyMatches, Dismantled, Teardown
  <2>2. CASE Proceed(w)
    BY <2>0, <2>2, ProceedKey
  <2>3. CASE StageFile \/ UNCHANGED vars
    BY <2>0, <2>3 DEF StageFile, vars, KeyMatches, Dismantled
  <2>4. CASE ServiceProgress
    BY <2>0, <2>4 DEF ServiceProgress, KeyMatches, Dismantled, NoService
  <2>5. CASE Restart
    BY <2>5 DEF Restart
  <2> QED
    BY <2>1, <2>2, <2>3, <2>4, <2>5 DEF Next, OneThread
<1> QED
  BY <1>1, <1>2

\* Between changes, an app that runs under the license it shows has that
\* license's key (LicenseKeyMatches). The assumptions are the ways the two
\* writes come apart: a rollback restores the license id of an old row and
\* not its key; and update_license, which has overwritten the key, is stopped
\* before it stores the id by a failing statement or a restart. A service
\* whose DROP failed goes on running without the schema the key was in.
THEOREM LicenseKeysMatch ==
    ASSUME OneThread, "rollback" \notin Ops,
           {"mark", "upfront", "restart", "td_service"} \cap Faults = {}
    PROVE  Spec => []LicenseKeyMatches
<1>1. Init => KeyInv
  BY NoneIsNoOp DEF Init, KeyInv, KeyMatches, IdleWorker, NoRow, BlankConfig, AllOps
<1>2. TypeOK /\ ThreadOK /\ TaskMatches
      /\ (\A w \in Workers : worker[w].op \in Ops \cup {"deploy", None})
      /\ KeyInv /\ [Next]_vars => KeyInv'
  BY StepKey
<1>3. KeyInv => LicenseKeyMatches
  <2> SUFFICES ASSUME KeyInv, Busy = {}, row.cfg.license # None,
                      svc.cfg.license = row.cfg.license
               PROVE  vault.key = row.cfg.license
    BY DEF LicenseKeyMatches
  <2>1. PICK w : w \in Workers
    BY DEF OneThread
  <2>2. worker[w].pc = "idle"
    BY <2>1 DEF Busy, At
  <2>3. NoService.cfg.license = None
    BY DEF NoService, BlankConfig
  <2>4. svc # NoService
    BY <2>3
  <2>5. KeyMatches(w)
    BY <2>1 DEF KeyInv
  <2> QED
    BY <2>2, <2>4, <2>5 DEF KeyMatches, Dismantled
<1> QED
  BY <1>1, <1>2, <1>3, TasksMatch, OpsRequested, PTL DEF Spec

-----------------------------------------------------------------------------
(* The status machine.                                                     *)

\* The abstract status machine's state: what the registry shows.
Shown == IF row.exists THEN row.status ELSE "ABSENT"

\* Each step is a step of the status machine or leaves what is shown alone.
LEMMA StepShown ==
    ASSUME TypeOK, ThreadOK, TaskMatches, [Next]_vars
    PROVE  StatusMachine!Next \/ Shown' = Shown
<1> USE OpsAtStatement DEF At, Shown
<1>0. /\ row \in Row
      /\ row.exists => row.status \in StatusMachine!Transient \cup StatusMachine!Settled
      /\ Transient = StatusMachine!Transient
  BY DEF TypeOK, Row, Statuses, Transient, Settled, StatusMachine!Transient, StatusMachine!Settled
<1>1. ASSUME NEW w \in Workers, MarkInProgress(w)
      PROVE  StatusMachine!Begin
  <2>1. worker[w].pc = "mark" /\ worker[w].op \in TaskOps
    BY <1>1 DEF MarkInProgress, ThreadOK
  <2>2. row.exists /\ row.status \notin Transient
    BY <2>1 DEF TaskMatches, RowMatches, StatusMatches
  <2>3. row'.exists /\ row'.status \in Transient
    BY <1>0, <1>1, <2>2, InProgressTransient DEF MarkInProgress, UpdateApp, Row
  <2> QED
    BY <1>0, <2>2, <2>3 DEF StatusMachine!Begin
<1>2. ASSUME NEW w \in Workers, StampSuccess(w)
      PROVE  StatusMachine!Succeed
  <2>1. worker[w].pc = "stamp" /\ worker[w].op \in TaskOps
    BY <1>2 DEF StampSuccess, ThreadOK
  <2>2. row.exists /\ row.status = InProgress(worker[w].op)
    BY <2>1 DEF TaskMatches, RowMatches, StatusMatches, StatusPending
  <2>3. /\ row'.exists
        /\ row'.status = IF worker[w].op = "suspend" THEN "SUSPENDED" ELSE "READY"
    BY <1>0, <1>2, <2>2 DEF StampSuccess, Stamped, UpdateApp, Row
  <2> QED
    BY <2>2, <2>3 DEF StatusMachine!Succeed, InProgress
<1>3. ASSUME NEW w \in Workers, MarkFailed(w)
      PROVE  StatusMachine!Fail \/ StatusMachine!CleanupFails
  <2>1. worker[w].pc \in {"timeout", "fail"} /\ worker[w].op \in TaskOps
    BY <1>3 DEF MarkFailed, ThreadOK
  <2>2. row.exists /\ (row.status = InProgress(worker[w].op) \/ row.status = "READY")
    BY <2>1 DEF TaskMatches, RowMatches, StatusMatches, StatusPending
  <2>3. row'.exists /\ row'.status = "FAILED"
    BY <1>0, <1>3, <2>2 DEF MarkFailed, UpdateApp, Row
  <2> QED
    BY <1>0, <2>2, <2>3, InProgressTransient DEF StatusMachine!Fail, StatusMachine!CleanupFails
<1>4. ASSUME NEW w \in Workers, InsertRow(w)
      PROVE  StatusMachine!Register
  <2>1. worker[w].pc = "insert"
    BY <1>4 DEF InsertRow
  <2>2. ~row.exists
    BY <2>1 DEF Provision, ThreadOK, TaskMatches, RowMatches
  <2>3. row'.exists /\ row'.status = "NOT_DEPLOYED"
    BY <1>4, <2>2 DEF InsertRow, NoRow
  <2> QED
    BY <2>2, <2>3 DEF StatusMachine!Register
<1>5. ASSUME NEW w \in Workers, DeleteRow(w)
      PROVE  StatusMachine!Remove
  <2>1. row.exists
    BY <1>5 DEF DeleteRow, ThreadOK, TaskMatches, RowMatches
  <2>2. ~row'.exists
    BY <1>5 DEF DeleteRow, NoRow
  <2> QED
    BY <1>0, <2>1, <2>2 DEF StatusMachine!Remove, StatusMachine!Transient, StatusMachine!Settled
<1>6. ASSUME NEW w \in Workers, Persist(w)
      PROVE  Shown' = Shown
  BY <1>0, <1>6 DEF Persist, UpdateApp, Row
<1>7. CASE row' = row
  BY <1>7
<1>8. CASE row' = [row EXCEPT !.stale = row'.stale]
  BY <1>0, <1>8 DEF Row
<1> QED
  BY <1>1, <1>2, <1>3, <1>4, <1>5, <1>6, <1>7, <1>8, RowWriters DEF StatusMachine!Next

\* The Controller implements the safety part of the abstract status machine
\* (AppStatus), whatever operations and faults there are: only a settled
\* status becomes transient, a transient one only settles, and a row goes
\* only when it is settled. Its promise that every change ends is model-
\* checked.
THEOREM StatusIsRefined ==
    ASSUME OneThread
    PROVE  Spec => StatusMachine!Spec
<1>1. Init => StatusMachine!Init
  BY DEF Init, NoRow, StatusMachine!Init
<1>2. TypeOK /\ ThreadOK /\ TaskMatches /\ [Next]_vars
        => [StatusMachine!Next]_(IF row.exists THEN row.status ELSE "ABSENT")
  BY StepShown DEF Shown
<1> QED
  BY <1>1, <1>2, TasksMatch, PTL DEF Spec, StatusMachine!Spec

=============================================================================
